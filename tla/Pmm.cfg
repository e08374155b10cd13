CONSTANTS
  AddrMax = 23
  PageSize = 3
  INVALID = INVALID
  MaxRegions = 2
  Lists <- MCLists
  InitArgs <- MCInitArgs
  ReserveArgs <- MCReserveArgs
  MaxReserved = 5
SPECIFICATION Spec
INVARIANTS AccountsExact NeverFreeWhileInUse
PROPERTIES InitExact BootMapSound RefinesAllocator
