CONSTANTS
  WordMax = 1023
  Header = 48
  Align = 16
  MinSplit = 32
  MaxBlocks = 1048576
  Arenas <- MCArenas
  Requests <- MCRequests
  Callocs <- MCCallocs
SPECIFICATION Spec
INVARIANTS HeapTiled LiveBlocksIntact
INVARIANTS CallsExact
PROPERTY RefinesHeap
