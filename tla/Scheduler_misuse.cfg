SPECIFICATION AnySpec
CONSTANTS
  NULL = NULL
  Threads = {boot, a, b}
  Boot = boot
  MaxRunnable = 4
INVARIANTS
  ValidateExact
