SPECIFICATION LockdepSpec
CONSTANTS
  Threads = {a, b, c}
  pmm = pmm
  vmm = vmm
  vfs = vfs
  vfs2 = vfs2
  noclass = noclass
  Locks <- MCLocks
  Class <- MCClass
  MaxClass = 30
  MaxHeld = 2
  NoLock = NoLock
  MaxViolations = 0
INVARIANTS
  CheckerSound
  NoDeadlock
  LifoExact
