CONSTANTS
  Boot = boot
  ta = ta
  tb = tb
  tc = tc
  Threads = {boot, ta, tb, tc}
  NULL = NULL
  MaxRunnable = 0
  WordSize = 64
  StackAlign = 4
  SizeofWord = 2
  MinStack = 12
  Headroom = 8
  StacksOf <- MCStacksOf
  BootStack <- MCBootStack
  Depths = {0, 2}
SPECIFICATION TFairSpec
INVARIANTS ReadyQueueExact EntryStackSound
PROPERTIES RefinesRoundRobin ReadyThreadRuns ResumesExactly
