SPECIFICATION Spec
CONSTANTS
  Radix = 4
  StubAddress <- MCStubAddress
  VectorCount = 34
  MaxDepth = 2
  InnerExceptions = {3, 14}
  WordSize = 8
  MaxWrite = 2
  OpResults = {7}
  OpSets <- MCOpSets
  UserRegions <- MCUserRegions
  SyscallArgs <- MCSyscallArgs
INVARIANTS
  FrameFaithful
  RangeExact
  ReadsInsideRegion
PROPERTIES
  BreakpointResumes
  FailClosed
  SyscallAnswered
CHECK_DEADLOCK FALSE
