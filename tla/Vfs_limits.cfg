CONSTANTS
  Names = {a, b, c}
  Empty = Empty
  Long = Long
  Procs = {p}
  MaxOpen = 1
  MaxNodes = 4
  DataBytes = 2
  Capacity = 1
  LongMax = 2
  IntMax = 1
  BadSegments <- MCBadSegments
  Paths <- AllPaths
  FlagSets <- AllFlagSets
  Buffers <- LargeBuffers
  ReadLengths = {1}
  SeekOffsets <- FarSeekOffsets
SPECIFICATION Spec
SYMMETRY NameSymmetry
INVARIANT FsWellFormed
PROPERTY FailureIsHarmless
