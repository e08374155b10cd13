CONSTANTS
  Names = {a, b}
  Empty = Empty
  Long = Long
  Procs = {p}
  MaxOpen = 2
  MaxNodes = 4
  DataBytes = 5
  Capacity = 2
  LongMax = 3
  IntMax = 2
  BadSegments <- MCBadSegments
  Paths <- FilePaths
  FlagSets <- WriterFlagSets
  Buffers <- SomeBuffers
  ReadLengths = {3}
  SeekOffsets = {0}
SPECIFICATION Spec
SYMMETRY NameSymmetry
INVARIANT ReadsReturnWhatWasWritten
PROPERTY AppendersNeverOverwrite
