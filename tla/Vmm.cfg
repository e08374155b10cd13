CONSTANTS
  Entries = 2
  PhysPages = 16
  Root = 1
  Pool = {2, 3, 4, 5, 6, 7}
  MaxOthers = 1
  Unmapped = {7}
  VAddrs <- MCVAddrs
  Mappings <- MCMappings
SPECIFICATION Spec
INVARIANTS QueryExact FramesAreTables TlbCoherent
