CONSTANTS
  WordSize = 8
  EhdrSize = 1
  PhdrSize = 1
  MaxSegments = 2
  Images <- MCImages
  Regions <- MCRegions
  Stale <- MCStale
SPECIFICATION Spec
INVARIANTS PlanSound PlanComplete
CHECK_DEADLOCK FALSE
