SPECIFICATION Spec
CONSTANTS
  Frames <- LanFrames
  Filters <- AllFilters
INVARIANTS OnlyMatchingReachUserspace
CHECK_DEADLOCK FALSE
