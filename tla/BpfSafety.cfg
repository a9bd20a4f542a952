SPECIFICATION Spec
CONSTANTS
  Frames <- AllFrames
  Filters <- AllFilters
INVARIANTS TypeOK NoMatchDropped ExactWhereItLooks
\* The machine stops when it has its verdict.
CHECK_DEADLOCK FALSE
