SPECIFICATION Spec
CONSTANTS
  BLOCK_SIZE = 30
  HDR_SIZE = 3
  Headers <- SmallHeaders
  Blocks <- AllBlocks
INVARIANTS TypeOK SlicesInBlock SlicesDisjoint WalkComplete
\* The walk ends.
CHECK_DEADLOCK FALSE
