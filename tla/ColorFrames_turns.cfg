SPECIFICATION Spec
CONSTANTS
  block_count = 3
  MaxTick = 10
CHECK_DEADLOCK FALSE
INVARIANT OrderTellsAge
