SPECIFICATION Spec
CONSTANTS
  block_count = 3
  MaxTick = 8
CHECK_DEADLOCK FALSE
INVARIANT GrabsRgba
