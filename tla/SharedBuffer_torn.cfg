SPECIFICATION Spec
CONSTANTS
  Writers = {w1}
  Readers = {r1}
  block_count = 2
  TickModulus = 8
  MaxTick = 4
  MaxCrash = 0
CHECK_DEADLOCK FALSE
INVARIANTS
  GrabsOneImage
