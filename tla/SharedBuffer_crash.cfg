SPECIFICATION FairSpec
CONSTANTS
  Writers = {w1}
  Readers = {r1}
  block_count = 2
  TickModulus = 8
  MaxTick = 3
  MaxCrash = 1
CHECK_DEADLOCK FALSE
INVARIANTS
  IInv
PROPERTIES
  ImplementsFrameExchange
  SearchEnds
