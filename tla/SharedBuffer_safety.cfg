SPECIFICATION Spec
CONSTANTS
  Writers = {w1, w2}
  Readers = {r1}
  block_count = 2
  TickModulus = 3
  MaxTick = 3
  MaxCrash = 0
CHECK_DEADLOCK FALSE
SYMMETRY Symmetry
INVARIANTS
  TypeOK
  MutualExclusion
  PublishedWhole
  CopyNotOlder
PROPERTIES
  TimestampsAdvance
  ReadsAdvance
