SPECIFICATION FairSpec
CONSTANTS
  Clients = {c1, c2}
  IoThreads = 2
  MaxOpens = 2
CHECK_DEADLOCK FALSE
INVARIANTS
  TypeOK
  NoOrphan
  FlagTellsTruth
  SidsDistinct
PROPERTIES
  ClientsServed
  ClosedServersGo
