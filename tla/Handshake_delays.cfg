SPECIFICATION FairSpec
CONSTANTS
  Clients = {c1, c2}
  SleepTime = 2
  pipe_server_timeout = 10
  StartDelay = 1
  ClientDelay = 2
  CutHello = TRUE
  CutAck = TRUE
  Deaths = TRUE
CHECK_DEADLOCK FALSE
INVARIANTS
  TypeOK
  SuccessAgreed
  NeverOneSided
  PromptSucceeds
PROPERTIES
  HandshakeEnds
  LeavesUnlessCut
