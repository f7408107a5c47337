SPECIFICATION FairSpec
CONSTANTS
  Clients = {c1}
  SleepTime = 2
  pipe_server_timeout = 10
  StartDelay = 1
  ClientDelay = 2
  CutHello = FALSE
  CutAck = TRUE
  Deaths = FALSE
CHECK_DEADLOCK FALSE
PROPERTIES
  ClientLeaves
