SPECIFICATION FairSpec
CONSTANTS
  Modules = {1, 2}
  Faults <- EachFault
  BadSteps <- SomeSteps
  Keys <- TwoKeys
  Capacity = 2
  MaxRemove = 1
  CallsRelease = TRUE
CHECK_DEADLOCK FALSE
INVARIANTS
  TypeOK
  ServedIsComplete
  MapFollowsMessages
  DiesOnlyOf
  ReleaseIsFinal
PROPERTIES
  DeviceServed
  GatewayOpens
  ExitEnds
