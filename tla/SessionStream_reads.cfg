SPECIFICATION FairSpec
CONSTANTS
  HeaderSize = 3
  DataMax = 4
  SizeModulus = 128
  Messages <- AllMessages
  MaxMessages = 3
  CutIn <- Anywhere
CHECK_DEADLOCK FALSE
INVARIANTS
  TypeOK
  OneReader
  FramingKept
  InStep
  OnlySentQueries
PROPERTIES
  ImplementsMessageStream
  HelloHandled
