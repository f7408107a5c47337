SPECIFICATION Spec
CONSTANTS
  HeaderSize = 3
  DataMax = 4
  SizeModulus = 128
  Messages <- OneHello
  MaxMessages = 1
  CutIn <- InData
CHECK_DEADLOCK FALSE
INVARIANTS
  ParsesDataFromClient
