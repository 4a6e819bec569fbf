SPECIFICATION FairAckSpec
CONSTANTS
  w1 = w1
  w2 = w2
  Writers <- TwoWriters
  OsdCount = 1
  CheckDup = FALSE
  MaxReq = 2
PROPERTIES
  EveryWriteReturns
CHECK_DEADLOCK FALSE
