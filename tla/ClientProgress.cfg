SPECIFICATION FairAckSpec
CONSTANTS
  w1 = w1
  w2 = w2
  Writers <- TwoWriters
  OsdCount = 3
  CheckDup = TRUE
  MaxReq = 2
INVARIANTS
  AckCountExact
  ListedIffInProgress
PROPERTIES
  RefinesQuorumWrite
  AckedWriteReturns
  SomeWriteReturns
  WriteToFewServersFails
CHECK_DEADLOCK FALSE
