SPECIFICATION FairClusterSpec
CONSTANTS
  w1 = w1
  Writers <- OneWriter
  OsdCount = 3
  CheckDup = TRUE
  MaxReq = 2
  BadDisks = {2}
INVARIANTS
  AcksAreExpected
  LaterWritesComeLater
  SecondWriteStays
PROPERTIES
  WritesComeBeforeOk
  WritesReturnUnlessAcksAreLost
CHECK_DEADLOCK FALSE
