CONSTANTS
  Threads = {t1, t2}
  NoThread = NoThread
  Messages <- MCMessages
  MaxMsgs = 2
  IntWidth = 2
  SizeLimit = 2
SPECIFICATION FairSpec
INVARIANTS
  ReceivedAsSent
PROPERTIES
  WorkersGetFree
CHECK_DEADLOCK FALSE
