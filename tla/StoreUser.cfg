CONSTANTS
  t1 = t1
  t2 = t2
  Threads = {t1, t2}
  NoThread = NoThread
  IntLimit = 4
  Transactions <- MCTransactions
  Queries <- MCQueries
  MallocMayFail = TRUE
  MetaColl = 0
  OsdIdKey = 1
  MaxEpochKey = 2
  FirstEpoch = 3
  OsdId <- MCOsdId
  Users = {t2}
  User = t2
  Ops <- MCOps
  Unset = Unset
  LIST_SIZE = 1
  MaxOps = 3
  KeepsGoing = FALSE
SPECIFICATION FairUserSpec
INVARIANTS
  OneOsdInTheStore
  OpsInOrder
PROPERTIES
  HalfMadeStays
  OnlyTheNamedChanges
  FailedOpsLoseNothing
  LockIsReleased
CHECK_DEADLOCK FALSE
