CONSTANTS
  Threads = {t1}
  NoThread = NoThread
  IntLimit = 4
  Transactions <- MCTransactions
  Queries <- NoQueries
  MallocMayFail = TRUE
SPECIFICATION Spec
PROPERTIES
  UpdateKeepsItsKeys
