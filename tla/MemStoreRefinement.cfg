CONSTANTS
  Threads = {t1, t2}
  NoThread = NoThread
  IntLimit = 4
  Transactions <- MCTransactions
  Queries <- MCQueries
  MallocMayFail = FALSE
SPECIFICATION Spec
SYMMETRY Symmetry
PROPERTIES
  RefinesObjectStore
