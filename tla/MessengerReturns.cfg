SPECIFICATION FairSpec
CONSTANTS
  c1 = c1
  a1 = a1
  k1 = k1
  k2 = k2
  p1 = p1
  fw = fw
  f1 = f1
  f2 = f2
  Callers <- NoThreads
  Acceptors <- OneAcceptor
  Workers <- TwoWorkers
  Peers <- OnePeer
  Fds <- ThreeFds
  WakeFd = fw
  MaxConn = 4
PROPERTIES
  StopReturns
  CallsReturn
CHECK_DEADLOCK FALSE
