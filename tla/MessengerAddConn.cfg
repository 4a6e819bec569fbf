SPECIFICATION Spec
CONSTANTS
  c1 = c1
  a1 = a1
  k1 = k1
  k2 = k2
  p1 = p1
  fw = fw
  f1 = f1
  f2 = f2
  Callers <- OneCaller
  Acceptors <- NoThreads
  Workers <- OneWorker
  Peers <- OnePeer
  Fds <- TwoFds
  WakeFd = fw
  MaxConn = 3
INVARIANTS
  AddConnReturnsLiveConn
CHECK_DEADLOCK FALSE
