SPECIFICATION Spec
CONSTANTS
  c1 = c1
  a1 = a1
  k1 = k1
  k2 = k2
  p1 = p1
  fw = fw
  f1 = f1
  f2 = f2
  Callers <- OneCaller
  Acceptors <- OneAcceptor
  Workers <- TwoWorkers
  Peers <- OnePeer
  Fds <- ThreeFds
  WakeFd = fw
  MaxConn = 4
INVARIANTS
  NoUseAfterFree
  OneCloser
  ListedConnsOwnTheirFd
  WritesAreExclusive
  OpenFdsAreManaged
  NoEventLost
  OneReaderPerSocket
  StateAsserts
CHECK_DEADLOCK FALSE
