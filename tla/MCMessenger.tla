----------------------------- MODULE MCMessenger -----------------------------
(* Small instances of Messenger for TLC. *)
EXTENDS Messenger

CONSTANTS c1,           \* an application thread
          a1,           \* a thread in accept
          k1, k2,       \* epoll workers
          p1,           \* a peer
          fw, f1, f2    \* descriptor numbers, fw the wake pipe

NoThreads    == {}
OneCaller    == {c1}
OneAcceptor  == {a1}
OneWorker    == {k1}
TwoWorkers   == {k1, k2}
OnePeer      == {p1}
TwoFds       == {fw, f1}
ThreeFds     == {fw, f1, f2}
=============================================================================
