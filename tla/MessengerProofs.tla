-------------------------- MODULE MessengerProofs --------------------------
(***************************************************************************)
(* The safety of the messenger for every number of threads, peers,         *)
(* descriptors and connections: type correctness, the life of connections, *)
(* the life of descriptors, the order of stopping, and what becomes of the *)
(* events of the one-shot registrations.                                   *)
(*                                                                         *)
(* IInv says what each thread may rely on at the points where it holds a   *)
(* connection.  Most steps are quiet: they move one thread to a point      *)
(* where it relies on nothing, or only on what the list says; QuietStep    *)
(* does all of these at once, and the other steps are done one by one.     *)
(***************************************************************************)
EXTENDS Messenger, TLAPS

----------------------------------------------------------------------------
(***************************************************************************)
(* The inductive invariant.                                                *)
(***************************************************************************)

\* TypeOK alone is not inductive: a thread that lists a connection, or skips
\* one, must have one.
Aimed == \A t \in Threads : pc[t] \in {"insert", "insert_wait", "read"} => target[t] \in Conns

TypeInv == TypeOK /\ Aimed

\* An allocated connection whose open socket its descriptor is.
Owned(c) == c \in Conns /\ mem[c] = "live" /\ conn_fd[c] \in Fds /\ fd_owner[conn_fd[c]] = c

\* Ids above next_conn_id have never been seen by anybody.
IdsGiven == /\ \A t \in Threads : target[t] <= next_conn_id
            /\ \A c \in conn_list : c <= next_conn_id
            /\ \A f \in Fds : fd_owner[f] <= next_conn_id

\* A connection has one open descriptor at most.
FdsKnown == \A f \in Fds : fd_owner[f] \in Conns => conn_fd[fd_owner[f]] = f

Listed == \A c \in conn_list : Owned(c)

\* Until it is listed, a new connection is known to the thread that made it.
Adding == \A t \in Threads : pc[t] \in {"insert", "insert_wait"} =>
            /\ Owned(target[t])
            /\ target[t] \notin conn_list
            /\ \A u \in Threads : u # t => target[u] # target[t]

\* The list lock, held for reading, keeps the connection on the list.
Locking == \A t \in Threads : pc[t] = "lock" => target[t] \in conn_list

\* conn->lock keeps the connection out of the hands of the thread closing it.
Writing == \A t \in Threads : pc[t] = "write" =>
             /\ Owned(target[t])
             /\ lock[target[t]] = t
             /\ \A u \in Threads : pc[u] = "free" => target[u] # target[t]

\* A connection off the list belongs to the one thread that took it off.
Closing == \A t \in Threads : pc[t] \in {"close", "free"} =>
             /\ target[t] \in Conns
             /\ mem[target[t]] = "live"
             /\ target[t] \notin conn_list
             /\ pc[t] = "close" => Owned(target[t])
             /\ \A u \in Threads : u # t /\ pc[u] \in {"close", "free"} => target[u] # target[t]

IInv == /\ TypeInv
        /\ IdsGiven /\ FdsKnown /\ Listed
        /\ Adding /\ Locking /\ Writing /\ Closing
        /\ OpenFdsAreManaged

----------------------------------------------------------------------------
(***************************************************************************)
(* Types.                                                                  *)
(***************************************************************************)

\* The constants of the module have the types they are used with.
LEMMA ConstFacts ==
  /\ WakeConn = 2 /\ NoConn = 0 /\ FdFree = 0 /\ FdLeaked = 1
  /\ WakeConn \in Conns /\ Conns \subseteq Nat
  /\ \A c \in Conns : c >= 2 /\ c <= MaxConn
  /\ WakeFd \in Fds /\ NoThread \notin Threads
  BY MaxConnBound, WakeFdIsFd, NoThreadIsNone DEF Conns, WakeConn, NoConn, FdFree, FdLeaked

\* cceph_messenger_start leaves every variable with its type.
LEMMA TypeInit == Init => TypeInv
<1> SUFFICES ASSUME Init PROVE TypeInv
  OBVIOUS
<1>1. /\ pc \in [Threads -> PCs]
      /\ target \in [Threads -> Conns \cup {NoConn}]
      /\ thread_fd \in [Threads -> Fds \cup {NoFd}]
      /\ thread_peer \in [Threads -> Peers \cup {NoPeer}]
  BY DEF Init, PCs, CallerPCs, WorkerPCs
<1>2. /\ mem \in [Conns -> {"none", "live", "freed"}]
      /\ conn_fd \in [Conns -> Fds \cup {NoFd}]
      /\ conn_peer \in [Conns -> Peers \cup {NoPeer}]
      /\ conn_closed \in [Conns -> BOOLEAN]
      /\ lock \in [Conns -> Threads \cup {NoThread}]
  BY ConstFacts DEF Init
<1>3. /\ fd_owner \in [Fds -> Conns \cup {FdFree, FdLeaked}]
      /\ epoll \in [Fds -> {"none", "armed", "disarmed"}]
  BY ConstFacts DEF Init
<1> QED
  BY <1>1, <1>2, <1>3, ConstFacts DEF Init, TypeOK, TypeInv, Aimed

\* Every step of add_conn, get_conn, send_msg and close_conn keeps the types.
LEMMA TypeCalls ==
  ASSUME TypeInv, NEW t \in Threads,
         AddStep(t) \/ SendStep(t) \/ CloseStep(t)
           \/ \E p \in Peers : GetConnFound(t, p) \/ GetConnMissing(t, p) \/ Accept(t, p)
  PROVE  TypeInv'
<1> USE DEF TypeInv, Aimed, TypeOK, GoTo, Finish, PCs, CallerPCs, AddPCs, SendPCs, ClosePCs, WorkerPCs,
            thread_vars, conn_vars, stop_vars
<1>1. ASSUME NEW p \in Peers, GetConnFound(t, p) PROVE TypeInv'
  BY <1>1 DEF GetConnFound
<1>2. ASSUME NEW p \in Peers, GetConnMissing(t, p) PROVE TypeInv'
  BY <1>2 DEF GetConnMissing
<1>3. ASSUME NEW p \in Peers \cup {NoPeer}, NEW f \in Fds, NewConn(t, p, f) PROVE TypeInv'
  <2>1. next_conn_id + 1 \in Conns
    BY <1>3, ConstFacts, MaxConnBound DEF NewConn, Conns
  <2> QED
    BY <1>3, <2>1 DEF NewConn
<1>4. CASE ConnectFails(t)
  BY <1>4 DEF ConnectFails
<1>5. CASE Connect(t)
  BY <1>3, <1>5 DEF Connect
<1>6. ASSUME NEW p \in Peers, Accept(t, p) PROVE TypeInv'
  BY <1>3, <1>6 DEF Accept
<1>7. CASE WaitToWrite(t)
  BY <1>7 DEF WaitToWrite
<1>8. CASE InsertConn(t)
  <2>1. target[t] \in Conns
    BY <1>8 DEF InsertConn
  <2>2. conn_list' \subseteq Conns
    BY <1>8, <2>1 DEF InsertConn
  <2> QED
    BY <1>8, <2>2 DEF InsertConn
<1>9. CASE EpollAdd(t)
  <2>1. epoll' \in [Fds -> {"none", "armed", "disarmed"}]
    BY <1>9 DEF EpollAdd
  <2>2. stray' \subseteq Conns
    BY <1>9 DEF EpollAdd
  <2> QED
    BY <1>9, <2>1, <2>2 DEF EpollAdd
<1>10. CASE AddReturn(t)
  BY <1>10 DEF AddReturn
<1>11. CASE SendNotFound(t)
  BY <1>11 DEF SendNotFound
<1>12. CASE SendFind(t)
  BY <1>12 DEF SendFind
<1>13. CASE SendLock(t)
  BY <1>13 DEF SendLock
<1>14. CASE SendSeesClosed(t)
  BY <1>14 DEF SendSeesClosed
<1>15. CASE SendOk(t)
  BY <1>15 DEF SendOk
<1>16. CASE SendFails(t)
  BY <1>16 DEF SendFails
<1>17. CASE CloseNotFound(t)
  BY <1>17 DEF CloseNotFound
<1>18. CASE Unlink(t)
  BY <1>18 DEF Unlink
<1>19. CASE CloseFd(t)
  BY <1>19 DEF CloseFd
<1>20. CASE FreeConn(t)
  BY <1>20 DEF FreeConn
<1> QED
  BY <1>1, <1>2, <1>4, <1>5, <1>6, <1>7, <1>8, <1>9, <1>10, <1>11, <1>12, <1>13, <1>14,
     <1>15, <1>16, <1>17, <1>18, <1>19, <1>20 DEF AddStep, SendStep, SendBegins, CloseStep

\* So does every step of a worker's loop.
LEMMA TypeWork ==
  ASSUME TypeInv, NEW w \in Threads, WorkStep(w) \/ \E f \in Fds : EpollWait(w, f)
  PROVE  TypeInv'
<1> USE DEF TypeInv, Aimed, TypeOK, GoTo, Finish, PCs, CallerPCs, AddPCs, SendPCs, ClosePCs, WorkerPCs,
            thread_vars, conn_vars, stop_vars
<1>1. ASSUME NEW f \in Fds, EpollWait(w, f) PROVE TypeInv'
  BY <1>1 DEF EpollWait
<1>2. CASE LookupEvent(w)
  BY <1>2 DEF LookupEvent
<1>3. CASE LookupMissing(w)
  BY <1>3 DEF LookupMissing
<1>4. CASE ReadWake(w)
  <2>1. epoll' \in [Fds -> {"none", "armed", "disarmed"}]
    BY <1>4 DEF ReadWake, Rearmed
  <2>2. stops' \in Nat
    BY <1>4 DEF ReadWake
  <2> QED
    BY <1>4, <2>1, <2>2 DEF ReadWake
<1>5. CASE ReadMsg(w)
  BY <1>5 DEF ReadMsg
<1>6. CASE ReadClosed(w)
  BY <1>6 DEF ReadClosed
<1>7. CASE ReadUnknownOp(w)
  <2>1. skipped' \subseteq Conns
    BY <1>7 DEF ReadUnknownOp
  <2> QED
    BY <1>7, <2>1 DEF ReadUnknownOp
<1>8. CASE WaitForNextMsg(w)
  BY <1>8 DEF WaitForNextMsg, Rearmed
<1>9. CASE ProcessAndReply(w)
  BY <1>9 DEF ProcessAndReply
<1>10. CASE ProcessOnly(w)
  BY <1>10 DEF ProcessOnly
<1>11. CASE ReadNotImpl(w)
  BY <1>11 DEF ReadNotImpl
<1> QED
  BY <1>1, <1>2, <1>3, <1>4, <1>5, <1>6, <1>7, <1>8, <1>9, <1>10, <1>11 DEF WorkStep, HandleStep, ReadStep

\* And so do stop and a stuttering step.
LEMMA TypeNext == TypeInv /\ [Next]_vars => TypeInv'
<1> SUFFICES ASSUME TypeInv, [Next]_vars PROVE TypeInv'
  OBVIOUS
<1>1. CASE \E t \in Threads : AddStep(t) \/ SendStep(t) \/ CloseStep(t)
             \/ \E p \in Peers : GetConnFound(t, p) \/ GetConnMissing(t, p) \/ Accept(t, p)
  BY <1>1, TypeCalls
<1>2. CASE \E w \in Threads : WorkStep(w) \/ \E f \in Fds : EpollWait(w, f)
  BY <1>2, TypeWork
<1>3. CASE StopWrite
  BY <1>3 DEF TypeInv, Aimed, TypeOK, StopWrite, thread_vars, conn_vars
<1>4. CASE StopJoin
  BY <1>4 DEF TypeInv, Aimed, TypeOK, StopJoin, thread_vars, conn_vars
<1>5. CASE UNCHANGED vars
  BY <1>5 DEF TypeInv, Aimed, TypeOK, vars, thread_vars, conn_vars, stop_vars
<1>6. Workers \subseteq Threads
  BY DEF Threads
<1> QED
  BY <1>1, <1>2, <1>3, <1>4, <1>5, <1>6 DEF Next, ThreadStep

\* Every variable of the messenger keeps its type.
THEOREM TypeCorrect == Spec => []TypeOK
<1>1. TypeInv => TypeOK
  BY DEF TypeInv
<1> QED
  BY <1>1, TypeInit, TypeNext, PTL DEF Spec

----------------------------------------------------------------------------
(***************************************************************************)
(* Connections and descriptors.                                            *)
(***************************************************************************)

\* The wake pipe is owned and listed, and nobody holds anything.
LEMMA IInvInit == Init => IInv
<1> SUFFICES ASSUME Init PROVE IInv
  OBVIOUS
<1>1. TypeInv
  BY TypeInit
<1>2. \A t \in Threads : pc[t] \in {"idle", "epoll"} /\ target[t] = NoConn
  BY DEF Init
<1>3. \A f \in Fds : fd_owner[f] <= next_conn_id
  BY ConstFacts DEF Init
<1>4. IdsGiven
  BY <1>2, <1>3, ConstFacts DEF Init, IdsGiven
<1>5. FdsKnown /\ Listed /\ OpenFdsAreManaged
  BY ConstFacts DEF Init, FdsKnown, Listed, Owned, OpenFdsAreManaged
<1> QED
  BY <1>1, <1>2, <1>4, <1>5 DEF IInv, Adding, Locking, Writing, Closing

\* Points where a thread relies on a connection that it holds.
HoldingPCs == {"insert", "insert_wait", "lock", "write", "close", "free"}

\* Only t moves.
Moves(t) == \A u \in Threads : u # t => pc'[u] = pc[u] /\ target'[u] = target[u]

\* t moves to a point where it relies on nothing, having perhaps looked a
\* connection up, given up a lock of its own, or lost a descriptor number
\* that was nobody's.
Quiet(t) ==
  /\ Moves(t)
  /\ pc[t] \notin {"insert", "insert_wait", "close"}
  /\ pc'[t] \notin HoldingPCs
  /\ target'[t] \in conn_list \cup {NoConn, target[t]}
  /\ UNCHANGED <<next_conn_id, conn_list, mem, conn_fd>>
  /\ \A u \in Threads : u # t /\ pc[u] = "write" => lock'[target[u]] = lock[target[u]]
  /\ \A f \in Fds : fd_owner'[f] = fd_owner[f] \/ (fd_owner[f] = FdFree /\ fd_owner'[f] = FdLeaked)

\* A quiet step disturbs nobody.
LEMMA QuietStep ==
  ASSUME IInv, TypeInv', NEW t \in Threads, Quiet(t)
  PROVE  IInv'
<1> USE DEF IInv
<1>1. \A u \in Threads : pc'[u] \in HoldingPCs => u # t /\ pc'[u] = pc[u] /\ target'[u] = target[u]
  BY DEF Quiet, Moves
<1>2. \A c \in Conns : Owned(c) => Owned(c)'
  BY ConstFacts DEF Quiet, Owned
<1>3. \A f \in Fds : fd_owner'[f] \in Conns => fd_owner'[f] = fd_owner[f]
  BY ConstFacts DEF Quiet
<1>4. IdsGiven'
  <2>1. next_conn_id' = next_conn_id /\ next_conn_id \in Conns /\ next_conn_id \in Nat /\ next_conn_id >= 2
    BY ConstFacts DEF Quiet, TypeInv, TypeOK
  <2>2. \A u \in Threads : target'[u] <= next_conn_id
    BY <2>1, ConstFacts DEF Quiet, Moves, IdsGiven
  <2>3. \A f \in Fds : fd_owner'[f] <= next_conn_id
    BY <2>1, ConstFacts DEF Quiet, IdsGiven
  <2> QED
    BY <2>1, <2>2, <2>3 DEF Quiet, IdsGiven
<1>5. FdsKnown'
  BY <1>3 DEF Quiet, FdsKnown
<1>6. Listed'
  BY <1>2 DEF Quiet, Listed, TypeInv, TypeOK
<1>7. Adding'
  <2> SUFFICES ASSUME NEW u \in Threads, pc'[u] \in {"insert", "insert_wait"}
               PROVE  /\ Owned(target[u])' /\ target'[u] \notin conn_list'
                      /\ \A v \in Threads : v # u => target'[v] # target'[u]
    BY DEF Adding
  <2>1. u # t /\ pc[u] = pc'[u] /\ target'[u] = target[u] /\ conn_list' = conn_list
    BY <1>1 DEF HoldingPCs, Quiet
  <2>2. Owned(target[u]) /\ target[u] \notin conn_list /\ \A v \in Threads : v # u => target[v] # target[u]
    BY <2>1 DEF Adding
  <2>3. target[u] \in Conns /\ Owned(target[u])'
    BY <1>2, <2>1, <2>2 DEF Owned
  <2>4. ASSUME NEW v \in Threads, v # u PROVE target'[v] # target[u]
    BY <2>1, <2>2, <2>3, <2>4, ConstFacts DEF Quiet, Moves
  <2> QED
    BY <2>1, <2>2, <2>3, <2>4
<1>8. Locking'
  BY <1>1 DEF HoldingPCs, Quiet, Locking
<1>9. Writing'
  <2> SUFFICES ASSUME NEW u \in Threads, pc'[u] = "write"
               PROVE  /\ Owned(target[u])' /\ lock'[target'[u]] = u
                      /\ \A v \in Threads : pc'[v] = "free" => target'[v] # target'[u]
    BY DEF Writing
  <2>1. u # t /\ pc[u] = "write" /\ target'[u] = target[u]
    BY <1>1 DEF HoldingPCs
  <2>2. Owned(target[u]) /\ lock[target[u]] = u /\ \A v \in Threads : pc[v] = "free" => target[v] # target[u]
    BY <2>1 DEF Writing
  <2>3. Owned(target[u])'
    BY <1>2, <2>1, <2>2 DEF Owned
  <2>4. lock'[target'[u]] = u
    BY <2>1, <2>2 DEF Quiet
  <2>5. ASSUME NEW v \in Threads, pc'[v] = "free" PROVE target'[v] # target'[u]
    BY <1>1, <2>1, <2>2, <2>5 DEF HoldingPCs
  <2> QED
    BY <2>3, <2>4, <2>5
<1>10. Closing'
  <2> SUFFICES ASSUME NEW u \in Threads, pc'[u] \in {"close", "free"}
               PROVE  /\ target'[u] \in Conns /\ mem'[target'[u]] = "live" /\ target'[u] \notin conn_list'
                      /\ pc'[u] = "close" => Owned(target[u])'
                      /\ \A v \in Threads : v # u /\ pc'[v] \in {"close", "free"} => target'[v] # target'[u]
    BY DEF Closing
  <2>1. u # t /\ pc[u] = pc'[u] /\ target'[u] = target[u] /\ conn_list' = conn_list /\ mem' = mem
    BY <1>1 DEF HoldingPCs, Quiet
  <2>2. /\ target[u] \in Conns /\ mem[target[u]] = "live" /\ target[u] \notin conn_list
        /\ pc[u] = "close" => Owned(target[u])
        /\ \A v \in Threads : v # u /\ pc[v] \in {"close", "free"} => target[v] # target[u]
    BY <2>1 DEF Closing
  <2>3. pc'[u] = "close" => Owned(target[u])'
    BY <1>2, <2>1, <2>2
  <2>4. ASSUME NEW v \in Threads, v # u, pc'[v] \in {"close", "free"} PROVE target'[v] # target'[u]
    BY <1>1, <2>1, <2>2, <2>4 DEF HoldingPCs
  <2> QED
    BY <2>1, <2>2, <2>3, <2>4
<1>11. OpenFdsAreManaged'
  <2> SUFFICES ASSUME NEW f \in Fds, fd_owner'[f] \in Conns, fd_owner'[f] \notin conn_list'
               PROVE  \E u \in Threads : pc'[u] \in {"insert", "insert_wait", "close"} /\ target'[u] = fd_owner'[f]
    BY DEF OpenFdsAreManaged
  <2>1. fd_owner[f] \in Conns /\ fd_owner[f] = fd_owner'[f] /\ conn_list' = conn_list
    BY <1>3 DEF Quiet
  <2>2. PICK u \in Threads : pc[u] \in {"insert", "insert_wait", "close"} /\ target[u] = fd_owner[f]
    BY <2>1 DEF OpenFdsAreManaged
  <2> QED
    BY <2>1, <2>2 DEF Quiet, Moves
<1> QED
  BY <1>4, <1>5, <1>6, <1>7, <1>8, <1>9, <1>10, <1>11

\* Most steps of get_conn, add_conn, send_msg and close_conn are quiet.
LEMMA QuietCalls ==
  ASSUME IInv, NEW t \in Threads,
         \/ \E p \in Peers : GetConnFound(t, p) \/ GetConnMissing(t, p)
         \/ ConnectFails(t) \/ EpollAdd(t) \/ AddReturn(t)
         \/ WaitToWrite(t) /\ pc[t] = "unlink"
         \/ SendNotFound(t) \/ SendSeesClosed(t) \/ SendOk(t) \/ SendFails(t) \/ CloseNotFound(t)
  PROVE  Quiet(t)
<1> USE DEF Quiet, Moves, GoTo, HoldingPCs, conn_vars
<1>0. pc \in [Threads -> PCs] /\ target \in [Threads -> Conns \cup {NoConn}] /\ fd_owner \in [Fds -> Conns \cup {FdFree, FdLeaked}]
  BY DEF IInv, TypeInv, TypeOK
<1>1. ASSUME Finish(t) PROVE Moves(t) /\ pc'[t] \notin HoldingPCs /\ target'[t] = NoConn
  BY <1>0, <1>1 DEF Finish
<1>2. ASSUME NEW p \in Peers, GetConnFound(t, p) PROVE Quiet(t)
  BY <1>0, <1>2 DEF GetConnFound
<1>3. ASSUME NEW p \in Peers, GetConnMissing(t, p) PROVE Quiet(t)
  BY <1>0, <1>3 DEF GetConnMissing
<1>4. CASE ConnectFails(t)
  <2>1. \A f \in Fds : fd_owner'[f] = fd_owner[f] \/ (fd_owner[f] = FdFree /\ fd_owner'[f] = FdLeaked)
    BY <1>0, <1>4 DEF ConnectFails
  <2> QED
    BY <1>1, <1>4, <2>1 DEF ConnectFails
<1>5. CASE EpollAdd(t)
  BY <1>0, <1>5 DEF EpollAdd
<1>6. CASE AddReturn(t)
  <2>1. CASE t \in Callers
    BY <1>0, <1>6, <2>1 DEF AddReturn
  <2>2. CASE t \notin Callers
    BY <1>1, <1>6, <2>2 DEF AddReturn
  <2> QED
    BY <2>1, <2>2
<1>7. CASE WaitToWrite(t) /\ pc[t] = "unlink"
  BY <1>0, <1>7 DEF WaitToWrite
<1>8. CASE SendNotFound(t)
  BY <1>1, <1>8 DEF SendNotFound
<1>9. CASE SendSeesClosed(t)
  BY <1>1, <1>9 DEF SendSeesClosed
<1>10. ASSUME pc[t] = "write", lock' = [lock EXCEPT ![target[t]] = NoThread], NEW u \in Threads, u # t, pc[u] = "write"
       PROVE  lock'[target[u]] = lock[target[u]]
  <2>1. lock[target[u]] = u /\ lock[target[t]] = t
    BY <1>10 DEF IInv, Writing
  <2>2. target[u] # target[t]
    BY <1>10, <2>1
  <2>3. target[u] \in Conns
    BY <1>10 DEF IInv, Writing, Owned
  <2> QED
    BY <1>10, <2>2, <2>3 DEF IInv, TypeInv, TypeOK
<1>11. CASE SendOk(t)
  BY <1>1, <1>10, <1>11 DEF SendOk
<1>12. CASE SendFails(t)
  BY <1>0, <1>10, <1>12 DEF SendFails
<1>13. CASE CloseNotFound(t)
  BY <1>1, <1>13 DEF CloseNotFound
<1> QED
  BY <1>2, <1>3, <1>4, <1>5, <1>6, <1>7, <1>8, <1>9, <1>11, <1>12, <1>13

\* All steps of a worker's loop are.
LEMMA QuietWork ==
  ASSUME IInv, NEW w \in Threads, WorkStep(w) \/ \E f \in Fds : EpollWait(w, f)
  PROVE  Quiet(w)
<1> USE DEF Quiet, Moves, GoTo, HoldingPCs, conn_vars
<1>0. pc \in [Threads -> PCs] /\ target \in [Threads -> Conns \cup {NoConn}]
  BY DEF IInv, TypeInv, TypeOK
<1>1. ASSUME Finish(w) PROVE Moves(w) /\ pc'[w] \notin HoldingPCs /\ target'[w] = NoConn
  BY <1>0, <1>1 DEF Finish
<1>2. ASSUME NEW f \in Fds, EpollWait(w, f) PROVE Quiet(w)
  BY <1>0, <1>2 DEF EpollWait
<1>3. CASE LookupEvent(w)
  BY <1>0, <1>3 DEF LookupEvent
<1>4. CASE LookupMissing(w)
  BY <1>1, <1>4 DEF LookupMissing
<1>5. CASE ReadWake(w)
  BY <1>0, <1>5 DEF ReadWake
<1>6. CASE ReadMsg(w)
  BY <1>0, <1>6 DEF ReadMsg
<1>7. CASE ReadClosed(w)
  BY <1>0, <1>7 DEF ReadClosed
<1>8. CASE ReadUnknownOp(w)
  BY <1>1, <1>8 DEF ReadUnknownOp
<1>9. CASE WaitForNextMsg(w)
  BY <1>0, <1>9 DEF WaitForNextMsg
<1>10. CASE ProcessAndReply(w)
  BY <1>0, <1>10 DEF ProcessAndReply
<1>11. CASE ProcessOnly(w)
  BY <1>1, <1>11 DEF ProcessOnly
<1>12. CASE ReadNotImpl(w)
  BY <1>0, <1>12 DEF ReadNotImpl
<1> QED
  BY <1>2, <1>3, <1>4, <1>5, <1>6, <1>7, <1>8, <1>9, <1>10, <1>11, <1>12 DEF WorkStep, HandleStep, ReadStep

\* A step that keeps connections, descriptors and locks, and moves only t.
Walks(t) == /\ UNCHANGED <<target, next_conn_id, conn_list, mem, conn_fd, lock, fd_owner>>
            /\ \A u \in Threads : u # t => pc'[u] = pc[u]

\* add_conn asks for the list lock: the connection is still its own.
LEMMA WaitToInsertStep ==
  ASSUME IInv, TypeInv', NEW t \in Threads, WaitToWrite(t), pc[t] = "insert"
  PROVE  IInv'
<1>1. Walks(t) /\ pc'[t] = "insert_wait"
  BY DEF WaitToWrite, GoTo, Walks, conn_vars, IInv, TypeInv, TypeOK
<1>2. IdsGiven' /\ FdsKnown' /\ Listed'
  BY <1>1 DEF IInv, IdsGiven, FdsKnown, Listed, Owned, Walks
<1>3. Adding'
  BY <1>1 DEF IInv, Adding, Owned, Walks
<1>4. Locking' /\ Writing' /\ Closing'
  BY <1>1 DEF IInv, Locking, Writing, Closing, Owned, Walks
<1>5. OpenFdsAreManaged'
  BY <1>1 DEF IInv, OpenFdsAreManaged, Walks
<1> QED
  BY <1>2, <1>3, <1>4, <1>5 DEF IInv

\* send_msg finds the connection: it is listed, and stays so.
LEMMA SendFindStep ==
  ASSUME IInv, TypeInv', NEW t \in Threads, SendFind(t)
  PROVE  IInv'
<1>1. Walks(t) /\ pc'[t] = "lock" /\ pc[t] = "find" /\ target[t] \in conn_list
  BY DEF SendFind, GoTo, Walks, conn_vars, IInv, TypeInv, TypeOK
<1>2. IdsGiven' /\ FdsKnown' /\ Listed'
  BY <1>1 DEF IInv, IdsGiven, FdsKnown, Listed, Owned, Walks
<1>3. Adding' /\ Locking' /\ Writing' /\ Closing'
  BY <1>1 DEF IInv, Adding, Locking, Writing, Closing, Owned, Walks
<1>4. OpenFdsAreManaged'
  BY <1>1 DEF IInv, OpenFdsAreManaged, Walks
<1> QED
  BY <1>2, <1>3, <1>4 DEF IInv

\* send_msg gets conn->lock: the connection is listed, so no thread is about to
\* free it, and nobody else writes to it.
LEMMA SendLockStep ==
  ASSUME IInv, TypeInv', NEW t \in Threads, SendLock(t)
  PROVE  IInv'
<1>1. /\ pc[t] = "lock" /\ pc'[t] = "write" /\ target[t] \in conn_list /\ lock[target[t]] = NoThread
      /\ \A u \in Threads : u # t => pc'[u] = pc[u]
      /\ UNCHANGED <<target, next_conn_id, conn_list, mem, conn_fd, fd_owner>>
  BY DEF SendLock, GoTo, conn_vars, IInv, TypeInv, TypeOK, Locking
<1>2. Owned(target[t]) /\ target[t] \in Conns
  BY <1>1 DEF IInv, Listed, Owned
<1>3. lock'[target[t]] = t /\ \A c \in Conns : c # target[t] => lock'[c] = lock[c]
  BY <1>2 DEF SendLock, IInv, TypeInv, TypeOK
<1>4. IdsGiven' /\ FdsKnown' /\ Listed'
  BY <1>1 DEF IInv, IdsGiven, FdsKnown, Listed, Owned
<1>5. Adding' /\ Locking' /\ Closing'
  BY <1>1 DEF IInv, Adding, Locking, Closing, Owned
<1>6. Writing'
  <2> SUFFICES ASSUME NEW u \in Threads, pc'[u] = "write"
               PROVE  /\ Owned(target[u])' /\ lock'[target[u]] = u
                      /\ \A v \in Threads : pc'[v] = "free" => target[v] # target[u]
    BY <1>1 DEF Writing
  <2>1. CASE u = t
    BY <1>1, <1>2, <1>3, <2>1 DEF IInv, Closing, Owned
  <2>2. CASE u # t
    <3>1. pc[u] = "write" /\ Owned(target[u]) /\ lock[target[u]] = u
          /\ \A v \in Threads : pc[v] = "free" => target[v] # target[u]
      BY <1>1, <2>2 DEF IInv, Writing
    <3>2. target[u] # target[t] /\ target[u] \in Conns
      BY <1>1, <3>1, ConstFacts DEF Owned
    <3> QED
      BY <1>1, <1>3, <3>1, <3>2 DEF Owned
  <2> QED
    BY <2>1, <2>2
<1>7. OpenFdsAreManaged'
  BY <1>1 DEF IInv, OpenFdsAreManaged
<1> QED
  BY <1>4, <1>5, <1>6, <1>7 DEF IInv

\* add_conn lists the connection that only it knows.
LEMMA InsertStep ==
  ASSUME IInv, TypeInv', NEW t \in Threads, InsertConn(t)
  PROVE  IInv'
<1>1. /\ pc[t] = "insert_wait" /\ pc'[t] = "epoll_add"
      /\ conn_list' = conn_list \cup {target[t]}
      /\ \A u \in Threads : u # t => pc'[u] = pc[u]
      /\ UNCHANGED <<target, next_conn_id, mem, conn_fd, lock, fd_owner>>
  BY DEF InsertConn, GoTo, conn_vars, IInv, TypeInv, TypeOK
<1>2. Owned(target[t]) /\ \A u \in Threads : u # t => target[u] # target[t]
  BY <1>1 DEF IInv, Adding
<1>3. IdsGiven' /\ FdsKnown' /\ Listed'
  BY <1>1, <1>2 DEF IInv, IdsGiven, FdsKnown, Listed, Owned
<1>4. Adding'
  BY <1>1, <1>2 DEF IInv, Adding, Owned
<1>5. Locking' /\ Writing'
  BY <1>1 DEF IInv, Locking, Writing, Owned
<1>6. Closing'
  BY <1>1, <1>2 DEF IInv, Closing, Owned
<1>7. OpenFdsAreManaged'
  BY <1>1 DEF IInv, OpenFdsAreManaged
<1> QED
  BY <1>3, <1>4, <1>5, <1>6, <1>7 DEF IInv

\* close_conn takes the connection off the list: nobody reads the list, so no
\* sender is between finding it and its lock, and it was not off before.
LEMMA UnlinkStep ==
  ASSUME IInv, TypeInv', NEW t \in Threads, Unlink(t)
  PROVE  IInv'
<1>1. /\ pc[t] = "unlink_wait" /\ pc'[t] = "close" /\ target[t] \in conn_list
      /\ conn_list' = conn_list \ {target[t]}
      /\ \A u \in Threads : u # t => pc'[u] = pc[u]
      /\ \A u \in Threads : pc[u] # "lock"
      /\ UNCHANGED <<target, next_conn_id, mem, conn_fd, lock, fd_owner>>
  BY DEF Unlink, CanWrite, ListReaders, GoTo, conn_vars, IInv, TypeInv, TypeOK
<1>2. Owned(target[t]) /\ \A u \in Threads : pc[u] \in {"close", "free"} => target[u] # target[t]
  BY <1>1 DEF IInv, Listed, Closing
<1>3. IdsGiven' /\ FdsKnown' /\ Listed'
  BY <1>1 DEF IInv, IdsGiven, FdsKnown, Listed, Owned
<1>4. Adding'
  BY <1>1 DEF IInv, Adding, Owned
<1>5. Locking' /\ Writing'
  BY <1>1 DEF IInv, Locking, Writing, Owned
<1>6. Closing'
  BY <1>1, <1>2 DEF IInv, Closing, Owned
<1>7. OpenFdsAreManaged'
  <2> SUFFICES ASSUME NEW f \in Fds, fd_owner[f] \in Conns, fd_owner[f] \notin conn_list'
               PROVE  \E u \in Threads : pc'[u] \in {"insert", "insert_wait", "close"} /\ target[u] = fd_owner[f]
    BY <1>1 DEF OpenFdsAreManaged
  <2>1. CASE fd_owner[f] = target[t]
    BY <1>1, <2>1
  <2>2. CASE fd_owner[f] # target[t]
    BY <1>1, <2>2 DEF IInv, OpenFdsAreManaged
  <2> QED
    BY <2>1, <2>2
<1> QED
  BY <1>3, <1>4, <1>5, <1>6, <1>7 DEF IInv

\* close_conn closes the descriptor under conn->lock, which no writer holds.
LEMMA CloseFdStep ==
  ASSUME IInv, TypeInv', NEW t \in Threads, CloseFd(t)
  PROVE  IInv'
<1> DEFINE c == target[t]
<1>1. /\ pc[t] = "close" /\ pc'[t] = "free" /\ lock[c] = NoThread
      /\ \A u \in Threads : u # t => pc'[u] = pc[u]
      /\ UNCHANGED <<target, next_conn_id, conn_list, mem, conn_fd, lock>>
  BY DEF CloseFd, GoTo, conn_vars, IInv, TypeInv, TypeOK
<1>2. /\ Owned(c) /\ c \notin conn_list
      /\ \A u \in Threads : u # t /\ pc[u] \in {"close", "free"} => target[u] # c
  BY <1>1 DEF IInv, Closing
<1>3. /\ fd_owner'[conn_fd[c]] = FdFree
      /\ \A f \in Fds : f # conn_fd[c] => fd_owner'[f] = fd_owner[f]
  BY <1>2 DEF CloseFd, Owned, IInv, TypeInv, TypeOK
<1>4. \A d : d # c /\ Owned(d) => Owned(d)'
  BY <1>1, <1>2, <1>3 DEF Owned
<1>5. \A u \in Threads : pc[u] = "write" => target[u] # c
  BY <1>1, ConstFacts DEF IInv, Writing
<1>6. IdsGiven'
  <2>1. \A f \in Fds : fd_owner'[f] <= next_conn_id
    BY <1>3, ConstFacts DEF IInv, IdsGiven, TypeInv, TypeOK
  <2> QED
    BY <1>1, <2>1 DEF IInv, IdsGiven
<1>7. FdsKnown'
  BY <1>1, <1>3, ConstFacts DEF IInv, FdsKnown
<1>8. Listed'
  BY <1>1, <1>2, <1>4 DEF IInv, Listed
<1>9. Adding'
  <2> SUFFICES ASSUME NEW u \in Threads, pc'[u] \in {"insert", "insert_wait"}
               PROVE  /\ Owned(target[u])' /\ target[u] \notin conn_list
                      /\ \A v \in Threads : v # u => target[v] # target[u]
    BY <1>1 DEF Adding
  <2>1. u # t /\ pc[u] = pc'[u]
    BY <1>1
  <2>2. Owned(target[u]) /\ target[u] \notin conn_list /\ \A v \in Threads : v # u => target[v] # target[u]
    BY <2>1 DEF IInv, Adding
  <2>3. target[u] # c /\ UNCHANGED target
    BY <1>1, <2>1, <2>2
  <2>4. Owned(target[u])'
    BY <1>1, <1>3, <1>2, <2>2, <2>3 DEF Owned
  <2> QED
    BY <2>2, <2>4
<1>10. Locking'
  BY <1>1 DEF IInv, Locking
<1>11. Writing'
  <2> SUFFICES ASSUME NEW u \in Threads, pc'[u] = "write"
               PROVE  /\ Owned(target[u])' /\ lock[target[u]] = u
                      /\ \A v \in Threads : pc'[v] = "free" => target[v] # target[u]
    BY <1>1 DEF Writing
  <2>1. pc[u] = "write" /\ target[u] # c /\ Owned(target[u]) /\ lock[target[u]] = u
        /\ \A v \in Threads : pc[v] = "free" => target[v] # target[u]
    BY <1>1, <1>5 DEF IInv, Writing
  <2>2. Owned(target[u])'
    BY <1>1, <1>3, <1>2, <2>1 DEF Owned
  <2>3. ASSUME NEW v \in Threads, pc'[v] = "free" PROVE target[v] # target[u]
    BY <1>1, <2>1, <2>3
  <2> QED
    BY <2>1, <2>2, <2>3
<1>12. Closing'
  <2> SUFFICES ASSUME NEW u \in Threads, pc'[u] \in {"close", "free"}
               PROVE  /\ target[u] \in Conns /\ mem[target[u]] = "live" /\ target[u] \notin conn_list
                      /\ pc'[u] = "close" => Owned(target[u])'
                      /\ \A v \in Threads : v # u /\ pc'[v] \in {"close", "free"} => target[v] # target[u]
    BY <1>1 DEF Closing
  <2>1. pc[u] \in {"close", "free"} /\ (pc'[u] = "close" => u # t /\ pc[u] = "close")
    BY <1>1
  <2>2. /\ target[u] \in Conns /\ mem[target[u]] = "live" /\ target[u] \notin conn_list
        /\ pc[u] = "close" => Owned(target[u])
        /\ \A v \in Threads : v # u /\ pc[v] \in {"close", "free"} => target[v] # target[u]
    BY <2>1 DEF IInv, Closing
  <2>3. ASSUME pc'[u] = "close" PROVE Owned(target[u])'
    <3>1. Owned(target[u]) /\ target[u] # c
      BY <1>2, <2>1, <2>2, <2>3
    <3> QED
      BY <1>1, <1>2, <1>3, <3>1 DEF Owned
  <2>4. ASSUME NEW v \in Threads, v # u, pc'[v] \in {"close", "free"} PROVE target[v] # target[u]
    BY <1>1, <2>2, <2>4
  <2> QED
    BY <2>2, <2>3, <2>4
<1>13. OpenFdsAreManaged'
  <2> SUFFICES ASSUME NEW f \in Fds, fd_owner'[f] \in Conns, fd_owner'[f] \notin conn_list
               PROVE  \E u \in Threads : pc'[u] \in {"insert", "insert_wait", "close"} /\ target[u] = fd_owner'[f]
    BY <1>1 DEF OpenFdsAreManaged
  <2>1. f # conn_fd[c] /\ fd_owner[f] = fd_owner'[f]
    BY <1>3, ConstFacts
  <2>2. fd_owner[f] # c
    BY <2>1 DEF IInv, FdsKnown
  <2>3. PICK u \in Threads : pc[u] \in {"insert", "insert_wait", "close"} /\ target[u] = fd_owner[f]
    BY <2>1 DEF IInv, OpenFdsAreManaged
  <2> QED
    BY <1>1, <2>1, <2>2, <2>3
<1> QED
  BY <1>6, <1>7, <1>8, <1>9, <1>10, <1>11, <1>12, <1>13 DEF IInv

\* close_conn frees the connection: nobody else holds it.
LEMMA FreeStep ==
  ASSUME IInv, TypeInv', NEW t \in Threads, FreeConn(t)
  PROVE  IInv'
<1> DEFINE c == target[t]
<1>1. /\ pc[t] = "free" /\ pc'[t] \in {"idle", "epoll"} /\ target'[t] = NoConn
      /\ Moves(t)
      /\ UNCHANGED <<next_conn_id, conn_list, conn_fd, lock, fd_owner>>
  BY DEF FreeConn, Finish, GoTo, Moves, IInv, TypeInv, TypeOK
<1>2. \A d \in Conns : d # c => mem'[d] = mem[d]
  BY DEF FreeConn, IInv, TypeInv, TypeOK
<1>3. c \notin conn_list /\ c \in Conns
  BY <1>1 DEF IInv, Closing
<1>4. IdsGiven'
  BY <1>1, ConstFacts DEF IInv, IdsGiven, Moves, TypeInv, TypeOK
<1>5. FdsKnown'
  BY <1>1 DEF IInv, FdsKnown
<1>6. Listed'
  BY <1>1, <1>2, <1>3 DEF IInv, Listed, Owned
<1>7. Adding'
  <2> SUFFICES ASSUME NEW u \in Threads, pc'[u] \in {"insert", "insert_wait"}
               PROVE  /\ Owned(target[u])' /\ target'[u] \notin conn_list
                      /\ \A v \in Threads : v # u => target'[v] # target'[u]
    BY <1>1 DEF Adding
  <2>1. u # t /\ pc[u] = pc'[u] /\ target'[u] = target[u]
    BY <1>1 DEF Moves
  <2>2. Owned(target[u]) /\ target[u] \notin conn_list /\ \A v \in Threads : v # u => target[v] # target[u]
    BY <2>1 DEF IInv, Adding
  <2>3. Owned(target[u])'
    BY <1>1, <1>2, <2>1, <2>2 DEF Owned
  <2>4. ASSUME NEW v \in Threads, v # u PROVE target'[v] # target'[u]
    BY <1>1, <2>1, <2>2, <2>4, ConstFacts DEF Moves, Owned
  <2> QED
    BY <2>1, <2>2, <2>3, <2>4
<1>8. Locking'
  BY <1>1 DEF IInv, Locking, Moves
<1>9. Writing'
  <2> SUFFICES ASSUME NEW u \in Threads, pc'[u] = "write"
               PROVE  /\ Owned(target[u])' /\ lock[target'[u]] = u
                      /\ \A v \in Threads : pc'[v] = "free" => target'[v] # target'[u]
    BY <1>1 DEF Writing
  <2>1. u # t /\ pc[u] = "write" /\ target'[u] = target[u]
    BY <1>1 DEF Moves
  <2>2. Owned(target[u]) /\ lock[target[u]] = u /\ \A v \in Threads : pc[v] = "free" => target[v] # target[u]
    BY <2>1 DEF IInv, Writing
  <2>3. Owned(target[u])'
    BY <1>1, <1>2, <2>1, <2>2 DEF Owned
  <2>4. ASSUME NEW v \in Threads, pc'[v] = "free" PROVE target'[v] # target'[u]
    BY <1>1, <2>1, <2>2, <2>4 DEF Moves
  <2> QED
    BY <2>1, <2>2, <2>3, <2>4
<1>10. Closing'
  <2> SUFFICES ASSUME NEW u \in Threads, pc'[u] \in {"close", "free"}
               PROVE  /\ target'[u] \in Conns /\ mem'[target'[u]] = "live" /\ target'[u] \notin conn_list
                      /\ pc'[u] = "close" => Owned(target[u])'
                      /\ \A v \in Threads : v # u /\ pc'[v] \in {"close", "free"} => target'[v] # target'[u]
    BY <1>1 DEF Closing
  <2>1. u # t /\ pc[u] = pc'[u] /\ target'[u] = target[u]
    BY <1>1 DEF Moves
  <2>2. /\ target[u] \in Conns /\ mem[target[u]] = "live" /\ target[u] \notin conn_list
        /\ pc[u] = "close" => Owned(target[u])
        /\ \A v \in Threads : v # u /\ pc[v] \in {"close", "free"} => target[v] # target[u]
    BY <2>1 DEF IInv, Closing
  <2>3. mem'[target[u]] = "live"
    BY <1>1, <1>2, <2>1, <2>2
  <2>4. pc'[u] = "close" => Owned(target[u])'
    BY <1>1, <2>1, <2>2, <2>3 DEF Owned
  <2>5. ASSUME NEW v \in Threads, v # u, pc'[v] \in {"close", "free"} PROVE target'[v] # target'[u]
    BY <1>1, <2>1, <2>2, <2>5 DEF Moves
  <2> QED
    BY <2>1, <2>2, <2>3, <2>4, <2>5
<1>11. OpenFdsAreManaged'
  BY <1>1 DEF IInv, OpenFdsAreManaged, Moves
<1> QED
  BY <1>4, <1>5, <1>6, <1>7, <1>8, <1>9, <1>10, <1>11 DEF IInv

\* add_conn makes a connection of an id and a descriptor that nobody has.
LEMMA NewConnStep ==
  ASSUME IInv, TypeInv', NEW t \in Threads, NEW p, NEW f \in Fds, NewConn(t, p, f),
         pc[t] \in {"idle", "connect"}
  PROVE  IInv'
<1> DEFINE c == next_conn_id + 1
<1>0. \A d \in Conns \cup {NoConn, FdFree, FdLeaked} : d \in Nat
  BY ConstFacts
<1>1. /\ c \in Conns /\ c > next_conn_id /\ next_conn_id' = c /\ next_conn_id \in Nat
      /\ c >= 2 /\ next_conn_id >= 2
  BY ConstFacts, MaxConnBound DEF NewConn, Conns, IInv, TypeInv, TypeOK
<1>2. /\ Moves(t) /\ pc'[t] = "insert" /\ target'[t] = c
      /\ UNCHANGED <<conn_list, lock>>
  BY DEF NewConn, GoTo, Moves, IInv, TypeInv, TypeOK
<1>3. /\ \A d \in Conns : d # c => mem'[d] = mem[d] /\ conn_fd'[d] = conn_fd[d]
      /\ mem'[c] = "live" /\ conn_fd'[c] = f
  BY <1>1 DEF NewConn, IInv, TypeInv, TypeOK
<1>4. /\ fd_owner[f] = FdFree /\ fd_owner'[f] = c
      /\ \A g \in Fds : g # f => fd_owner'[g] = fd_owner[g]
  BY DEF NewConn, IInv, TypeInv, TypeOK
<1>5. \A u \in Threads : target[u] <= next_conn_id /\ target[u] # c /\ target[u] \in Nat
  <2> SUFFICES ASSUME NEW u \in Threads
               PROVE  target[u] <= next_conn_id /\ target[u] # c /\ target[u] \in Nat
    OBVIOUS
  <2>1. target[u] \in Nat
    BY <1>0 DEF IInv, TypeInv, TypeOK
  <2>2. target[u] <= next_conn_id
    BY DEF IInv, IdsGiven
  <2> QED
    BY <1>1, <2>1, <2>2
<1>6. c \notin conn_list
  BY <1>1 DEF IInv, IdsGiven
<1>7. IdsGiven'
  <2>1. \A u \in Threads : target'[u] <= c
    BY <1>1, <1>2, <1>5 DEF Moves
  <2>2. \A d \in conn_list : d <= c
    BY <1>1, ConstFacts DEF IInv, IdsGiven, TypeInv, TypeOK
  <2>3. \A g \in Fds : fd_owner'[g] <= c
    <3> SUFFICES ASSUME NEW g \in Fds PROVE fd_owner'[g] <= c
      OBVIOUS
    <3>1. fd_owner[g] \in Nat /\ fd_owner[g] <= next_conn_id
      <4>1. fd_owner[g] \in Conns \cup {FdFree, FdLeaked}
        BY DEF IInv, TypeInv, TypeOK
      <4> QED
        BY <1>0, <4>1 DEF IInv, IdsGiven
    <3> QED
      BY <1>1, <1>4, <3>1
  <2> QED
    BY <1>1, <1>2, <2>1, <2>2, <2>3 DEF IdsGiven
<1>8. FdsKnown'
  <2> SUFFICES ASSUME NEW g \in Fds, fd_owner'[g] \in Conns PROVE conn_fd'[fd_owner'[g]] = g
    BY DEF FdsKnown
  <2>1. CASE g = f
    BY <1>3, <1>4, <2>1
  <2>2. CASE g # f
    <3>1. fd_owner[g] = fd_owner'[g] /\ fd_owner[g] # c
      BY <1>1, <1>4, <2>2, ConstFacts DEF IInv, IdsGiven
    <3> QED
      BY <1>3, <3>1 DEF IInv, FdsKnown
  <2> QED
    BY <2>1, <2>2
<1>9. Listed'
  <2> SUFFICES ASSUME NEW d \in conn_list PROVE Owned(d)'
    BY <1>2 DEF Listed
  <2>1. Owned(d) /\ d # c
    BY <1>6 DEF IInv, Listed
  <2> QED
    BY <1>3, <1>4, <2>1, ConstFacts DEF Owned
<1>10. Adding'
  <2> SUFFICES ASSUME NEW u \in Threads, pc'[u] \in {"insert", "insert_wait"}
               PROVE  /\ Owned(target[u])' /\ target'[u] \notin conn_list
                      /\ \A v \in Threads : v # u => target'[v] # target'[u]
    BY <1>2 DEF Adding
  <2>1. CASE u = t
    BY <1>1, <1>2, <1>3, <1>4, <1>5, <1>6, <2>1 DEF Moves, Owned
  <2>2. CASE u # t
    <3>1. /\ pc[u] = pc'[u] /\ target'[u] = target[u] /\ Owned(target[u]) /\ target[u] \notin conn_list
          /\ \A v \in Threads : v # u => target[v] # target[u]
      BY <1>2, <2>2 DEF IInv, Adding, Moves
    <3>2. Owned(target[u])'
      BY <1>3, <1>4, <1>5, <3>1, ConstFacts DEF Owned
    <3>3. ASSUME NEW v \in Threads, v # u PROVE target'[v] # target'[u]
      BY <1>2, <1>5, <3>1, <3>3 DEF Moves
    <3> QED
      BY <3>1, <3>2, <3>3
  <2> QED
    BY <2>1, <2>2
<1>11. Locking'
  BY <1>2 DEF IInv, Locking, Moves
<1>12. Writing'
  <2> SUFFICES ASSUME NEW u \in Threads, pc'[u] = "write"
               PROVE  /\ Owned(target[u])' /\ lock[target'[u]] = u
                      /\ \A v \in Threads : pc'[v] = "free" => target'[v] # target'[u]
    BY <1>2 DEF Writing
  <2>1. u # t /\ pc[u] = "write" /\ target'[u] = target[u]
    BY <1>2 DEF Moves
  <2>2. Owned(target[u]) /\ lock[target[u]] = u /\ \A v \in Threads : pc[v] = "free" => target[v] # target[u]
    BY <2>1 DEF IInv, Writing
  <2>3. Owned(target[u])'
    BY <1>3, <1>4, <1>5, <2>1, <2>2, ConstFacts DEF Owned
  <2>4. ASSUME NEW v \in Threads, pc'[v] = "free" PROVE target'[v] # target'[u]
    BY <1>2, <2>1, <2>2, <2>4 DEF Moves
  <2> QED
    BY <2>1, <2>2, <2>3, <2>4
<1>13. Closing'
  <2> SUFFICES ASSUME NEW u \in Threads, pc'[u] \in {"close", "free"}
               PROVE  /\ target'[u] \in Conns /\ mem'[target'[u]] = "live" /\ target'[u] \notin conn_list
                      /\ pc'[u] = "close" => Owned(target[u])'
                      /\ \A v \in Threads : v # u /\ pc'[v] \in {"close", "free"} => target'[v] # target'[u]
    BY <1>2 DEF Closing
  <2>1. u # t /\ pc[u] = pc'[u] /\ target'[u] = target[u]
    BY <1>2 DEF Moves
  <2>2. /\ target[u] \in Conns /\ mem[target[u]] = "live" /\ target[u] \notin conn_list
        /\ pc[u] = "close" => Owned(target[u])
        /\ \A v \in Threads : v # u /\ pc[v] \in {"close", "free"} => target[v] # target[u]
    BY <2>1 DEF IInv, Closing
  <2>3. mem'[target[u]] = "live"
    BY <1>3, <1>5, <2>2
  <2>4. pc'[u] = "close" => Owned(target[u])'
    BY <1>3, <1>4, <1>5, <2>1, <2>2, ConstFacts DEF Owned
  <2>5. ASSUME NEW v \in Threads, v # u, pc'[v] \in {"close", "free"} PROVE target'[v] # target'[u]
    BY <1>2, <2>1, <2>2, <2>5 DEF Moves
  <2> QED
    BY <2>1, <2>2, <2>3, <2>4, <2>5
<1>14. OpenFdsAreManaged'
  <2> SUFFICES ASSUME NEW g \in Fds, fd_owner'[g] \in Conns, fd_owner'[g] \notin conn_list
               PROVE  \E u \in Threads : pc'[u] \in {"insert", "insert_wait", "close"} /\ target'[u] = fd_owner'[g]
    BY <1>2 DEF OpenFdsAreManaged
  <2>1. CASE g = f
    BY <1>2, <1>4, <2>1
  <2>2. CASE g # f
    <3>1. PICK u \in Threads : pc[u] \in {"insert", "insert_wait", "close"} /\ target[u] = fd_owner[g]
      BY <1>4, <2>2 DEF IInv, OpenFdsAreManaged
    <3> QED
      BY <1>2, <1>4, <2>2, <3>1 DEF Moves
  <2> QED
    BY <2>1, <2>2
<1> QED
  BY <1>7, <1>8, <1>9, <1>10, <1>11, <1>12, <1>13, <1>14 DEF IInv

\* cceph_messenger_stop touches no connection.
LEMMA StillStep ==
  ASSUME IInv, TypeInv',
         UNCHANGED <<pc, target, next_conn_id, conn_list, mem, conn_fd, lock, fd_owner>>
  PROVE  IInv'
<1>1. IdsGiven' /\ FdsKnown' /\ Listed'
  BY DEF IInv, IdsGiven, FdsKnown, Listed, Owned
<1>2. Adding' /\ Locking' /\ Writing' /\ Closing'
  BY DEF IInv, Adding, Locking, Writing, Closing, Owned
<1>3. OpenFdsAreManaged'
  BY DEF IInv, OpenFdsAreManaged
<1> QED
  BY <1>1, <1>2, <1>3 DEF IInv

\* Every step keeps the invariant.
LEMMA IInvNext == IInv /\ [Next]_vars => IInv'
<1> SUFFICES ASSUME IInv, [Next]_vars PROVE IInv'
  OBVIOUS
<1>0. TypeInv'
  BY TypeNext DEF IInv
<1>1. ASSUME NEW t \in Threads, AddStep(t) PROVE IInv'
  <2>1. CASE ConnectFails(t) \/ EpollAdd(t) \/ AddReturn(t)
    BY <1>0, <2>1, QuietCalls, QuietStep
  <2>2. CASE Connect(t)
    BY <1>0, <2>2, NewConnStep DEF Connect
  <2>3. CASE WaitToWrite(t)
    <3>1. CASE pc[t] = "insert"
      BY <1>0, <2>3, <3>1, WaitToInsertStep
    <3>2. CASE pc[t] = "unlink"
      BY <1>0, <2>3, <3>2, QuietCalls, QuietStep
    <3> QED
      BY <2>3, <3>1, <3>2 DEF WaitToWrite
  <2>4. CASE InsertConn(t)
    BY <1>0, <2>4, InsertStep
  <2> QED
    BY <1>1, <2>1, <2>2, <2>3, <2>4 DEF AddStep
<1>2. ASSUME NEW t \in Threads, SendStep(t) PROVE IInv'
  <2>1. CASE SendNotFound(t) \/ SendSeesClosed(t) \/ SendOk(t) \/ SendFails(t)
    BY <1>0, <2>1, QuietCalls, QuietStep
  <2>2. CASE SendFind(t)
    BY <1>0, <2>2, SendFindStep
  <2>3. CASE SendLock(t)
    BY <1>0, <2>3, SendLockStep
  <2> QED
    BY <1>2, <2>1, <2>2, <2>3 DEF SendStep, SendBegins
<1>3. ASSUME NEW t \in Threads, CloseStep(t) PROVE IInv'
  <2>1. CASE CloseNotFound(t)
    BY <1>0, <2>1, QuietCalls, QuietStep
  <2>2. CASE Unlink(t)
    BY <1>0, <2>2, UnlinkStep
  <2>3. CASE CloseFd(t)
    BY <1>0, <2>3, CloseFdStep
  <2>4. CASE FreeConn(t)
    BY <1>0, <2>4, FreeStep
  <2> QED
    BY <1>3, <2>1, <2>2, <2>3, <2>4 DEF CloseStep
<1>4. ASSUME NEW t \in Threads, WorkStep(t) \/ \E f \in Fds : EpollWait(t, f) PROVE IInv'
  BY <1>0, <1>4, QuietWork, QuietStep
<1>5. ASSUME NEW t \in Threads, NEW p \in Peers,
             GetConnFound(t, p) \/ GetConnMissing(t, p) \/ Accept(t, p)
      PROVE  IInv'
  <2>1. CASE GetConnFound(t, p) \/ GetConnMissing(t, p)
    BY <1>0, <2>1, QuietCalls, QuietStep
  <2>2. CASE Accept(t, p)
    BY <1>0, <2>2, NewConnStep DEF Accept
  <2> QED
    BY <1>5, <2>1, <2>2
<1>6. CASE StopWrite \/ StopJoin \/ UNCHANGED vars
  BY <1>0, <1>6, StillStep DEF StopWrite, StopJoin, vars, thread_vars, conn_vars
<1>7. Workers \subseteq Threads
  BY DEF Threads
<1> QED
  BY <1>1, <1>2, <1>3, <1>4, <1>5, <1>6, <1>7 DEF Next, ThreadStep

\* The invariant holds in every reachable state.
LEMMA IInvAlways == Spec => []IInv
  BY IInvInit, IInvNext, PTL DEF Spec

\* send_msg and close_conn never touch a freed connection.
THEOREM MemorySafe == Spec => []NoUseAfterFree
<1>1. IInv => NoUseAfterFree
  BY DEF IInv, NoUseAfterFree, HoldsPointer, Adding, Locking, Listed, Writing, Closing, Owned
<1> QED
  BY <1>1, IInvAlways, PTL

\* One thread at most is closing a connection.
THEOREM ClosedOnce == Spec => []OneCloser
<1>1. IInv => OneCloser
  BY DEF IInv, OneCloser, Closing
<1> QED
  BY <1>1, IInvAlways, PTL

\* What is on the list is allocated and has an open socket of its own.
THEOREM ListSound == Spec => []ListedConnsOwnTheirFd
<1>1. IInv => ListedConnsOwnTheirFd
  BY DEF IInv, ListedConnsOwnTheirFd, Listed, Owned
<1> QED
  BY <1>1, IInvAlways, PTL

\* write_message has the connection's socket to itself, and the socket is not
\* closed or reused under it.
THEOREM WritesApart == Spec => []WritesAreExclusive
<1>1. IInv => WritesAreExclusive
  <2> SUFFICES ASSUME IInv, NEW t \in Threads, pc[t] = "write"
               PROVE  /\ fd_owner[conn_fd[target[t]]] = target[t]
                      /\ \A u \in Threads : pc[u] = "write" /\ target[u] = target[t] => u = t
    BY DEF WritesAreExclusive
  <2> QED
    BY DEF IInv, Writing, Owned
<1> QED
  BY <1>1, IInvAlways, PTL

\* No open socket is lost but those of failed connects.
THEOREM DescriptorsManaged == Spec => []OpenFdsAreManaged
<1>1. IInv => OpenFdsAreManaged
  BY DEF IInv
<1> QED
  BY <1>1, IInvAlways, PTL

----------------------------------------------------------------------------
(***************************************************************************)
(* Stop.                                                                   *)
(***************************************************************************)

\* Where stop may find the threads, and leaves them.
StopInv == /\ pc \in [Threads -> PCs]
           /\ state # "NORMAL" => stop_pc = "stopped"
           /\ stop_pc # "running" => \A t \in Callers \cup Acceptors : pc[t] = "idle"
           /\ stop_pc = "stopped" => \A w \in Workers : pc[w] = "exited"
           /\ stop_pc \in {"running", "stopping", "stopped"}

\* When stop has been called the application's threads do nothing, and when it
\* has returned, or has set the state, no thread does.
THEOREM StopIsOrderly == Spec => []StateAsserts
<1>1. Init => StopInv
  BY DEF Init, StopInv, PCs, CallerPCs, WorkerPCs
<1>2. ASSUME TypeInv, StopInv, [Next]_vars PROVE StopInv'
  <2> USE <1>2
  <2>0. pc' \in [Threads -> PCs]
    BY TypeNext DEF TypeInv, TypeOK
  <2>1. ASSUME NEW t \in Threads, pc[t] \notin {"idle", "exited"},
               \A u \in Threads : u # t => pc'[u] = pc[u],
               UNCHANGED <<state, stop_pc>>
        PROVE  StopInv'
    BY <2>0, <2>1 DEF StopInv, Threads
  <2>2. ASSUME stop_pc = "running", UNCHANGED <<state, stop_pc>> PROVE StopInv'
    BY <2>0, <2>2 DEF StopInv
  <2>3. ASSUME NEW t \in Threads, AddStep(t) PROVE StopInv'
    <3>1. pc[t] \notin {"idle", "exited"}
      BY <2>3 DEF AddStep, ConnectFails, Connect, WaitToWrite, InsertConn, EpollAdd, AddReturn
    <3>2. UNCHANGED <<state, stop_pc>>
      BY <2>3 DEF AddStep, ConnectFails, Connect, NewConn, WaitToWrite, InsertConn, EpollAdd, AddReturn, stop_vars
    <3>3. \A u \in Threads : u # t => pc'[u] = pc[u]
      BY <2>3 DEF StopInv, AddStep, ConnectFails, Connect, NewConn, WaitToWrite, InsertConn, EpollAdd, AddReturn, Finish, GoTo
    <3> QED
      BY <2>1, <3>1, <3>2, <3>3
  <2>4. ASSUME NEW t \in Threads, SendStep(t) PROVE StopInv'
    <3>1. pc[t] \notin {"idle", "exited"}
      BY <2>4 DEF SendStep, SendBegins, SendNotFound, SendFind, SendLock, SendSeesClosed, SendOk, SendFails
    <3>2. UNCHANGED <<state, stop_pc>>
      BY <2>4 DEF SendStep, SendBegins, SendNotFound, SendFind, SendLock, SendSeesClosed, SendOk, SendFails, stop_vars
    <3>3. \A u \in Threads : u # t => pc'[u] = pc[u]
      BY <2>4 DEF StopInv, SendStep, SendBegins, SendNotFound, SendFind, SendLock, SendSeesClosed, SendOk, SendFails, Finish, GoTo
    <3> QED
      BY <2>1, <3>1, <3>2, <3>3
  <2>5. ASSUME NEW t \in Threads, CloseStep(t) PROVE StopInv'
    <3>1. pc[t] \notin {"idle", "exited"}
      BY <2>5 DEF CloseStep, CloseNotFound, Unlink, CloseFd, FreeConn
    <3>2. UNCHANGED <<state, stop_pc>>
      BY <2>5 DEF CloseStep, CloseNotFound, Unlink, CloseFd, FreeConn, stop_vars
    <3>3. \A u \in Threads : u # t => pc'[u] = pc[u]
      BY <2>5 DEF StopInv, CloseStep, CloseNotFound, Unlink, CloseFd, FreeConn, Finish, GoTo
    <3> QED
      BY <2>1, <3>1, <3>2, <3>3
  <2>6. ASSUME NEW t \in Threads, WorkStep(t) PROVE StopInv'
    <3>1. pc[t] \notin {"idle", "exited"}
      BY <2>6 DEF WorkStep, HandleStep, ReadStep, LookupEvent, LookupMissing, ReadWake, ReadMsg, ReadClosed,
                  ReadUnknownOp, ReadNotImpl,
                  WaitForNextMsg, ProcessAndReply, ProcessOnly
    <3>2. UNCHANGED <<state, stop_pc>>
      BY <2>6 DEF WorkStep, HandleStep, ReadStep, LookupEvent, LookupMissing, ReadWake, ReadMsg, ReadClosed,
                  ReadUnknownOp, ReadNotImpl,
                  WaitForNextMsg, ProcessAndReply, ProcessOnly, stop_vars
    <3>3. \A u \in Threads : u # t => pc'[u] = pc[u]
      BY <2>6 DEF StopInv, WorkStep, HandleStep, ReadStep, LookupEvent, LookupMissing, ReadWake, ReadMsg,
                  ReadClosed, ReadUnknownOp, ReadNotImpl, WaitForNextMsg, ProcessAndReply, ProcessOnly, Finish, GoTo
    <3> QED
      BY <2>1, <3>1, <3>2, <3>3
  <2>7. ASSUME NEW w \in Workers, NEW f \in Fds, EpollWait(w, f) PROVE StopInv'
    <3>1. w \in Threads /\ pc[w] \notin {"idle", "exited"}
      BY <2>7 DEF EpollWait, Threads
    <3>2. UNCHANGED <<state, stop_pc>> /\ \A u \in Threads : u # w => pc'[u] = pc[u]
      BY <2>7 DEF StopInv, EpollWait, GoTo, stop_vars
    <3> QED
      BY <2>1, <3>1, <3>2
  <2>8. ASSUME NEW t \in Threads, NEW p \in Peers,
               GetConnFound(t, p) \/ GetConnMissing(t, p) \/ Accept(t, p)
        PROVE  StopInv'
    BY <2>2, <2>8 DEF GetConnFound, GetConnMissing, Accept, NewConn, stop_vars
  <2>9. CASE StopWrite
    BY <2>9 DEF StopInv, StopWrite, thread_vars
  <2>10. CASE StopJoin
    BY <2>10 DEF StopInv, StopJoin, thread_vars
  <2>11. CASE UNCHANGED vars
    BY <2>11 DEF StopInv, vars, thread_vars, stop_vars
  <2> QED
    BY <2>3, <2>4, <2>5, <2>6, <2>7, <2>8, <2>9, <2>10, <2>11 DEF Next, ThreadStep
<1>3. TypeInv /\ StopInv /\ [Next]_vars => TypeInv' /\ StopInv'
  BY <1>2, TypeNext
<1>4. StopInv => StateAsserts
  BY DEF StopInv, StateAsserts, Threads
<1> QED
  BY <1>1, <1>3, <1>4, TypeInit, PTL DEF Spec

----------------------------------------------------------------------------
(***************************************************************************)
(* The one-shot registrations.  EpollInv follows each descriptor number    *)
(* from add_conn, which registers it once, through the workers that take   *)
(* its events, to close_conn; a number the kernel has given out again is   *)
(* left out, since then two connections may share it.                      *)
(***************************************************************************)

AddingPCs == {"insert", "insert_wait", "epoll_add"}
EventPCs  == {"event", "event_err", "wake", "read", "rearm"}

\* w has taken an event of descriptor f and not re-armed f since.
HasEvent(w, f) == pc[w] \in EventPCs /\ thread_fd[w] = f

\* A connection has, or had, descriptor f.
Used(f) == \E c \in Conns : conn_fd[c] = f

\* Ids not given out yet have no descriptor.
FreshConns == \A c \in Conns : c > next_conn_id => conn_fd[c] = NoFd

\* Descriptor numbers in hand, or registered, are those of connections.
FdsUsed == /\ \A t \in Threads : thread_fd[t] \in Fds => Used(thread_fd[t])
           /\ \A f \in Fds : epoll[f] # "none" => Used(f)

\* A thread keeps the descriptor number of the connection it works on; before
\* the lookup an event is a number only.
OwnFd == \A t \in Threads : thread_fd[t] \in Fds /\ pc[t] \notin {"event", "event_err"} =>
           target[t] \in Conns /\ conn_fd[target[t]] = thread_fd[t]

\* Where a thread has a descriptor number, and where it has none.
HasFd == \A t \in Threads : /\ pc[t] \in AddingPCs \cup EventPCs => thread_fd[t] \in Fds
                            /\ pc[t] \in CallerPCs => thread_fd[t] = NoFd

\* A descriptor is registered by the one thread that added its connection.
Unregistered ==
  \A t \in Threads : pc[t] \in AddingPCs =>
    /\ ~Reused(thread_fd[t]) => /\ epoll[thread_fd[t]] = "none"
                                /\ \A u \in Threads : ~HasEvent(u, thread_fd[t])
    /\ \A u \in Threads : u # t /\ pc[u] \in AddingPCs => target[u] # target[t]

\* As long as its number is not reused, a descriptor is disarmed while a worker
\* has its event, and one worker at most has it.
EventsApart ==
  \A f \in Fds, w \in Threads : HasEvent(w, f) /\ ~Reused(f) =>
    /\ epoll[f] # "armed"
    /\ \A v \in Threads : HasEvent(v, f) => v = w

EpollInv == FreshConns /\ FdsUsed /\ OwnFd /\ HasFd /\ Unregistered /\ EventsApart

\* What the proofs below use of the types.
EpollFacts == /\ pc \in [Threads -> PCs]
              /\ target \in [Threads -> Conns \cup {NoConn}]
              /\ thread_fd \in [Threads -> Fds \cup {NoFd}]
              /\ conn_fd \in [Conns -> Fds \cup {NoFd}]
              /\ epoll \in [Fds -> {"none", "armed", "disarmed"}]
              /\ fd_owner \in [Fds -> Conns \cup {FdFree, FdLeaked}]
              /\ conn_list \subseteq Conns
              /\ skipped \subseteq Conns
              /\ NoFd \notin Fds /\ Workers \subseteq Threads
              /\ next_conn_id \in Conns

\* They follow from the type invariant.
LEMMA EpollTypes == TypeInv => EpollFacts
  BY WakeFdIsFd DEF TypeInv, TypeOK, EpollFacts, Threads

\* After cceph_messenger_start only the wake pipe is registered.
LEMMA EpollInit == Init => EpollInv
<1> SUFFICES ASSUME Init PROVE EpollInv
  OBVIOUS
<1>1. \A t \in Threads : pc[t] \in {"idle", "epoll"} /\ thread_fd[t] = NoFd
  BY DEF Init
<1>2. /\ conn_fd[WakeConn] = WakeFd /\ epoll[WakeFd] = "armed" /\ conn_list = {WakeConn}
      /\ \A f \in Fds : epoll[f] # "none" => f = WakeFd
      /\ \A c \in Conns : c # WakeConn => conn_fd[c] = NoFd
  BY ConstFacts DEF Init
<1>3. FreshConns /\ FdsUsed
  BY <1>1, <1>2, ConstFacts, WakeFdIsFd DEF FreshConns, FdsUsed, Used, Init
<1>4. OwnFd /\ HasFd /\ Unregistered /\ EventsApart
  BY <1>1, WakeFdIsFd DEF OwnFd, HasFd, CallerPCs, Unregistered, EventsApart, HasEvent, AddingPCs, EventPCs
<1> QED
  BY <1>3, <1>4 DEF EpollInv

\* Only t moves, registrations stay, and t takes no event and adds nothing new.
Calm(t) ==
  /\ UNCHANGED <<conn_fd, next_conn_id, epoll>>
  /\ \A u \in Threads : u # t => pc'[u] = pc[u] /\ target'[u] = target[u] /\ thread_fd'[u] = thread_fd[u]
  /\ \/ thread_fd'[t] = NoFd /\ pc'[t] \notin AddingPCs \cup EventPCs
     \/ /\ thread_fd'[t] = thread_fd[t] /\ target'[t] = target[t]
        /\ pc'[t] \in EventPCs => pc[t] \in EventPCs
        /\ pc'[t] \in AddingPCs => pc[t] \in AddingPCs
        /\ pc'[t] \in CallerPCs => pc[t] \in CallerPCs
        /\ pc[t] \notin {"event", "event_err"}

\* A calm step keeps who may have an event of what.
LEMMA CalmEvents ==
  ASSUME EpollInv, EpollFacts, NEW t \in Threads, Calm(t)
  PROVE  EpollInv'
<1> USE DEF EpollInv
<1>0. \A f : (Used(f)' <=> Used(f)) /\ (Reused(f)' <=> Reused(f))
  BY DEF Used, Reused, Calm
<1>1. \A u \in Threads, f \in Fds : HasEvent(u, f)' => HasEvent(u, f)
  BY DEF HasEvent, Calm, EpollFacts
<1>2. \A u \in Threads : pc'[u] \in AddingPCs =>
        pc[u] \in AddingPCs /\ target'[u] = target[u] /\ thread_fd'[u] = thread_fd[u]
  BY DEF Calm
<1>3. FreshConns'
  BY DEF FreshConns, Calm
<1>4. FdsUsed'
  <2>1. \A u \in Threads : thread_fd'[u] \in Fds => thread_fd'[u] = thread_fd[u]
    BY DEF Calm, EpollFacts
  <2> QED
    BY <1>0, <2>1 DEF FdsUsed, Calm
<1>5. OwnFd'
  BY DEF OwnFd, Calm, EpollFacts
<1>6. HasFd'
  BY DEF HasFd, Calm, AddingPCs, EventPCs, CallerPCs
<1>7. Unregistered'
  <2>1. ASSUME NEW u \in Threads, pc'[u] \in AddingPCs, NEW v \in Threads, v # u, pc'[v] \in AddingPCs
        PROVE  target'[v] # target'[u]
    BY <1>2, <2>1 DEF Unregistered
  <2>2. ASSUME NEW u \in Threads, pc'[u] \in AddingPCs, ~Reused(thread_fd'[u])
        PROVE  epoll'[thread_fd'[u]] = "none" /\ \A v \in Threads : ~(pc'[v] \in EventPCs /\ thread_fd'[v] = thread_fd'[u])
    <3>1. thread_fd[u] \in Fds /\ pc[u] \in AddingPCs /\ thread_fd'[u] = thread_fd[u]
      BY <1>2, <2>2 DEF HasFd
    <3>2. epoll[thread_fd[u]] = "none" /\ \A v \in Threads : ~HasEvent(v, thread_fd[u])
      BY <2>2, <3>1 DEF Unregistered
    <3> QED
      BY <1>1, <3>1, <3>2 DEF Calm, HasEvent
  <2> QED
    BY <2>1, <2>2 DEF Unregistered, HasEvent, Reused, Calm
<1>8. EventsApart'
  BY <1>0, <1>1 DEF EventsApart, Calm
<1> QED
  BY <1>3, <1>4, <1>5, <1>6, <1>7, <1>8

\* Most steps of get_conn, add_conn, send_msg and close_conn are calm.
LEMMA CallsCalm ==
  ASSUME EpollInv, EpollFacts, IInv, NEW t \in Threads,
         \/ \E p \in Peers : GetConnFound(t, p) \/ GetConnMissing(t, p)
         \/ ConnectFails(t) \/ AddReturn(t) \/ WaitToWrite(t) \/ SendStep(t)
         \/ CloseNotFound(t) \/ Unlink(t) \/ FreeConn(t)
  PROVE  Calm(t)
<1> USE DEF Calm, GoTo, conn_vars, stop_vars, EventPCs, ClosePCs, AddingPCs
<1>0. /\ pc \in [Threads -> PCs]
      /\ target \in [Threads -> Conns \cup {NoConn}]
      /\ thread_fd \in [Threads -> Fds \cup {NoFd}]
      /\ \A c \in conn_list : conn_fd[c] \in Fds
  BY DEF EpollFacts, IInv, Listed, Owned
<1>1. ASSUME Finish(t)
      PROVE  /\ \A u \in Threads : u # t => pc'[u] = pc[u] /\ target'[u] = target[u] /\ thread_fd'[u] = thread_fd[u]
             /\ thread_fd'[t] = NoFd /\ pc'[t] \in {"idle", "epoll"}
  BY <1>0, <1>1 DEF Finish
<1>2. ASSUME NEW p \in Peers, GetConnFound(t, p) PROVE Calm(t)
  <2>1. thread_fd[t] = NoFd /\ UNCHANGED thread_fd
    BY <1>2 DEF GetConnFound, EpollInv, HasFd, CallerPCs
  <2> QED
    BY <1>0, <1>2, <2>1 DEF GetConnFound
<1>3. ASSUME NEW p \in Peers, GetConnMissing(t, p) PROVE Calm(t)
  BY <1>0, <1>3 DEF GetConnMissing, CallerPCs
<1>4. CASE ConnectFails(t)
  BY <1>1, <1>4 DEF ConnectFails
<1>5. CASE AddReturn(t)
  <2>1. CASE t \in Callers
    BY <1>0, <1>5, <2>1 DEF AddReturn
  <2>2. CASE t \notin Callers
    BY <1>1, <1>5, <2>2 DEF AddReturn
  <2> QED
    BY <2>1, <2>2
<1>6. CASE WaitToWrite(t)
  BY <1>0, <1>6 DEF WaitToWrite, CallerPCs
<1>7. CASE SendStep(t)
  <2>1. CASE SendNotFound(t)
    BY <1>1, <2>1 DEF SendNotFound
  <2>2. CASE SendFind(t)
    BY <1>0, <2>2 DEF SendFind, CallerPCs
  <2>3. CASE SendLock(t)
    BY <1>0, <2>3 DEF SendLock, CallerPCs
  <2>4. CASE SendSeesClosed(t)
    BY <1>1, <2>4 DEF SendSeesClosed
  <2>5. CASE SendOk(t)
    BY <1>1, <2>5 DEF SendOk
  <2>6. CASE SendFails(t)
    BY <1>0, <2>6 DEF SendFails, CallerPCs
  <2> QED
    BY <1>7, <2>1, <2>2, <2>3, <2>4, <2>5, <2>6 DEF SendStep, SendBegins
<1>8. CASE CloseNotFound(t)
  BY <1>1, <1>8 DEF CloseNotFound
<1>9. CASE Unlink(t)
  BY <1>0, <1>9 DEF Unlink, CallerPCs
<1>10. CASE FreeConn(t)
  BY <1>1, <1>10 DEF FreeConn
<1> QED
  BY <1>2, <1>3, <1>4, <1>5, <1>6, <1>7, <1>8, <1>9, <1>10

\* So do the steps of a worker that neither take nor re-arm one.
LEMMA WorkCalm ==
  ASSUME EpollInv, EpollFacts, IInv, NEW w \in Threads,
         LookupMissing(w) \/ ReadStep(w) \/ ProcessAndReply(w) \/ ProcessOnly(w)
  PROVE  Calm(w)
<1> USE DEF Calm, GoTo, conn_vars, stop_vars, EventPCs, ClosePCs, AddingPCs, CallerPCs
<1>0. /\ pc \in [Threads -> PCs]
      /\ target \in [Threads -> Conns \cup {NoConn}]
      /\ thread_fd \in [Threads -> Fds \cup {NoFd}]
      /\ \A c \in conn_list : conn_fd[c] \in Fds
  BY DEF EpollFacts, IInv, Listed, Owned
<1>1. ASSUME Finish(w)
      PROVE  /\ \A u \in Threads : u # w => pc'[u] = pc[u] /\ target'[u] = target[u] /\ thread_fd'[u] = thread_fd[u]
             /\ thread_fd'[w] = NoFd /\ pc'[w] \in {"idle", "epoll"}
  BY <1>0, <1>1 DEF Finish
<1>2. CASE LookupMissing(w)
  BY <1>1, <1>2 DEF LookupMissing
<1>3. CASE ReadMsg(w)
  BY <1>0, <1>3 DEF ReadMsg
<1>4. CASE ReadClosed(w)
  BY <1>0, <1>4 DEF ReadClosed
<1>5. CASE ReadUnknownOp(w)
  BY <1>1, <1>5 DEF ReadUnknownOp
<1>6. CASE ProcessAndReply(w)
  BY <1>0, <1>6 DEF ProcessAndReply
<1>7. CASE ProcessOnly(w)
  BY <1>1, <1>7 DEF ProcessOnly
<1>8. CASE ReadNotImpl(w)
  BY <1>0, <1>8 DEF ReadNotImpl
<1> QED
  BY <1>2, <1>3, <1>4, <1>5, <1>6, <1>7, <1>8 DEF ReadStep

\* A new connection: its descriptor number has an event, or a registration, only
\* if it had another connection before.
LEMMA NewConnEvents ==
  ASSUME EpollInv, EpollFacts, EpollFacts', IInv, NEW t \in Threads, NEW p, NEW f \in Fds, NewConn(t, p, f),
         pc[t] \in {"idle", "connect"}
  PROVE  EpollInv'
<1> DEFINE c == next_conn_id + 1
<1> USE DEF EpollInv
<1>1. /\ c \in Conns /\ conn_fd[c] = NoFd /\ next_conn_id' = c
      /\ conn_fd'[c] = f /\ \A d \in Conns : d # c => conn_fd'[d] = conn_fd[d]
      /\ NoFd \notin Fds /\ c \notin conn_list
      /\ UNCHANGED <<conn_list, epoll, skipped>>
  <2>1. c \in Conns /\ c > next_conn_id /\ ~(c <= next_conn_id)
    BY MaxConnBound, ConstFacts DEF NewConn, Conns, EpollFacts
  <2>2. c \notin conn_list
    BY <2>1 DEF IInv, IdsGiven
  <2> QED
    BY <2>1, <2>2 DEF NewConn, EpollFacts, FreshConns, stop_vars
<1>2. /\ pc'[t] = "insert" /\ target'[t] = c /\ thread_fd'[t] = f /\ thread_fd[t] = NoFd
      /\ \A u \in Threads : u # t => pc'[u] = pc[u] /\ target'[u] = target[u] /\ thread_fd'[u] = thread_fd[u]
  BY DEF NewConn, GoTo, EpollFacts, HasFd, CallerPCs
<1>3. \A g \in Fds : /\ Used(g)' <=> Used(g) \/ g = f
                     /\ Reused(g) => Reused(g)'
                     /\ g = f /\ Used(f) => Reused(f)'
  BY <1>1 DEF Used, Reused
<1>4. FreshConns'
  BY <1>1, ConstFacts DEF FreshConns, EpollFacts
<1>5. FdsUsed'
  BY <1>1, <1>2, <1>3 DEF FdsUsed, EpollFacts
<1>6. OwnFd'
  <2> SUFFICES ASSUME NEW u \in Threads, thread_fd'[u] \in Fds, pc'[u] \notin {"event", "event_err"}
               PROVE  target'[u] \in Conns /\ conn_fd'[target'[u]] = thread_fd'[u]
    BY DEF OwnFd
  <2>1. CASE u = t
    BY <1>1, <1>2, <2>1
  <2>2. CASE u # t
    <3>1. target[u] \in Conns /\ conn_fd[target[u]] = thread_fd[u] /\ thread_fd[u] \in Fds
      BY <1>2, <2>2 DEF OwnFd
    <3>2. target[u] # c
      BY <1>1, <3>1
    <3> QED
      BY <1>1, <1>2, <2>2, <3>1, <3>2
  <2> QED
    BY <2>1, <2>2
<1>7. HasFd'
  BY <1>2 DEF HasFd, AddingPCs, EventPCs, CallerPCs
<1>8. \A u \in Threads, g \in Fds : HasEvent(u, g)' <=> HasEvent(u, g) /\ u # t
  BY <1>2 DEF HasEvent, EventPCs, EpollFacts
<1>9. \A u \in Threads : u # t => target[u] # c
  BY <1>1, ConstFacts DEF EpollFacts, IInv, IdsGiven
<1>10. Unregistered'
  <2>1. ASSUME NEW u \in Threads, pc'[u] \in AddingPCs, NEW v \in Threads, v # u, pc'[v] \in AddingPCs
        PROVE  target'[v] # target'[u]
    BY <1>2, <1>9, <2>1 DEF Unregistered
  <2>2. ASSUME NEW u \in Threads, pc'[u] \in AddingPCs, NEW g \in Fds, g = thread_fd'[u], ~Reused(g)'
        PROVE  epoll'[g] = "none" /\ \A v \in Threads : ~HasEvent(v, g)'
    <3>1. CASE u = t
      <4>1. g = f /\ ~Used(f)
        BY <1>2, <1>3, <2>2, <3>1
      <4> QED
        BY <1>1, <1>8, <4>1 DEF FdsUsed, HasEvent
    <3>2. CASE u # t
      BY <1>1, <1>2, <1>3, <1>8, <2>2, <3>2 DEF Unregistered
    <3> QED
      BY <3>1, <3>2
  <2> QED
    BY <1>7, <2>1, <2>2 DEF Unregistered, HasFd, HasEvent, Reused
<1>11. EventsApart'
  BY <1>1, <1>3, <1>8 DEF EventsApart
<1>12. \A d \in conn_list : d # c /\ conn_fd[d] \in Fds /\ conn_fd'[d] = conn_fd[d]
  BY <1>1 DEF IInv, Listed, Owned
<1> QED
  BY <1>4, <1>5, <1>6, <1>7, <1>10, <1>11

\* add_conn lists the connection; it will register it next.
LEMMA InsertEvents ==
  ASSUME EpollInv, EpollFacts, IInv, NEW t \in Threads, InsertConn(t)
  PROVE  EpollInv'
<1>1. /\ pc[t] = "insert_wait" /\ pc'[t] = "epoll_add" /\ conn_list' = conn_list \cup {target[t]}
      /\ \A u \in Threads : u # t => pc'[u] = pc[u]
      /\ UNCHANGED <<target, thread_fd, next_conn_id, conn_fd, epoll, skipped>>
  BY DEF InsertConn, GoTo, EpollFacts, conn_vars, stop_vars
<1>2. EpollInv'
  <2>1. Calm(t)
    BY <1>1 DEF Calm, AddingPCs, EventPCs, CallerPCs
  <2> QED
    BY <2>1, CalmEvents DEF EpollInv
<1>3. conn_fd[target[t]] = thread_fd[t] /\ thread_fd[t] \in Fds /\ target[t] \in Conns
  BY <1>1 DEF EpollInv, HasFd, OwnFd, AddingPCs
<1> QED
  BY <1>2 DEF EpollInv

\* EPOLL_CTL_ADD: of a listed connection the descriptor is open and not yet
\* registered.
LEMMA EpollAddEvents ==
  ASSUME EpollInv, EpollFacts, IInv, NEW t \in Threads, EpollAdd(t)
  PROVE  EpollInv'
<1> DEFINE f == thread_fd[t]
<1>1. /\ pc[t] = "epoll_add" /\ pc'[t] = "add_return"
      /\ \A u \in Threads : u # t => pc'[u] = pc[u]
      /\ UNCHANGED <<target, thread_fd, next_conn_id, conn_fd, conn_list, skipped, fd_owner>>
      /\ \A g \in Fds : g # f => epoll'[g] = epoll[g]
      /\ fd_owner[f] # FdFree /\ epoll[f] = "none" /\ f \in Fds => epoll'[f] = "armed"
      /\ f \in Fds => epoll'[f] \in {epoll[f], "armed"}
  BY DEF EpollAdd, GoTo, EpollFacts, conn_vars, stop_vars
<1>2. f \in Fds /\ target[t] \in Conns /\ conn_fd[target[t]] = f /\ Used(f)
  BY <1>1 DEF EpollInv, HasFd, OwnFd, AddingPCs, Used
<1>3. ~Reused(f) => epoll[f] = "none" /\ \A u \in Threads : ~HasEvent(u, f)
  BY <1>1 DEF EpollInv, Unregistered, AddingPCs
<1>4. \A u \in Threads : \A g : HasEvent(u, g)' => HasEvent(u, g)
  BY <1>1 DEF HasEvent, EventPCs
<1>5. \A g : (Reused(g)' <=> Reused(g)) /\ (Used(g)' <=> Used(g))
  BY <1>1 DEF Used, Reused
<1>6. FreshConns' /\ OwnFd' /\ HasFd'
  BY <1>1 DEF EpollInv, FreshConns, OwnFd, HasFd, AddingPCs, EventPCs, CallerPCs
<1>7. FdsUsed'
  BY <1>1, <1>2, <1>5 DEF EpollInv, FdsUsed
<1>8. Unregistered'
  <2>1. ASSUME NEW u \in Threads, pc'[u] \in AddingPCs, NEW v \in Threads, v # u, pc'[v] \in AddingPCs
        PROVE  target[v] # target[u]
    BY <1>1, <2>1 DEF EpollInv, Unregistered, AddingPCs
  <2>2. ASSUME NEW u \in Threads, pc'[u] \in AddingPCs, NEW g \in Fds, g = thread_fd[u], ~Reused(g)
        PROVE  epoll'[g] = "none" /\ \A v \in Threads : ~HasEvent(v, g)'
    <3>1. u # t /\ pc[u] = pc'[u] /\ target[u] # target[t] /\ target[u] \in Conns /\ conn_fd[target[u]] = g
      BY <1>1, <2>2 DEF EpollInv, Unregistered, OwnFd, AddingPCs
    <3>2. g # f
      BY <1>2, <2>2, <3>1 DEF Reused
    <3> QED
      BY <1>1, <1>4, <2>2, <3>1, <3>2 DEF EpollInv, Unregistered
  <2>3. \A u \in Threads : pc'[u] \in AddingPCs => thread_fd[u] \in Fds
    BY <1>1 DEF EpollInv, HasFd, AddingPCs
  <2> QED
    BY <1>1, <2>1, <2>2, <2>3 DEF Unregistered, HasEvent, Reused
<1>9. EventsApart'
  <2> SUFFICES ASSUME NEW g \in Fds, NEW w \in Threads, HasEvent(w, g)', ~Reused(g)
               PROVE  epoll'[g] # "armed" /\ \A v \in Threads : HasEvent(v, g)' => v = w
    BY <1>5 DEF EventsApart
  <2>1. HasEvent(w, g) /\ g # f
    BY <1>3, <1>4
  <2> QED
    BY <1>1, <1>4, <2>1 DEF EpollInv, EventsApart
<1>10. \A d \in conn_list : conn_fd[d] \in Fds /\ fd_owner[conn_fd[d]] = d /\ d # FdFree
  BY ConstFacts DEF IInv, Listed, Owned
<1> QED
  BY <1>6, <1>7, <1>8, <1>9 DEF EpollInv

\* close_conn drops the registration of a connection off the list.
LEMMA CloseEvents ==
  ASSUME EpollInv, EpollFacts, IInv, NEW t \in Threads, CloseFd(t)
  PROVE  EpollInv'
<1> DEFINE c == target[t]
           f == conn_fd[c]
<1>1. /\ pc[t] = "close" /\ pc'[t] = "free" /\ c \in Conns /\ c \notin conn_list /\ f \in Fds
      /\ \A u \in Threads : u # t => pc'[u] = pc[u]
      /\ UNCHANGED <<target, thread_fd, next_conn_id, conn_fd, conn_list, skipped>>
      /\ epoll'[f] = "none" /\ \A g \in Fds : g # f => epoll'[g] = epoll[g]
  BY DEF CloseFd, GoTo, EpollFacts, conn_vars, stop_vars, IInv, Closing, Owned
<1>2. \A u \in Threads : /\ pc'[u] \in EventPCs \cup AddingPCs \cup CallerPCs => pc'[u] = pc[u]
                         /\ pc[u] \in EventPCs \cup AddingPCs \cup CallerPCs => pc'[u] = pc[u]
  BY <1>1 DEF EventPCs, AddingPCs, CallerPCs
<1>3. \A g : (Reused(g)' <=> Reused(g)) /\ (Used(g)' <=> Used(g))
  BY <1>1 DEF Used, Reused
<1>4. \A u \in Threads, g \in Fds : HasEvent(u, g)' <=> HasEvent(u, g)
  BY <1>1, <1>2 DEF HasEvent
<1>5. \A g \in Fds : epoll'[g] \in {epoll[g], "none"}
  BY <1>1
<1>6. FreshConns' /\ HasFd'
  BY <1>1, <1>2 DEF EpollInv, FreshConns, HasFd
<1>7. OwnFd'
  BY <1>1, <1>2 DEF EpollInv, OwnFd, EventPCs
<1>8. FdsUsed'
  BY <1>1, <1>3, <1>5 DEF EpollInv, FdsUsed
<1>9. Unregistered'
  <2>1. ASSUME NEW u \in Threads, pc'[u] \in AddingPCs
        PROVE  /\ ~Reused(thread_fd[u]) => /\ epoll'[thread_fd[u]] = "none"
                                           /\ \A v \in Threads : ~HasEvent(v, thread_fd[u])
               /\ \A v \in Threads : v # u /\ pc'[v] \in AddingPCs => target[v] # target[u]
    <3>1. pc[u] \in AddingPCs /\ thread_fd[u] \in Fds
      BY <1>2, <2>1 DEF EpollInv, HasFd
    <3> QED
      BY <1>2, <1>5, <3>1 DEF EpollInv, Unregistered
  <2> QED
    BY <1>1, <1>2, <2>1 DEF Unregistered, HasEvent, Reused
<1>10. EventsApart'
  BY <1>3, <1>4, <1>5 DEF EpollInv, EventsApart
<1>11. \A d \in conn_list : conn_fd[d] \in Fds /\ (conn_fd[d] = f => Reused(f))
  BY <1>1 DEF IInv, Listed, Owned, Reused
<1> QED
  BY <1>6, <1>7, <1>8, <1>9, <1>10 DEF EpollInv

\* epoll_wait disarms the descriptor whose event it returns.
LEMMA EpollWaitEvents ==
  ASSUME EpollInv, EpollFacts, IInv, NEW w \in Threads, NEW f \in Fds, EpollWait(w, f)
  PROVE  EpollInv'
<1>1. /\ pc[w] = "epoll" /\ pc'[w] \in {"event", "event_err"} /\ thread_fd'[w] = f
      /\ \A u \in Threads : u # w => pc'[u] = pc[u] /\ thread_fd'[u] = thread_fd[u]
      /\ UNCHANGED <<target, next_conn_id, conn_fd, conn_list, skipped>>
      /\ epoll[f] = "armed" /\ epoll'[f] = "disarmed" /\ \A g \in Fds : g # f => epoll'[g] = epoll[g]
  BY DEF EpollWait, GoTo, EpollFacts, conn_vars, stop_vars
<1>2. \A g : (Reused(g)' <=> Reused(g)) /\ (Used(g)' <=> Used(g))
  BY <1>1 DEF Used, Reused
<1>3. \A u \in Threads, g \in Fds : HasEvent(u, g)' <=> (u = w /\ g = f) \/ (u # w /\ HasEvent(u, g))
  BY <1>1 DEF HasEvent, EventPCs
<1>4. ~Reused(f) => \A u \in Threads : ~HasEvent(u, f)
  BY <1>1 DEF EpollInv, EventsApart
<1>5. \A g \in Fds : HasEvent(w, g) <=> FALSE
  BY <1>1 DEF HasEvent, EventPCs
<1>6. FreshConns' /\ HasFd'
  BY <1>1 DEF EpollInv, FreshConns, HasFd, AddingPCs, CallerPCs
<1>7. OwnFd'
  BY <1>1 DEF EpollInv, OwnFd
<1>8. FdsUsed'
  BY <1>1, <1>2 DEF EpollInv, FdsUsed
<1>9. Unregistered'
  <2>1. ASSUME NEW u \in Threads, pc'[u] \in AddingPCs, NEW v \in Threads, v # u, pc'[v] \in AddingPCs
        PROVE  target[v] # target[u]
    BY <1>1, <2>1 DEF EpollInv, Unregistered, AddingPCs
  <2>2. ASSUME NEW u \in Threads, pc'[u] \in AddingPCs, NEW g \in Fds, g = thread_fd'[u], ~Reused(g)
        PROVE  epoll'[g] = "none" /\ \A v \in Threads : ~HasEvent(v, g)'
    <3>1. u # w /\ pc[u] \in AddingPCs /\ thread_fd[u] = g
      BY <1>1, <2>2 DEF AddingPCs
    <3>2. epoll[g] = "none" /\ \A v \in Threads : ~HasEvent(v, g)
      BY <2>2, <3>1 DEF EpollInv, Unregistered
    <3> QED
      BY <1>1, <1>3, <3>2
  <2> QED
    BY <1>1, <1>6, <2>1, <2>2 DEF Unregistered, HasFd, HasEvent, Reused
<1>10. EventsApart'
  <2> SUFFICES ASSUME NEW g \in Fds, NEW u \in Threads, HasEvent(u, g)', ~Reused(g)
               PROVE  epoll'[g] # "armed" /\ \A v \in Threads : HasEvent(v, g)' => v = u
    BY <1>2 DEF EventsApart
  <2>1. CASE g = f
    BY <1>1, <1>3, <1>4, <2>1
  <2>2. CASE g # f
    BY <1>1, <1>3, <2>2 DEF EpollInv, EventsApart
  <2> QED
    BY <2>1, <2>2
<1>11. \A d \in conn_list : conn_fd[d] \in Fds
  BY DEF IInv, Listed, Owned
<1> QED
  BY <1>6, <1>7, <1>8, <1>9, <1>10 DEF EpollInv

\* The lookup turns the descriptor number of an event into a connection.
LEMMA LookupEvents ==
  ASSUME EpollInv, EpollFacts, IInv, NEW w \in Threads, LookupEvent(w)
  PROVE  EpollInv'
<1>1. /\ pc[w] \in {"event", "event_err"} /\ pc'[w] \in {"unlink", "wake", "read"}
      /\ target'[w] \in conn_list /\ conn_fd[target'[w]] = thread_fd[w]
      /\ \A u \in Threads : u # w => pc'[u] = pc[u] /\ target'[u] = target[u]
      /\ UNCHANGED <<thread_fd, next_conn_id, conn_fd, conn_list, epoll, skipped>>
  BY DEF LookupEvent, GoTo, EpollFacts, conn_vars, stop_vars
<1>2. \A u \in Threads, g \in Fds : HasEvent(u, g)' => HasEvent(u, g)
  BY <1>1 DEF HasEvent, EventPCs
<1>3. FreshConns' /\ HasFd'
  BY <1>1 DEF EpollInv, FreshConns, HasFd, AddingPCs, EventPCs, CallerPCs
<1>4. OwnFd'
  BY <1>1 DEF EpollInv, OwnFd, EpollFacts
<1>5. FdsUsed'
  BY <1>1 DEF EpollInv, FdsUsed, Used
<1>6. Unregistered'
  <2>1. \A u \in Threads : pc'[u] \in AddingPCs => u # w /\ pc[u] \in AddingPCs /\ thread_fd[u] \in Fds
    BY <1>1 DEF AddingPCs, EpollInv, HasFd
  <2>2. ASSUME NEW u \in Threads, pc'[u] \in AddingPCs, ~Reused(thread_fd[u])
        PROVE  epoll[thread_fd[u]] = "none" /\ \A v \in Threads : ~HasEvent(v, thread_fd[u]) /\ ~(pc'[v] \in EventPCs /\ thread_fd[v] = thread_fd[u])
    BY <1>2, <2>1, <2>2, <1>1 DEF EpollInv, Unregistered, HasEvent
  <2>3. ASSUME NEW u \in Threads, pc'[u] \in AddingPCs, NEW v \in Threads, v # u, pc'[v] \in AddingPCs
        PROVE  target'[v] # target'[u]
    BY <1>1, <2>1, <2>3 DEF EpollInv, Unregistered
  <2> QED
    BY <1>1, <2>2, <2>3 DEF Unregistered, HasEvent, Reused
<1>7. EventsApart'
  BY <1>1, <1>2 DEF EpollInv, EventsApart, Reused
<1>8. \A d \in conn_list : conn_fd[d] \in Fds
  BY DEF IInv, Listed, Owned
<1> QED
  BY <1>3, <1>4, <1>5, <1>6, <1>7 DEF EpollInv

\* Re-arming ends the event of the one worker that had it.
LEMMA RearmEvents ==
  ASSUME EpollInv, EpollFacts, IInv, NEW w \in Threads, ReadWake(w) \/ WaitForNextMsg(w)
  PROVE  EpollInv'
<1> DEFINE f == thread_fd[w]
<1>1. /\ pc[w] \in {"wake", "rearm"} /\ pc'[w] \in {"exited", "process"}
      /\ (thread_fd'[w] = f /\ target'[w] = target[w]) \/ thread_fd'[w] = NoFd
      /\ \A u \in Threads : u # w => pc'[u] = pc[u] /\ target'[u] = target[u] /\ thread_fd'[u] = thread_fd[u]
      /\ UNCHANGED <<next_conn_id, conn_fd, conn_list, skipped>>
      /\ epoll' = Rearmed(f)
  BY DEF ReadWake, WaitForNextMsg, GoTo, EpollFacts, conn_vars, stop_vars
<1>2. f \in Fds /\ HasEvent(w, f)
  BY <1>1 DEF HasEvent, EventPCs, EpollInv, HasFd
<1>3. /\ epoll[f] # "none" => epoll'[f] = "armed"
      /\ epoll[f] = "none" => epoll'[f] = "none"
      /\ \A g \in Fds : g # f => epoll'[g] = epoll[g]
  BY <1>1, <1>2 DEF Rearmed, Registered, EpollFacts
<1>4. \A g : (Reused(g)' <=> Reused(g)) /\ (Used(g)' <=> Used(g))
  BY <1>1 DEF Used, Reused
<1>5. \A u \in Threads, g \in Fds : HasEvent(u, g)' => HasEvent(u, g) /\ u # w
  BY <1>1 DEF HasEvent, EventPCs
<1>6. FreshConns' /\ HasFd'
  BY <1>1 DEF EpollInv, FreshConns, HasFd, AddingPCs, EventPCs, CallerPCs
<1>7. OwnFd'
  BY <1>1 DEF EpollInv, OwnFd, EpollFacts
<1>8. FdsUsed'
  <2>1. \A g \in Fds : epoll'[g] # "none" => epoll[g] # "none"
    BY <1>3
  <2>2. \A u \in Threads : thread_fd'[u] \in Fds => thread_fd'[u] = thread_fd[u]
    BY <1>1 DEF EpollFacts
  <2> QED
    BY <1>4, <2>1, <2>2 DEF EpollInv, FdsUsed
<1>9. Unregistered'
  <2>1. \A u \in Threads : pc'[u] \in AddingPCs =>
          u # w /\ pc[u] \in AddingPCs /\ thread_fd[u] \in Fds /\ thread_fd'[u] = thread_fd[u] /\ target'[u] = target[u]
    BY <1>1 DEF AddingPCs, EpollInv, HasFd
  <2>2. ASSUME NEW u \in Threads, pc'[u] \in AddingPCs, NEW g \in Fds, g = thread_fd'[u], ~Reused(g)
        PROVE  epoll'[g] = "none" /\ \A v \in Threads : ~HasEvent(v, g)'
    BY <1>2, <1>3, <1>5, <2>1, <2>2 DEF EpollInv, Unregistered
  <2>3. ASSUME NEW u \in Threads, pc'[u] \in AddingPCs, NEW v \in Threads, v # u, pc'[v] \in AddingPCs
        PROVE  target'[v] # target'[u]
    BY <2>1, <2>3 DEF EpollInv, Unregistered
  <2> QED
    BY <1>1, <2>1, <2>2, <2>3 DEF Unregistered, HasEvent, Reused
<1>10. EventsApart'
  <2> SUFFICES ASSUME NEW g \in Fds, NEW u \in Threads, HasEvent(u, g)', ~Reused(g)
               PROVE  epoll'[g] # "armed" /\ \A v \in Threads : HasEvent(v, g)' => v = u
    BY <1>4 DEF EventsApart
  <2>1. HasEvent(u, g) /\ u # w /\ g # f
    BY <1>2, <1>5 DEF EpollInv, EventsApart
  <2> QED
    BY <1>3, <1>5, <2>1 DEF EpollInv, EventsApart
<1>11. \A d \in conn_list : conn_fd[d] \in Fds
  BY DEF IInv, Listed, Owned
<1> QED
  BY <1>6, <1>7, <1>8, <1>9, <1>10 DEF EpollInv

\* cceph_messenger_stop takes and arms nothing: it only writes to the pipe.
LEMMA StillEvents ==
  ASSUME EpollInv, UNCHANGED <<thread_vars, next_conn_id, conn_list, conn_fd, epoll, skipped>>
  PROVE  EpollInv'
<1> USE DEF thread_vars
<1>1. FreshConns' /\ FdsUsed' /\ OwnFd' /\ HasFd'
  BY DEF EpollInv, FreshConns, FdsUsed, OwnFd, HasFd, Used
<1>2. Unregistered' /\ EventsApart'
  BY DEF EpollInv, Unregistered, EventsApart, HasEvent, Reused
<1> QED
  BY <1>1, <1>2 DEF EpollInv

\* Every step keeps the invariant.
LEMMA EpollNext == IInv /\ IInv' /\ EpollInv /\ [Next]_vars => EpollInv'
<1> SUFFICES ASSUME IInv, IInv', EpollInv, [Next]_vars PROVE EpollInv'
  OBVIOUS
<1>0. EpollFacts /\ EpollFacts'
  BY WakeFdIsFd DEF IInv, TypeInv, TypeOK, EpollFacts, Threads
<1>1. ASSUME NEW t \in Threads, ThreadStep(t) PROVE EpollInv'
  <2>1. CASE Calm(t)
    BY <1>0, <2>1, CalmEvents
  <2>2. CASE AddStep(t)
    BY <1>0, <2>1, <2>2, CallsCalm, NewConnEvents, InsertEvents, EpollAddEvents DEF AddStep, Connect
  <2>3. CASE SendStep(t)
    BY <1>0, <2>1, <2>3, CallsCalm
  <2>4. CASE CloseStep(t)
    BY <1>0, <2>1, <2>4, CallsCalm, CloseEvents DEF CloseStep
  <2>5. CASE WorkStep(t)
    BY <1>0, <2>1, <2>5, WorkCalm, LookupEvents, RearmEvents DEF WorkStep, HandleStep
  <2> QED
    BY <1>1, <2>2, <2>3, <2>4, <2>5 DEF ThreadStep
<1>2. ASSUME NEW t \in Threads, NEW p \in Peers, GetConnFound(t, p) \/ GetConnMissing(t, p)
      PROVE  EpollInv'
  BY <1>0, <1>2, CallsCalm, CalmEvents
<1>3. ASSUME NEW t \in Threads, NEW p \in Peers, Accept(t, p) PROVE EpollInv'
  BY <1>0, <1>3, NewConnEvents DEF Accept
<1>4. ASSUME NEW w \in Workers, NEW f \in Fds, EpollWait(w, f) PROVE EpollInv'
  BY <1>0, <1>4, EpollWaitEvents DEF Threads
<1>5. CASE StopWrite \/ StopJoin \/ UNCHANGED vars
  BY <1>5, StillEvents DEF StopWrite, StopJoin, vars, conn_vars, stop_vars
<1> QED
  BY <1>1, <1>2, <1>3, <1>4, <1>5 DEF Next

\* The invariant holds in every reachable state.
LEMMA EpollAlways == Spec => []EpollInv
  BY IInvInit, IInvNext, EpollInit, EpollNext, PTL DEF Spec

\* Two workers never read one socket at once.
THEOREM ReadersApart == Spec => []OneReaderPerSocket
<1>1. EpollInv => OneReaderPerSocket
  <2> SUFFICES ASSUME EpollInv, NEW v \in Workers, NEW w \in Workers,
                      pc[v] \in {"event", "read", "rearm"}, pc[w] \in {"event", "read", "rearm"},
                      thread_fd[v] = thread_fd[w], ~Reused(thread_fd[v])
               PROVE  v = w
    BY DEF OneReaderPerSocket
  <2>1. v \in Threads /\ w \in Threads /\ thread_fd[v] \in Fds
    BY DEF Threads, EpollInv, HasFd, EventPCs
  <2> QED
    BY <2>1 DEF EpollInv, EventsApart, HasEvent, EventPCs
<1> QED
  BY <1>1, EpollAlways, PTL

----------------------------------------------------------------------------
(***************************************************************************)
(* What becomes of events.  EventInv holds whether numbers are reused or   *)
(* not: a number is registered only while some socket has it, so that a    *)
(* new connection starts unregistered, and from then on a listed one is    *)
(* registered, or about to be.  The exception is a number that is given    *)
(* out again before its first owner's epoll_ctl: the new owner is stray.   *)
(***************************************************************************)

\* The kernel drops a registration with the descriptor.
FreeUnregistered == \A f \in Fds : fd_owner[f] = FdFree => epoll[f] = "none"

\* A thread between list and epoll_ctl stands for the registration of c.
AboutToAdd(c) == \E t \in Threads : pc[t] = "epoll_add" /\ target[t] = c

ListedRegistered == \A c \in conn_list : epoll[conn_fd[c]] # "none" \/ AboutToAdd(c)

\* Until its own epoll_ctl a connection is unregistered, or stray.
NewUnregistered ==
  \A t \in Threads : pc[t] \in AddingPCs /\ fd_owner[thread_fd[t]] = target[t] /\ target[t] \notin stray
     => epoll[thread_fd[t]] = "none"

EventInv == FreeUnregistered /\ ListedRegistered /\ NewUnregistered /\ NoEventLost

\* What becomes of one connection's next event.
Kept(c) == \/ epoll[conn_fd[c]] = "armed"
           \/ AboutToAdd(c)
           \/ \E w \in Workers : HasEventOf(w, c)

\* NoEventLost says that it is kept.
LEMMA KeptIsNotLost == /\ NoEventLost <=> \A c \in conn_list \ (skipped \cup stray) : Kept(c)
                       /\ NoEventLost' <=> \A c \in conn_list' \ (skipped' \cup stray') : Kept(c)'
  BY DEF NoEventLost, Kept, AboutToAdd

\* After cceph_messenger_start the wake pipe is armed.
LEMMA EventInit == Init => EventInv
<1> SUFFICES ASSUME Init PROVE EventInv
  OBVIOUS
<1>1. /\ conn_fd[WakeConn] = WakeFd /\ epoll[WakeFd] = "armed" /\ conn_list = {WakeConn}
      /\ \A f \in Fds : fd_owner[f] = FdFree => f # WakeFd
      /\ \A f \in Fds : f # WakeFd => epoll[f] = "none"
      /\ \A t \in Threads : pc[t] \in {"idle", "epoll"}
  BY ConstFacts DEF Init
<1> QED
  BY <1>1 DEF EventInv, FreeUnregistered, ListedRegistered, NewUnregistered, NoEventLost, AddingPCs

\* What is listed has a descriptor of its own.
LEMMA ListedFacts ==
  ASSUME IInv
  PROVE  /\ \A c \in conn_list : c \in Conns /\ conn_fd[c] \in Fds /\ fd_owner[conn_fd[c]] = c /\ c # FdFree
         /\ \A c, d \in conn_list : conn_fd[c] = conn_fd[d] => c = d
  BY ConstFacts DEF IInv, Listed, Owned

\* A thread that is adding a connection has its descriptor number.
LEMMA AddingFacts ==
  ASSUME EpollInv, NEW t \in Threads, pc[t] \in AddingPCs
  PROVE  /\ target[t] \in Conns /\ thread_fd[t] \in Fds /\ conn_fd[target[t]] = thread_fd[t]
         /\ \A u \in Threads : u # t /\ pc[u] \in AddingPCs => target[u] # target[t]
  BY DEF EpollInv, OwnFd, HasFd, Unregistered, AddingPCs

\* Only t moves; registrations and their owners stay, and t gives up neither an
\* event nor an addition, except to skip the connection or take it off the list.
Steady(t) ==
  /\ \A u \in Threads : u # t => pc'[u] = pc[u] /\ target'[u] = target[u] /\ thread_fd'[u] = thread_fd[u]
  /\ UNCHANGED <<conn_fd, epoll, stray>>
  /\ \A f \in Fds : fd_owner'[f] = fd_owner[f] \/ (fd_owner[f] = FdFree /\ fd_owner'[f] = FdLeaked)
  /\ conn_list' \subseteq conn_list /\ skipped \subseteq skipped'
  /\ pc[t] # "epoll_add"
  /\ pc'[t] \in AddingPCs => pc[t] \in AddingPCs /\ target'[t] = target[t] /\ thread_fd'[t] = thread_fd[t]
  /\ \A c \in conn_list' \ skipped' : HasEventOf(t, c) => HasEventOf(t, c)'

\* A steady step loses no event.
LEMMA SteadyEvents ==
  ASSUME EventInv, EpollInv, EpollFacts, IInv, NEW t \in Threads, Steady(t)
  PROVE  EventInv'
<1>1. FreeUnregistered'
  BY ConstFacts DEF Steady, EventInv, FreeUnregistered
<1>2. \A c \in conn_list : AboutToAdd(c) => AboutToAdd(c)'
  BY DEF Steady, AboutToAdd
<1>3. ListedRegistered'
  BY <1>2 DEF Steady, EventInv, ListedRegistered
<1>4. NewUnregistered'
  <2> SUFFICES ASSUME NEW u \in Threads, pc'[u] \in AddingPCs, fd_owner'[thread_fd'[u]] = target'[u],
                      target'[u] \notin stray'
               PROVE  epoll'[thread_fd'[u]] = "none"
    BY DEF NewUnregistered
  <2>1. pc[u] \in AddingPCs /\ target'[u] = target[u] /\ thread_fd'[u] = thread_fd[u]
    BY DEF Steady
  <2>2. target[u] \in Conns /\ thread_fd[u] \in Fds /\ target[u] # FdLeaked
    BY <2>1, AddingFacts, ConstFacts
  <2>3. fd_owner[thread_fd[u]] = target[u]
    BY <2>1, <2>2 DEF Steady
  <2> QED
    BY <2>1, <2>3 DEF Steady, EventInv, NewUnregistered
<1>5. NoEventLost'
  <2> SUFFICES ASSUME NEW c \in conn_list' \ (skipped' \cup stray') PROVE Kept(c)'
    BY KeptIsNotLost
  <2>1. c \in conn_list \ (skipped \cup stray) /\ Kept(c)
    BY KeptIsNotLost DEF Steady, EventInv
  <2>2. ASSUME NEW w \in Workers, HasEventOf(w, c) PROVE HasEventOf(w, c)'
    <3>1. CASE w = t
      BY <2>2, <3>1 DEF Steady
    <3>2. CASE w # t
      BY <2>2, <3>2 DEF Steady, HasEventOf, Threads
    <3> QED
      BY <3>1, <3>2
  <2> QED
    BY <1>2, <2>1, <2>2 DEF Kept, Steady
<1> QED
  BY <1>1, <1>3, <1>4, <1>5 DEF EventInv

\* Most steps of get_conn, add_conn, send_msg and close_conn are steady.
LEMMA CallsSteady ==
  ASSUME EpollInv, EpollFacts, IInv, NEW t \in Threads,
         \/ \E p \in Peers : GetConnFound(t, p) \/ GetConnMissing(t, p)
         \/ ConnectFails(t) \/ AddReturn(t) \/ WaitToWrite(t) \/ SendStep(t)
         \/ CloseNotFound(t) \/ Unlink(t) \/ FreeConn(t)
  PROVE  Steady(t)
<1> USE DEF Steady, GoTo, conn_vars, stop_vars, AddingPCs, HasEventOf
<1>0. /\ pc \in [Threads -> PCs]
      /\ target \in [Threads -> Conns \cup {NoConn}]
      /\ thread_fd \in [Threads -> Fds \cup {NoFd}]
  BY DEF EpollFacts
<1>1. ASSUME Finish(t)
      PROVE  /\ \A u \in Threads : u # t => pc'[u] = pc[u] /\ target'[u] = target[u] /\ thread_fd'[u] = thread_fd[u]
             /\ pc'[t] \in {"idle", "epoll"}
  BY <1>0, <1>1 DEF Finish
<1>2. ASSUME NEW p \in Peers, GetConnFound(t, p) PROVE Steady(t)
  BY <1>0, <1>2 DEF GetConnFound
<1>3. ASSUME NEW p \in Peers, GetConnMissing(t, p) PROVE Steady(t)
  BY <1>0, <1>3 DEF GetConnMissing
<1>4. CASE ConnectFails(t)
  <2>1. \A f \in Fds : fd_owner'[f] = fd_owner[f] \/ (fd_owner[f] = FdFree /\ fd_owner'[f] = FdLeaked)
    BY <1>4 DEF ConnectFails, EpollFacts
  <2>2. pc[t] = "connect" /\ Finish(t) /\ UNCHANGED <<conn_fd, epoll, stray, conn_list, skipped>>
    BY <1>4 DEF ConnectFails
  <2> QED
    BY <1>1, <2>1, <2>2
<1>5. CASE AddReturn(t)
  <2>1. CASE t \in Callers
    BY <1>0, <1>5, <2>1 DEF AddReturn
  <2>2. CASE t \notin Callers
    BY <1>1, <1>5, <2>2 DEF AddReturn
  <2> QED
    BY <2>1, <2>2
<1>6. CASE WaitToWrite(t)
  BY <1>0, <1>6 DEF WaitToWrite
<1>7. CASE SendStep(t)
  <2>1. CASE SendNotFound(t)
    BY <1>1, <2>1 DEF SendNotFound
  <2>2. CASE SendFind(t)
    BY <1>0, <2>2 DEF SendFind
  <2>3. CASE SendLock(t)
    BY <1>0, <2>3 DEF SendLock
  <2>4. CASE SendSeesClosed(t)
    BY <1>1, <2>4 DEF SendSeesClosed
  <2>5. CASE SendOk(t)
    BY <1>1, <2>5 DEF SendOk
  <2>6. CASE SendFails(t)
    BY <1>0, <2>6 DEF SendFails
  <2> QED
    BY <1>7, <2>1, <2>2, <2>3, <2>4, <2>5, <2>6 DEF SendStep, SendBegins
<1>8. CASE CloseNotFound(t)
  BY <1>1, <1>8 DEF CloseNotFound
<1>9. CASE Unlink(t)
  BY <1>0, <1>9 DEF Unlink
<1>10. CASE FreeConn(t)
  BY <1>1, <1>10 DEF FreeConn
<1> QED
  BY <1>2, <1>3, <1>4, <1>5, <1>6, <1>7, <1>8, <1>9, <1>10

\* So are the steps of a worker that neither take nor re-arm an event.
LEMMA WorkSteady ==
  ASSUME EpollInv, EpollFacts, IInv, NEW w \in Threads,
         LookupEvent(w) \/ LookupMissing(w) \/ ReadStep(w) \/ ProcessAndReply(w) \/ ProcessOnly(w)
  PROVE  Steady(w)
<1> USE DEF Steady, GoTo, conn_vars, stop_vars, AddingPCs, HasEventOf
<1>0. /\ pc \in [Threads -> PCs]
      /\ target \in [Threads -> Conns \cup {NoConn}]
      /\ thread_fd \in [Threads -> Fds \cup {NoFd}]
  BY DEF EpollFacts
<1>1. ASSUME Finish(w)
      PROVE  /\ \A u \in Threads : u # w => pc'[u] = pc[u] /\ target'[u] = target[u] /\ thread_fd'[u] = thread_fd[u]
             /\ pc'[w] \in {"idle", "epoll"}
  BY <1>0, <1>1 DEF Finish
<1>2. CASE LookupEvent(w)
  <2>1. /\ pc[w] \in {"event", "event_err"} /\ pc'[w] \in {"unlink", "wake", "read"}
        /\ target'[w] \in conn_list /\ conn_fd[target'[w]] = thread_fd[w]
        /\ \A u \in Threads : u # w => pc'[u] = pc[u] /\ target'[u] = target[u]
        /\ UNCHANGED <<thread_fd, conn_fd, conn_list, epoll, skipped, stray, fd_owner>>
    BY <1>0, <1>2 DEF LookupEvent
  <2>2. \A c \in conn_list : thread_fd[w] = conn_fd[c] => target'[w] = c
    BY <2>1, ListedFacts
  <2> QED
    BY <2>1, <2>2
<1>3. CASE LookupMissing(w)
  BY <1>1, <1>3 DEF LookupMissing
<1>4. CASE ReadMsg(w)
  BY <1>0, <1>4 DEF ReadMsg
<1>5. CASE ReadClosed(w)
  BY <1>0, <1>5 DEF ReadClosed
<1>6. CASE ReadUnknownOp(w)
  BY <1>1, <1>6 DEF ReadUnknownOp
<1>7. CASE ReadNotImpl(w)
  BY <1>0, <1>7 DEF ReadNotImpl
<1>8. CASE ProcessAndReply(w)
  BY <1>0, <1>8 DEF ProcessAndReply
<1>9. CASE ProcessOnly(w)
  BY <1>1, <1>9 DEF ProcessOnly
<1> QED
  BY <1>2, <1>3, <1>4, <1>5, <1>6, <1>7, <1>8, <1>9 DEF ReadStep

\* The descriptor of a new connection was free, so it is not registered.
LEMMA NewConnKept ==
  ASSUME EventInv, EpollInv, EpollFacts, IInv, NEW t \in Threads, NEW p, NEW f \in Fds, NewConn(t, p, f),
         pc[t] \in {"idle", "connect"}
  PROVE  EventInv'
<1> DEFINE c == next_conn_id + 1
<1>1. /\ c \in Conns /\ c \notin conn_list /\ c # FdFree
      /\ fd_owner[f] = FdFree /\ fd_owner'[f] = c /\ \A g \in Fds : g # f => fd_owner'[g] = fd_owner[g]
      /\ \A d \in Conns : d # c => conn_fd'[d] = conn_fd[d]
      /\ UNCHANGED <<conn_list, epoll, skipped, stray>>
  <2>1. c \in Conns /\ ~(c <= next_conn_id)
    BY MaxConnBound, ConstFacts DEF NewConn, Conns, EpollFacts
  <2>2. c \notin conn_list /\ c # FdFree
    BY <2>1, ConstFacts DEF IInv, IdsGiven
  <2> QED
    BY <2>1, <2>2 DEF NewConn, EpollFacts, stop_vars
<1>2. /\ pc'[t] = "insert" /\ target'[t] = c /\ thread_fd'[t] = f
      /\ \A u \in Threads : u # t => pc'[u] = pc[u] /\ target'[u] = target[u] /\ thread_fd'[u] = thread_fd[u]
  BY DEF NewConn, GoTo, EpollFacts
<1>3. \A u \in Threads : u # t => target[u] # c
  BY <1>1, ConstFacts DEF EpollFacts, IInv, IdsGiven
<1>4. FreeUnregistered'
  BY <1>1 DEF EventInv, FreeUnregistered
<1>5. \A d \in conn_list : conn_fd'[d] = conn_fd[d] /\ (AboutToAdd(d) => AboutToAdd(d)')
  BY <1>1, <1>2, ListedFacts DEF AboutToAdd
<1>6. ListedRegistered'
  BY <1>1, <1>5 DEF EventInv, ListedRegistered
<1>7. NewUnregistered'
  <2> SUFFICES ASSUME NEW u \in Threads, pc'[u] \in AddingPCs, fd_owner'[thread_fd'[u]] = target'[u],
                      target'[u] \notin stray'
               PROVE  epoll'[thread_fd'[u]] = "none"
    BY DEF NewUnregistered
  <2>1. CASE u = t
    BY <1>1, <1>2, <2>1 DEF EventInv, FreeUnregistered
  <2>2. CASE u # t
    <3>1. pc[u] \in AddingPCs /\ thread_fd[u] \in Fds /\ target[u] # c
      BY <1>2, <1>3, <2>2, AddingFacts
    <3>2. fd_owner[thread_fd[u]] = target[u]
      BY <1>1, <1>2, <2>2, <3>1
    <3> QED
      BY <1>1, <1>2, <2>2, <3>1, <3>2 DEF EventInv, NewUnregistered
  <2> QED
    BY <2>1, <2>2
<1>8. NoEventLost'
  <2> SUFFICES ASSUME NEW d \in conn_list \ (skipped \cup stray) PROVE Kept(d)'
    BY <1>1, KeptIsNotLost
  <2>1. Kept(d)
    BY KeptIsNotLost DEF EventInv
  <2>2. ASSUME NEW w \in Workers, HasEventOf(w, d) PROVE HasEventOf(w, d)'
    <3>1. w # t
      BY <2>2 DEF HasEventOf
    <3> QED
      BY <1>2, <1>5, <2>2, <3>1 DEF HasEventOf, Threads
  <2> QED
    BY <1>1, <1>5, <2>1, <2>2 DEF Kept
<1> QED
  BY <1>4, <1>6, <1>7, <1>8 DEF EventInv

\* add_conn lists the connection; it will register it next.
LEMMA InsertKept ==
  ASSUME EventInv, EpollInv, EpollFacts, IInv, NEW t \in Threads, InsertConn(t)
  PROVE  EventInv'
<1>1. /\ pc[t] = "insert_wait" /\ pc'[t] = "epoll_add" /\ conn_list' = conn_list \cup {target[t]}
      /\ \A u \in Threads : u # t => pc'[u] = pc[u]
      /\ UNCHANGED <<target, thread_fd, conn_fd, fd_owner, epoll, skipped, stray>>
  BY DEF InsertConn, GoTo, EpollFacts, conn_vars, stop_vars
<1>2. AboutToAdd(target[t])' /\ \A c \in conn_list : AboutToAdd(c) => AboutToAdd(c)'
  BY <1>1 DEF AboutToAdd
<1>3. FreeUnregistered' /\ ListedRegistered'
  BY <1>1, <1>2 DEF EventInv, FreeUnregistered, ListedRegistered
<1>4. NewUnregistered'
  BY <1>1 DEF EventInv, NewUnregistered, AddingPCs
<1>5. \A c \in conn_list, w \in Workers : HasEventOf(w, c) => HasEventOf(w, c)'
  BY <1>1 DEF HasEventOf, Threads
<1>6. NoEventLost'
  <2> SUFFICES ASSUME NEW c \in conn_list' \ (skipped \cup stray) PROVE Kept(c)'
    BY <1>1, KeptIsNotLost
  <2>1. CASE c = target[t]
    BY <1>1, <1>2, <2>1 DEF Kept, AboutToAdd
  <2>2. CASE c \in conn_list
    <3>1. Kept(c)
      BY <2>2, KeptIsNotLost DEF EventInv
    <3> QED
      BY <1>1, <1>2, <1>5, <2>2, <3>1 DEF Kept
  <2> QED
    BY <1>1, <2>1, <2>2
<1> QED
  BY <1>3, <1>4, <1>6 DEF EventInv

\* EPOLL_CTL_ADD: a listed connection that is not stray is armed, and the other
\* one that has its number by now becomes stray.
LEMMA EpollAddKept ==
  ASSUME EventInv, EpollInv, EpollFacts, IInv, NEW t \in Threads, EpollAdd(t)
  PROVE  EventInv'
<1> DEFINE f == thread_fd[t]
<1>1. /\ pc[t] = "epoll_add" /\ pc'[t] = "add_return"
      /\ \A u \in Threads : u # t => pc'[u] = pc[u]
      /\ UNCHANGED <<target, thread_fd, conn_fd, conn_list, skipped, fd_owner>>
  BY DEF EpollAdd, GoTo, EpollFacts, conn_vars
<1>2. target[t] \in Conns /\ f \in Fds /\ conn_fd[target[t]] = f
  BY <1>1, AddingFacts DEF AddingPCs
<1>3. /\ \A g \in Fds : g # f => epoll'[g] = epoll[g]
      /\ epoll'[f] \in {epoll[f], "armed"} /\ stray \subseteq stray'
  BY <1>2 DEF EpollAdd, EpollFacts
<1>4. fd_owner[f] # FdFree /\ epoll[f] = "none" =>
         epoll'[f] = "armed" /\ stray' = stray \cup {c \in Conns \ {target[t]} : fd_owner[f] = c}
  BY <1>2 DEF EpollAdd, EpollFacts
<1>5. ~(fd_owner[f] # FdFree /\ epoll[f] = "none") => UNCHANGED <<epoll, stray>>
  BY DEF EpollAdd
<1>6. FreeUnregistered'
  BY <1>1, <1>3, <1>5 DEF EventInv, FreeUnregistered
<1>7. \A c \in conn_list : c # target[t] => (AboutToAdd(c) => AboutToAdd(c)')
  BY <1>1 DEF AboutToAdd
<1>8. ListedRegistered'
  <2> SUFFICES ASSUME NEW c \in conn_list PROVE epoll'[conn_fd[c]] # "none" \/ AboutToAdd(c)'
    BY <1>1 DEF ListedRegistered
  <2>1. conn_fd[c] \in Fds /\ (c = target[t] => fd_owner[f] # FdFree)
    BY <1>2, ListedFacts
  <2>2. CASE c = target[t]
    BY <1>2, <1>4, <1>5, <2>1, <2>2
  <2>3. CASE c # target[t]
    BY <1>3, <1>7, <2>1, <2>3 DEF EventInv, ListedRegistered
  <2> QED
    BY <2>2, <2>3
<1>9. NewUnregistered'
  <2> SUFFICES ASSUME NEW u \in Threads, pc'[u] \in AddingPCs, fd_owner[thread_fd[u]] = target[u],
                      target[u] \notin stray'
               PROVE  epoll'[thread_fd[u]] = "none"
    BY <1>1 DEF NewUnregistered
  <2>1. u # t /\ pc[u] \in AddingPCs
    BY <1>1 DEF AddingPCs
  <2>2. target[u] \in Conns /\ thread_fd[u] \in Fds /\ target[u] # target[t] /\ target[u] # FdFree
    BY <1>1, <2>1, AddingFacts, ConstFacts DEF AddingPCs
  <2>3. epoll[thread_fd[u]] = "none"
    BY <1>3, <2>1 DEF EventInv, NewUnregistered
  <2>4. thread_fd[u] # f
    BY <1>4, <2>2, <2>3
  <2> QED
    BY <1>3, <2>2, <2>3, <2>4
<1>10. NoEventLost'
  <2> SUFFICES ASSUME NEW c \in conn_list \ (skipped \cup stray') PROVE Kept(c)'
    BY <1>1, KeptIsNotLost
  <2>1. conn_fd[c] \in Fds /\ fd_owner[conn_fd[c]] = c /\ c # FdFree
    BY ListedFacts
  <2>2. CASE c = target[t]
    <3>1. fd_owner[f] = target[t] /\ target[t] \notin stray /\ pc[t] \in AddingPCs
      BY <1>1, <1>2, <1>3, <2>1, <2>2 DEF AddingPCs
    <3>2. epoll[f] = "none"
      BY <3>1 DEF EventInv, NewUnregistered
    <3> QED
      BY <1>1, <1>2, <1>4, <2>1, <2>2, <3>2 DEF Kept
  <2>3. CASE c # target[t]
    <3>1. Kept(c)
      BY <1>3, KeptIsNotLost DEF EventInv
    <3>2. ASSUME NEW w \in Workers, HasEventOf(w, c) PROVE HasEventOf(w, c)'
      <4>1. w # t
        BY <1>1, <3>2 DEF HasEventOf
      <4> QED
        BY <1>1, <3>2, <4>1 DEF HasEventOf, Threads
    <3>3. epoll[conn_fd[c]] = "armed" => epoll'[conn_fd[c]] = "armed"
      BY <1>3, <2>1
    <3> QED
      BY <1>1, <1>7, <2>3, <3>1, <3>2, <3>3 DEF Kept
  <2> QED
    BY <2>2, <2>3
<1> QED
  BY <1>6, <1>8, <1>9, <1>10 DEF EventInv

\* close_conn drops the registration of a connection off the list.
LEMMA CloseKept ==
  ASSUME EventInv, EpollInv, EpollFacts, IInv, NEW t \in Threads, CloseFd(t)
  PROVE  EventInv'
<1> DEFINE f == conn_fd[target[t]]
<1>1. /\ pc[t] = "close" /\ pc'[t] = "free" /\ target[t] \notin conn_list /\ f \in Fds /\ fd_owner[f] = target[t]
      /\ \A u \in Threads : u # t => pc'[u] = pc[u]
      /\ UNCHANGED <<target, thread_fd, conn_fd, conn_list, skipped, stray>>
      /\ epoll'[f] = "none" /\ \A g \in Fds : g # f => epoll'[g] = epoll[g]
      /\ fd_owner'[f] = FdFree /\ \A g \in Fds : g # f => fd_owner'[g] = fd_owner[g]
  BY DEF CloseFd, GoTo, EpollFacts, conn_vars, stop_vars, IInv, Closing, Owned
<1>2. \A c \in conn_list : conn_fd[c] \in Fds /\ conn_fd[c] # f /\ (AboutToAdd(c) => AboutToAdd(c)')
  BY <1>1, ListedFacts DEF AboutToAdd
<1>3. FreeUnregistered'
  BY <1>1 DEF EventInv, FreeUnregistered
<1>4. ListedRegistered'
  BY <1>1, <1>2 DEF EventInv, ListedRegistered
<1>5. NewUnregistered'
  <2> SUFFICES ASSUME NEW u \in Threads, pc'[u] \in AddingPCs, fd_owner'[thread_fd[u]] = target[u],
                      target[u] \notin stray
               PROVE  epoll'[thread_fd[u]] = "none"
    BY <1>1 DEF NewUnregistered
  <2>1. pc[u] \in AddingPCs
    BY <1>1 DEF AddingPCs
  <2>2. thread_fd[u] \in Fds
    BY <2>1, AddingFacts
  <2> QED
    BY <1>1, <2>1, <2>2 DEF EventInv, NewUnregistered
<1>6. NoEventLost'
  <2> SUFFICES ASSUME NEW c \in conn_list \ (skipped \cup stray) PROVE Kept(c)'
    BY <1>1, KeptIsNotLost
  <2>1. Kept(c)
    BY KeptIsNotLost DEF EventInv
  <2>2. \A w \in Workers : HasEventOf(w, c) => HasEventOf(w, c)'
    BY <1>1 DEF HasEventOf, Threads
  <2> QED
    BY <1>1, <1>2, <2>1, <2>2 DEF Kept
<1> QED
  BY <1>3, <1>4, <1>5, <1>6 DEF EventInv

\* epoll_wait hands the event to a worker.
LEMMA EpollWaitKept ==
  ASSUME EventInv, EpollInv, EpollFacts, IInv, NEW w \in Workers, NEW f \in Fds, EpollWait(w, f)
  PROVE  EventInv'
<1>1. /\ pc[w] = "epoll" /\ pc'[w] \in {"event", "event_err"} /\ thread_fd'[w] = f
      /\ \A u \in Threads : u # w => pc'[u] = pc[u] /\ thread_fd'[u] = thread_fd[u]
      /\ UNCHANGED <<target, conn_fd, conn_list, skipped, stray, fd_owner>>
      /\ epoll[f] = "armed" /\ epoll'[f] = "disarmed" /\ \A g \in Fds : g # f => epoll'[g] = epoll[g]
  BY DEF EpollWait, GoTo, EpollFacts, conn_vars, stop_vars
<1>2. \A c : AboutToAdd(c) => AboutToAdd(c)'
  BY <1>1 DEF AboutToAdd
<1>3. \A g \in Fds : epoll'[g] = "none" <=> epoll[g] = "none"
  BY <1>1
<1>4. FreeUnregistered'
  BY <1>1, <1>3 DEF EventInv, FreeUnregistered
<1>5. ListedRegistered'
  BY <1>1, <1>2, <1>3, ListedFacts DEF EventInv, ListedRegistered
<1>6. NewUnregistered'
  <2> SUFFICES ASSUME NEW u \in Threads, pc'[u] \in AddingPCs, fd_owner[thread_fd'[u]] = target[u],
                      target[u] \notin stray
               PROVE  epoll'[thread_fd'[u]] = "none"
    BY <1>1 DEF NewUnregistered
  <2>1. u # w /\ pc[u] \in AddingPCs /\ thread_fd'[u] = thread_fd[u]
    BY <1>1 DEF AddingPCs
  <2>2. thread_fd[u] \in Fds
    BY <2>1, AddingFacts
  <2> QED
    BY <1>3, <2>1, <2>2 DEF EventInv, NewUnregistered
<1>7. NoEventLost'
  <2> SUFFICES ASSUME NEW c \in conn_list \ (skipped \cup stray) PROVE Kept(c)'
    BY <1>1, KeptIsNotLost
  <2>1. Kept(c) /\ conn_fd[c] \in Fds
    BY KeptIsNotLost, ListedFacts DEF EventInv
  <2>2. CASE conn_fd[c] = f
    <3>1. HasEventOf(w, c)'
      BY <1>1, <2>2 DEF HasEventOf
    <3> QED
      BY <3>1 DEF Kept
  <2>3. CASE conn_fd[c] # f
    <3>1. ASSUME NEW v \in Workers, HasEventOf(v, c) PROVE HasEventOf(v, c)'
      <4>1. v # w
        BY <1>1, <3>1 DEF HasEventOf
      <4> QED
        BY <1>1, <3>1, <4>1 DEF HasEventOf, Threads
    <3> QED
      BY <1>1, <1>2, <2>1, <2>3, <3>1 DEF Kept
  <2> QED
    BY <2>2, <2>3
<1> QED
  BY <1>4, <1>5, <1>6, <1>7 DEF EventInv

\* Re-arming: what is listed is registered, so it is armed from now on.
LEMMA RearmKept ==
  ASSUME EventInv, EpollInv, EpollFacts, IInv, NEW w \in Threads, ReadWake(w) \/ WaitForNextMsg(w)
  PROVE  EventInv'
<1> DEFINE f == thread_fd[w]
<1>1. /\ pc[w] \in {"wake", "rearm"} /\ pc'[w] \in {"exited", "process"}
      /\ \A u \in Threads : u # w => pc'[u] = pc[u] /\ target'[u] = target[u] /\ thread_fd'[u] = thread_fd[u]
      /\ UNCHANGED <<conn_fd, conn_list, skipped, stray, fd_owner>>
      /\ epoll' = Rearmed(f)
  BY DEF ReadWake, WaitForNextMsg, GoTo, EpollFacts, conn_vars, stop_vars
<1>2. f \in Fds
  BY <1>1 DEF EventPCs, EpollInv, HasFd
<1>3. /\ epoll[f] # "none" => epoll'[f] = "armed"
      /\ epoll[f] = "none" => epoll'[f] = "none"
      /\ \A g \in Fds : g # f => epoll'[g] = epoll[g]
  BY <1>1, <1>2 DEF Rearmed, Registered, EpollFacts
<1>4. \A g \in Fds : (epoll'[g] = "none" <=> epoll[g] = "none") /\ (epoll[g] = "armed" => epoll'[g] = "armed")
  BY <1>3
<1>5. \A c : AboutToAdd(c) => AboutToAdd(c)'
  BY <1>1 DEF AboutToAdd
<1>6. FreeUnregistered'
  BY <1>1, <1>4 DEF EventInv, FreeUnregistered
<1>7. ListedRegistered'
  BY <1>1, <1>4, <1>5, ListedFacts DEF EventInv, ListedRegistered
<1>8. NewUnregistered'
  <2> SUFFICES ASSUME NEW u \in Threads, pc'[u] \in AddingPCs, fd_owner[thread_fd'[u]] = target'[u],
                      target'[u] \notin stray
               PROVE  epoll'[thread_fd'[u]] = "none"
    BY <1>1 DEF NewUnregistered
  <2>1. u # w /\ pc[u] \in AddingPCs /\ thread_fd'[u] = thread_fd[u] /\ target'[u] = target[u]
    BY <1>1 DEF AddingPCs
  <2>2. thread_fd[u] \in Fds
    BY <2>1, AddingFacts
  <2> QED
    BY <1>4, <2>1, <2>2 DEF EventInv, NewUnregistered
<1>9. NoEventLost'
  <2> SUFFICES ASSUME NEW c \in conn_list \ (skipped \cup stray) PROVE Kept(c)'
    BY <1>1, KeptIsNotLost
  <2>1. Kept(c) /\ conn_fd[c] \in Fds /\ (epoll[conn_fd[c]] # "none" \/ AboutToAdd(c))
    BY KeptIsNotLost, ListedFacts DEF EventInv, ListedRegistered
  <2>2. CASE conn_fd[c] = f
    BY <1>1, <1>3, <1>5, <2>1, <2>2 DEF Kept
  <2>3. CASE conn_fd[c] # f
    <3>1. ASSUME NEW v \in Workers, HasEventOf(v, c) PROVE HasEventOf(v, c)'
      <4>1. v # w
        BY <2>3, <3>1 DEF HasEventOf
      <4> QED
        BY <1>1, <3>1, <4>1 DEF HasEventOf, Threads
    <3> QED
      BY <1>1, <1>4, <1>5, <2>1, <3>1 DEF Kept
  <2> QED
    BY <2>2, <2>3
<1> QED
  BY <1>6, <1>7, <1>8, <1>9 DEF EventInv

\* cceph_messenger_stop takes and arms nothing: it only writes to the pipe.
LEMMA StillKept ==
  ASSUME EventInv, UNCHANGED <<thread_vars, conn_list, conn_fd, fd_owner, epoll, skipped, stray>>
  PROVE  EventInv'
<1> USE DEF thread_vars
<1>1. FreeUnregistered' /\ ListedRegistered' /\ NewUnregistered'
  BY DEF EventInv, FreeUnregistered, ListedRegistered, NewUnregistered, AboutToAdd
<1>2. NoEventLost'
  BY DEF EventInv, NoEventLost, HasEventOf
<1> QED
  BY <1>1, <1>2 DEF EventInv

\* Every step keeps the invariant.
LEMMA EventNext == IInv /\ EpollInv /\ EventInv /\ [Next]_vars => EventInv'
<1> SUFFICES ASSUME IInv, EpollInv, EventInv, [Next]_vars PROVE EventInv'
  OBVIOUS
<1>0. EpollFacts
  BY EpollTypes DEF IInv
<1>1. ASSUME NEW t \in Threads, ThreadStep(t) PROVE EventInv'
  <2>1. CASE Steady(t)
    BY <1>0, <2>1, SteadyEvents
  <2>2. CASE AddStep(t)
    BY <1>0, <2>1, <2>2, CallsSteady, NewConnKept, InsertKept, EpollAddKept DEF AddStep, Connect
  <2>3. CASE SendStep(t)
    BY <1>0, <2>1, <2>3, CallsSteady
  <2>4. CASE CloseStep(t)
    BY <1>0, <2>1, <2>4, CallsSteady, CloseKept DEF CloseStep
  <2>5. CASE WorkStep(t)
    BY <1>0, <2>1, <2>5, WorkSteady, RearmKept DEF WorkStep, HandleStep
  <2> QED
    BY <1>1, <2>2, <2>3, <2>4, <2>5 DEF ThreadStep
<1>2. ASSUME NEW t \in Threads, NEW p \in Peers, GetConnFound(t, p) \/ GetConnMissing(t, p)
      PROVE  EventInv'
  BY <1>0, <1>2, CallsSteady, SteadyEvents
<1>3. ASSUME NEW t \in Threads, NEW p \in Peers, Accept(t, p) PROVE EventInv'
  BY <1>0, <1>3, NewConnKept DEF Accept
<1>4. ASSUME NEW w \in Workers, NEW f \in Fds, EpollWait(w, f) PROVE EventInv'
  BY <1>0, <1>4, EpollWaitKept
<1>5. CASE StopWrite \/ StopJoin \/ UNCHANGED vars
  BY <1>5, StillKept DEF StopWrite, StopJoin, vars, conn_vars, stop_vars
<1> QED
  BY <1>1, <1>2, <1>3, <1>4, <1>5 DEF Next

\* No one-shot event is lost, whatever is closed and whoever gets a number next:
\* a listed connection that no worker skipped, and that no other connection's
\* epoll_ctl registered, is armed or somebody's work.
THEOREM EventsKept == Spec => []NoEventLost
<1>1. EventInv => NoEventLost
  BY DEF EventInv
<1>2. Spec => []EventInv
  BY IInvInit, IInvNext, EpollInit, EpollNext, EventInit, EventNext, PTL DEF Spec
<1> QED
  BY <1>1, <1>2, PTL
=============================================================================
