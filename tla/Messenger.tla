------------------------------ MODULE Messenger ------------------------------
(***************************************************************************)
(* The messenger, src/message/messenger.c: a list of connections under a   *)
(* read-write lock, a mutex in each connection, and one epoll set with     *)
(* one-shot registrations that a pool of worker threads waits on.          *)
(*                                                                         *)
(* Callers call cceph_messenger_get_conn and then cceph_messenger_send_msg,*)
(* as the client does; Acceptors call cceph_messenger_add_conn for sockets *)
(* that accept gave them, as server_messenger.c does; Workers run          *)
(* start_epoll, and may send while they process a message, as the OSD does.*)
(*                                                                         *)
(* conn_list_lock is held for writing only inside one critical section, so *)
(* that section is an action and no variable is needed for the writer.  It *)
(* is held for reading across a blocking call in send_msg alone, while the *)
(* thread waits for conn->lock: the threads at pc "lock" are its readers.  *)
(* Writers are preferred: no reader gets in while a writer waits.          *)
(***************************************************************************)
EXTENDS Naturals, FiniteSets

CONSTANTS Callers, Acceptors, Workers,
          Peers,        \* the host:port pairs
          Fds,          \* descriptor numbers, reused by the kernel once closed
          WakeFd,       \* messenger->wake_thread_pipe_fd[0]
          MaxConn       \* bound: ids of connections go up to MaxConn

Threads == Callers \cup Acceptors \cup Workers

NoConn   == 0
WakeConn == 2             \* next_conn_id starts at 1 and add_conn increments first
Conns    == WakeConn .. MaxConn
FdFree   == 0             \* a descriptor number not in use
FdLeaked == 1             \* the socket of a connect that failed
NoFd     == "nofd"
NoPeer   == "nopeer"
NoThread == "nothread"

ASSUME ThreadSetsDisjoint == /\ Callers \cap Acceptors = {}
                             /\ Callers \cap Workers = {}
                             /\ Acceptors \cap Workers = {}
ASSUME NoThreadIsNone == NoThread \notin Threads
ASSUME WakeFdIsFd     == WakeFd \in Fds /\ NoFd \notin Fds
ASSUME MaxConnBound   == MaxConn \in Nat /\ MaxConn >= WakeConn
ASSUME NoPeerIsNone   == NoPeer \notin Peers

VARIABLES
  \* threads
  pc,           \* pc[t]: where thread t is
  target,       \* target[t]: the connection t works on, as a pointer or as an id
  thread_fd,    \* thread_fd[t]: the local fd of add_conn or of start_epoll
  thread_peer,  \* thread_peer[t]: the peer get_conn is looking for
  \* the cceph_messenger
  state,        \* messenger->state
  next_conn_id, \* messenger->next_conn_id
  conn_list,    \* the ids on messenger->conn_list
  \* the cceph_connections, by id
  mem,          \* mem[c]: not allocated yet, live, or freed
  conn_fd,      \* conn_fd[c]: c->fd
  conn_peer,    \* conn_peer[c]: c->host, c->port
  conn_closed,  \* conn_closed[c]: c->state = CCEPH_CONN_STATE_CLOSED
  lock,         \* lock[c]: the thread that holds c->lock
  \* the kernel
  fd_owner,     \* fd_owner[f]: the connection whose socket f is, FdFree or FdLeaked
  epoll,        \* epoll[f]: registration of f in the epoll set
  stops,        \* STOP bytes in the wake pipe
  skipped,      \* the connections a worker gave up reading without closing them
  stray,        \* the connections that the epoll_ctl of another one registered
  \* cceph_messenger_stop, called by a thread of its own
  stop_pc,      \* where that thread is
  stop_writes   \* its loop variable i

thread_vars == <<pc, target, thread_fd, thread_peer>>
conn_vars   == <<mem, conn_fd, conn_peer, conn_closed>>
stop_vars   == <<stops, stop_pc, stop_writes, skipped, stray>>
vars == <<thread_vars, state, next_conn_id, conn_list, conn_vars, lock, fd_owner, epoll, stop_vars>>

CallerPCs == {"idle", "connect"}                      \* outside; get_conn found nothing
AddPCs    == {"insert", "insert_wait", "epoll_add", "add_return"}   \* add_conn
SendPCs   == {"find", "lock", "write"}                \* send_msg
ClosePCs  == {"unlink", "unlink_wait", "close", "free"}   \* close_conn
WorkerPCs == {"epoll", "event", "event_err", "wake", "read", "rearm", "process", "exited",
              "crashed"}
PCs == CallerPCs \cup AddPCs \cup SendPCs \cup ClosePCs \cup WorkerPCs

TypeOK ==
  /\ pc \in [Threads -> PCs]
  /\ target \in [Threads -> Conns \cup {NoConn}]
  /\ thread_fd \in [Threads -> Fds \cup {NoFd}]
  /\ thread_peer \in [Threads -> Peers \cup {NoPeer}]
  /\ state \in {"NORMAL", "DESTORY"}
  /\ next_conn_id \in Conns
  /\ conn_list \subseteq Conns
  /\ mem \in [Conns -> {"none", "live", "freed"}]
  /\ conn_fd \in [Conns -> Fds \cup {NoFd}]
  /\ conn_peer \in [Conns -> Peers \cup {NoPeer}]
  /\ conn_closed \in [Conns -> BOOLEAN]
  /\ lock \in [Conns -> Threads \cup {NoThread}]
  /\ fd_owner \in [Fds -> Conns \cup {FdFree, FdLeaked}]
  /\ epoll \in [Fds -> {"none", "armed", "disarmed"}]
  /\ stops \in Nat
  /\ skipped \subseteq Conns
  /\ stray \subseteq Conns
  /\ stop_pc \in {"running", "stopping", "stopped"}
  /\ stop_writes \in Nat

\* After cceph_messenger_start: the wake pipe is the only connection.  A worker
\* starts in epoll_wait.
Init ==
  /\ pc = [t \in Threads |-> IF t \in Workers THEN "epoll" ELSE "idle"]
  /\ target = [t \in Threads |-> NoConn]
  /\ thread_fd = [t \in Threads |-> NoFd]
  /\ thread_peer = [t \in Threads |-> NoPeer]
  /\ state = "NORMAL"
  /\ next_conn_id = WakeConn
  /\ conn_list = {WakeConn}
  /\ mem = [c \in Conns |-> IF c = WakeConn THEN "live" ELSE "none"]
  /\ conn_fd = [c \in Conns |-> IF c = WakeConn THEN WakeFd ELSE NoFd]
  /\ conn_peer = [c \in Conns |-> NoPeer]
  /\ conn_closed = [c \in Conns |-> FALSE]
  /\ lock = [c \in Conns |-> NoThread]
  /\ fd_owner = [f \in Fds |-> IF f = WakeFd THEN WakeConn ELSE FdFree]
  /\ epoll = [f \in Fds |-> IF f = WakeFd THEN "armed" ELSE "none"]
  /\ stops = 0
  /\ skipped = {}
  /\ stray = {}
  /\ stop_pc = "running"
  /\ stop_writes = 0

ListReaders == {t \in Threads : pc[t] = "lock"}
ListWriters == {t \in Threads : pc[t] \in {"insert_wait", "unlink_wait"}}

\* pthread_rwlock_rdlock and _wrlock of conn_list_lock return.  The kind
\* PREFER_WRITER_NONRECURSIVE is set when the messenger is made.
\* mutation: the default kind, readers get in past waiting writers.
ReadersPreferred == TRUE
\* mutation: send_msg gives the list lock up before it waits for conn->lock.
ReadersDoNotHold == TRUE
CanRead == ListWriters = {}

CanWrite == ListReaders = {}

GoTo(t, label) == pc' = [pc EXCEPT ![t] = label]

\* The outermost call of t is over: back to the application or to epoll_wait.
Finish(t) ==
  /\ GoTo(t, IF t \in Workers THEN "epoll" ELSE "idle")
  /\ target' = [target EXCEPT ![t] = NoConn]
  /\ thread_fd' = [thread_fd EXCEPT ![t] = NoFd]
  /\ thread_peer' = [thread_peer EXCEPT ![t] = NoPeer]

(***************************************************************************)
(* cceph_messenger_get_conn and cceph_messenger_add_conn.                  *)
(***************************************************************************)

\* A connection to p is listed; get_conn returns its id and send_msg follows.
GetConnFound(t, p) ==
  /\ pc[t] = "idle" /\ t \in Callers /\ stop_pc = "running"
  /\ CanRead
  /\ \E c \in conn_list : conn_peer[c] = p /\ target' = [target EXCEPT ![t] = c]
  /\ GoTo(t, "find")
  /\ UNCHANGED <<thread_fd, thread_peer, state, next_conn_id, conn_list, conn_vars, lock,
                 fd_owner, epoll, stop_vars>>

\* None is; the list lock is given up and t goes on to connect.
GetConnMissing(t, p) ==
  /\ pc[t] = "idle" /\ t \in Callers /\ stop_pc = "running"
  /\ CanRead
  /\ \A c \in conn_list : conn_peer[c] # p
  /\ thread_peer' = [thread_peer EXCEPT ![t] = p]
  /\ GoTo(t, "connect")
  /\ UNCHANGED <<target, thread_fd, state, next_conn_id, conn_list, conn_vars, lock,
                 fd_owner, epoll, stop_vars>>

\* connect fails: the error is returned, the socket is not closed.
ConnectFails(t) ==
  /\ pc[t] = "connect"
  /\ \/ \E f \in Fds : fd_owner[f] = FdFree /\ fd_owner' = [fd_owner EXCEPT ![f] = FdLeaked]
     \/ UNCHANGED fd_owner          \* socket() itself failed
  /\ Finish(t)
  /\ UNCHANGED <<state, next_conn_id, conn_list, conn_vars, lock, epoll, stop_vars>>

\* add_conn up to the list lock: malloc, id, fields.  c->state is whatever the
\* allocated memory held before.
NewConn(t, p, f) ==
  /\ fd_owner[f] = FdFree
  /\ next_conn_id < MaxConn
  /\ next_conn_id' = next_conn_id + 1
  /\ mem' = [mem EXCEPT ![next_conn_id + 1] = "live"]
  /\ conn_fd' = [conn_fd EXCEPT ![next_conn_id + 1] = f]
  /\ conn_peer' = [conn_peer EXCEPT ![next_conn_id + 1] = p]
  /\ \E garbage \in BOOLEAN :
        conn_closed' = [conn_closed EXCEPT ![next_conn_id + 1] = garbage]
  /\ fd_owner' = [fd_owner EXCEPT ![f] = next_conn_id + 1]
  /\ target' = [target EXCEPT ![t] = next_conn_id + 1]
  /\ thread_fd' = [thread_fd EXCEPT ![t] = f]
  /\ GoTo(t, "insert")
  /\ UNCHANGED <<thread_peer, state, conn_list, lock, epoll, stop_vars>>

Connect(t) == /\ pc[t] = "connect"
              /\ \E f \in Fds : NewConn(t, thread_peer[t], f)

\* bind_and_listen: accept returns a socket of peer p, add_conn is called.
Accept(t, p) == /\ pc[t] = "idle" /\ t \in Acceptors /\ stop_pc = "running"
                /\ \E f \in Fds : NewConn(t, p, f)

\* pthread_rwlock_wrlock is called, in add_conn or close_conn.
WaitToWrite(t) ==
  /\ \/ pc[t] = "insert" /\ GoTo(t, "insert_wait")
     \/ pc[t] = "unlink" /\ GoTo(t, "unlink_wait")
  /\ UNCHANGED <<target, thread_fd, thread_peer, state, next_conn_id, conn_list, conn_vars,
                 lock, fd_owner, epoll, stop_vars>>

InsertConn(t) ==
  /\ pc[t] = "insert_wait"
  /\ CanWrite
  /\ conn_list' = conn_list \cup {target[t]}
  /\ GoTo(t, "epoll_add")
  /\ UNCHANGED <<target, thread_fd, thread_peer, state, next_conn_id, conn_vars, lock,
                 fd_owner, epoll, stop_vars>>

\* EPOLL_CTL_ADD of the descriptor number: EBADF if it is closed by now, EEXIST
\* if it is registered already.  The error check can never be true.  A number
\* that was closed and given out again is registered for its new owner.
EpollAdd(t) ==
  /\ pc[t] = "epoll_add"
  /\ LET f == thread_fd[t] IN
     IF fd_owner[f] # FdFree /\ epoll[f] = "none"
       THEN /\ epoll' = [epoll EXCEPT ![f] = "armed"]
            /\ stray' = stray \cup {c \in Conns \ {target[t]} : fd_owner[f] = c}
       ELSE UNCHANGED <<epoll, stray>>
  /\ GoTo(t, "add_return")
  /\ UNCHANGED <<target, thread_fd, thread_peer, state, next_conn_id, conn_list, conn_vars,
                 lock, fd_owner, stops, stop_pc, stop_writes, skipped>>

\* "return conn->id": if the connection was freed meanwhile the value is junk,
\* which send_msg will not find.
AddReturn(t) ==
  /\ pc[t] = "add_return"
  /\ \/ /\ t \in Callers
        /\ GoTo(t, "find")
        /\ target' = [target EXCEPT ![t] = IF mem[@] = "live" THEN @ ELSE NoConn]
        /\ thread_fd' = [thread_fd EXCEPT ![t] = NoFd]
        /\ thread_peer' = [thread_peer EXCEPT ![t] = NoPeer]
     \/ /\ t \notin Callers
        /\ Finish(t)
  /\ UNCHANGED <<state, next_conn_id, conn_list, conn_vars, lock, fd_owner, epoll, stop_vars>>

(***************************************************************************)
(* cceph_messenger_send_msg.                                               *)
(***************************************************************************)

\* CCEPH_ERR_CONN_NOT_FOUND.
SendNotFound(t) ==
  /\ pc[t] = "find"
  /\ CanRead
  /\ target[t] \notin conn_list
  /\ Finish(t)
  /\ UNCHANGED <<state, next_conn_id, conn_list, conn_vars, lock, fd_owner, epoll, stop_vars>>

\* Found: wait for conn->lock with the list lock held for reading.
SendFind(t) ==
  /\ pc[t] = "find"
  /\ CanRead
  /\ target[t] \in conn_list
  /\ GoTo(t, "lock")
  /\ UNCHANGED <<target, thread_fd, thread_peer, state, next_conn_id, conn_list, conn_vars,
                 lock, fd_owner, epoll, stop_vars>>

\* conn->lock obtained, list lock released, connection not closed.
SendLock(t) ==
  /\ pc[t] = "lock"
  /\ lock[target[t]] = NoThread
  /\ ~conn_closed[target[t]]
  /\ lock' = [lock EXCEPT ![target[t]] = t]
  /\ GoTo(t, "write")
  /\ UNCHANGED <<target, thread_fd, thread_peer, state, next_conn_id, conn_list, conn_vars,
                 fd_owner, epoll, stop_vars>>

\* CCEPH_ERR_CONN_CLOSED: both locks are released, nothing is closed.
SendSeesClosed(t) ==
  /\ pc[t] = "lock"
  /\ lock[target[t]] = NoThread
  /\ conn_closed[target[t]]
  /\ Finish(t)
  /\ UNCHANGED <<state, next_conn_id, conn_list, conn_vars, lock, fd_owner, epoll, stop_vars>>

SendOk(t) ==
  /\ pc[t] = "write"
  /\ lock' = [lock EXCEPT ![target[t]] = NoThread]
  /\ Finish(t)
  /\ UNCHANGED <<state, next_conn_id, conn_list, conn_vars, fd_owner, epoll, stop_vars>>

\* mutation: the descriptor is closed at once, the connection unlinked later.
SendFailsClosingFd(t) ==
  /\ pc[t] = "write"
  /\ conn_closed' = [conn_closed EXCEPT ![target[t]] = TRUE]
  /\ lock' = [lock EXCEPT ![target[t]] = NoThread]
  /\ fd_owner' = [fd_owner EXCEPT ![conn_fd[target[t]]] = FdFree]
  /\ GoTo(t, "unlink")
  /\ UNCHANGED <<target, thread_fd, thread_peer, state, next_conn_id, conn_list, mem, conn_fd,
                 conn_peer, epoll, stop_vars>>

\* write_message fails part way; close_conn follows once the lock is released.
SendFails(t) ==
  /\ pc[t] = "write"
  /\ conn_closed' = [conn_closed EXCEPT ![target[t]] = TRUE]
  /\ lock' = [lock EXCEPT ![target[t]] = NoThread]
  /\ GoTo(t, "unlink")
  /\ UNCHANGED <<target, thread_fd, thread_peer, state, next_conn_id, conn_list, mem, conn_fd,
                 conn_peer, fd_owner, epoll, stop_vars>>

(***************************************************************************)
(* cceph_messenger_close_conn.                                             *)
(***************************************************************************)

CloseNotFound(t) ==
  /\ pc[t] = "unlink_wait"
  /\ CanWrite
  /\ target[t] \notin conn_list
  /\ Finish(t)
  /\ UNCHANGED <<state, next_conn_id, conn_list, conn_vars, lock, fd_owner, epoll, stop_vars>>

\* mutation: the connection is looked up first and the write lock taken after,
\* so it may have been unlinked in between.
UnlinkStale(t) ==
  /\ pc[t] = "unlink_wait"
  /\ CanWrite
  /\ mem[target[t]] = "live"
  /\ conn_list' = conn_list \ {target[t]}
  /\ GoTo(t, "close")
  /\ UNCHANGED <<target, thread_fd, thread_peer, state, next_conn_id, conn_vars, lock,
                 fd_owner, epoll, stop_vars>>

\* mutation: the descriptor is not closed.
UnlinkWithoutClose(t) ==
  /\ pc[t] = "unlink_wait"
  /\ CanWrite
  /\ target[t] \in conn_list
  /\ conn_list' = conn_list \ {target[t]}
  /\ GoTo(t, "free")
  /\ UNCHANGED <<target, thread_fd, thread_peer, state, next_conn_id, conn_vars, lock,
                 fd_owner, epoll, stop_vars>>

Unlink(t) ==
  /\ pc[t] = "unlink_wait"
  /\ CanWrite
  /\ target[t] \in conn_list
  /\ conn_list' = conn_list \ {target[t]}
  /\ GoTo(t, "close")
  /\ UNCHANGED <<target, thread_fd, thread_peer, state, next_conn_id, conn_vars, lock,
                 fd_owner, epoll, stop_vars>>

\* mutation: close without conn->lock.
CloseFdUnlocked(t) ==
  /\ pc[t] = "close"
  /\ fd_owner' = [fd_owner EXCEPT ![conn_fd[target[t]]] = FdFree]
  /\ epoll' = [epoll EXCEPT ![conn_fd[target[t]]] = "none"]
  /\ GoTo(t, "free")
  /\ UNCHANGED <<target, thread_fd, thread_peer, state, next_conn_id, conn_list, conn_vars,
                 lock, stop_vars>>

\* Under conn->lock.  The kernel drops the registration with the descriptor.
CloseFd(t) ==
  /\ pc[t] = "close"
  /\ lock[target[t]] = NoThread
  /\ fd_owner' = [fd_owner EXCEPT ![conn_fd[target[t]]] = FdFree]
  /\ epoll' = [epoll EXCEPT ![conn_fd[target[t]]] = "none"]
  /\ GoTo(t, "free")
  /\ UNCHANGED <<target, thread_fd, thread_peer, state, next_conn_id, conn_list, conn_vars,
                 lock, stop_vars>>

FreeConn(t) ==
  /\ pc[t] = "free"
  /\ mem' = [mem EXCEPT ![target[t]] = "freed"]
  /\ Finish(t)
  /\ UNCHANGED <<state, next_conn_id, conn_list, conn_fd, conn_peer, conn_closed, lock,
                 fd_owner, epoll, stop_vars>>

(***************************************************************************)
(* start_epoll.                                                            *)
(***************************************************************************)

\* mutation: no EPOLLONESHOT.
EpollWaitLevel(w, f) ==
  /\ pc[w] = "epoll"
  /\ epoll[f] = "armed"
  /\ f = WakeFd => stops > 0
  /\ thread_fd' = [thread_fd EXCEPT ![w] = f]
  /\ \/ GoTo(w, "event")
     \/ f # WakeFd /\ GoTo(w, "event_err")
  /\ UNCHANGED <<target, thread_peer, state, next_conn_id, conn_list, conn_vars, lock,
                 fd_owner, epoll, stop_vars>>

\* epoll_wait returns one event, which disarms its one-shot registration.  A
\* peer may send or hang up at any time; the wake pipe has an event when it
\* holds a STOP.
EpollWait(w, f) ==
  /\ pc[w] = "epoll"
  /\ epoll[f] = "armed"
  /\ f = WakeFd => stops > 0
  /\ epoll' = [epoll EXCEPT ![f] = "disarmed"]
  /\ thread_fd' = [thread_fd EXCEPT ![w] = f]
  /\ \/ GoTo(w, "event")
     \/ f # WakeFd /\ GoTo(w, "event_err")
  /\ UNCHANGED <<target, thread_peer, state, next_conn_id, conn_list, conn_vars, lock,
                 fd_owner, stop_vars>>

\* Look the connection up by its descriptor and keep only the id.
LookupEvent(w) ==
  /\ pc[w] \in {"event", "event_err"}
  /\ CanRead
  /\ \E c \in conn_list :
        /\ conn_fd[c] = thread_fd[w]
        /\ target' = [target EXCEPT ![w] = c]
  /\ GoTo(w, IF pc[w] = "event_err" THEN "unlink"
             ELSE IF thread_fd[w] = WakeFd THEN "wake" ELSE "read")
  /\ UNCHANGED <<thread_fd, thread_peer, state, next_conn_id, conn_list, conn_vars, lock,
                 fd_owner, epoll, stop_vars>>

\* The connection is gone: the event is dropped.
LookupMissing(w) ==
  /\ pc[w] \in {"event", "event_err"}
  /\ CanRead
  /\ \A c \in conn_list : conn_fd[c] # thread_fd[w]
  /\ Finish(w)
  /\ UNCHANGED <<state, next_conn_id, conn_list, conn_vars, lock, fd_owner, epoll, stop_vars>>

Registered(f) == epoll[f] # "none"
\* mutation: the registration is not re-armed.
NotRearmed(f) == epoll
Rearmed(f) == IF Registered(f) THEN [epoll EXCEPT ![f] = "armed"] ELSE epoll

\* Read one STOP, re-arm the pipe for the next worker, leave the loop.
ReadWake(w) ==
  /\ pc[w] = "wake"
  /\ stops > 0
  /\ stops' = stops - 1
  /\ epoll' = Rearmed(thread_fd[w])
  /\ GoTo(w, "exited")
  /\ target' = [target EXCEPT ![w] = NoConn]
  /\ thread_fd' = [thread_fd EXCEPT ![w] = NoFd]
  /\ UNCHANGED <<thread_peer, state, next_conn_id, conn_list, conn_vars, lock, fd_owner,
                 stop_pc, stop_writes, skipped, stray>>

\* A whole message is read, from whatever socket the descriptor is by now.
ReadMsg(w) ==
  /\ pc[w] = "read"
  /\ fd_owner[thread_fd[w]] # FdFree
  /\ GoTo(w, "rearm")
  /\ UNCHANGED <<target, thread_fd, thread_peer, state, next_conn_id, conn_list, conn_vars,
                 lock, fd_owner, epoll, stop_vars>>

\* The peer closed, or recv failed: close_conn.
ReadClosed(w) ==
  /\ pc[w] = "read"
  /\ GoTo(w, "unlink")
  /\ UNCHANGED <<target, thread_fd, thread_peer, state, next_conn_id, conn_list, conn_vars,
                 lock, fd_owner, epoll, stop_vars>>

\* An op the switch does not know: neither closed nor re-armed.
ReadUnknownOp(w) ==
  /\ pc[w] = "read"
  /\ fd_owner[thread_fd[w]] # FdFree
  /\ skipped' = skipped \cup {target[w]}
  /\ Finish(w)
  /\ UNCHANGED <<state, next_conn_id, conn_list, conn_vars, lock, fd_owner, epoll,
                 stops, stop_pc, stop_writes, stray>>

\* READ or READ_ACK: assert("Not Impl" != 0) does not fire, ret is 0 and the
\* message NULL, and the log line dereferences it.  The process is gone.
ReadNotImpl(w) ==
  /\ pc[w] = "read"
  /\ fd_owner[thread_fd[w]] # FdFree
  /\ GoTo(w, "crashed")
  /\ UNCHANGED <<target, thread_fd, thread_peer, state, next_conn_id, conn_list, conn_vars,
                 lock, fd_owner, epoll, stop_vars>>

\* wait_for_next_msg; its error check can never be true.
WaitForNextMsg(w) ==
  /\ pc[w] = "rearm"
  /\ epoll' = Rearmed(thread_fd[w])
  /\ GoTo(w, "process")
  /\ UNCHANGED <<target, thread_fd, thread_peer, state, next_conn_id, conn_list, conn_vars,
                 lock, fd_owner, stop_vars>>

\* msg_process: the OSD's sends an ack to the connection, the client's does not.
ProcessAndReply(w) ==
  /\ pc[w] = "process"
  /\ GoTo(w, "find")
  /\ UNCHANGED <<target, thread_fd, thread_peer, state, next_conn_id, conn_list, conn_vars,
                 lock, fd_owner, epoll, stop_vars>>
ProcessOnly(w) ==
  /\ pc[w] = "process"
  /\ Finish(w)
  /\ UNCHANGED <<state, next_conn_id, conn_list, conn_vars, lock, fd_owner, epoll, stop_vars>>

(***************************************************************************)
(* cceph_messenger_stop.                                                   *)
(***************************************************************************)

\* One STOP per worker.  The asserts on messenger->state make it the duty of the
\* application to have no call in progress and to start none from here on; the
\* server calls stop from the thread that was in accept.
StopWrite ==
  /\ \/ stop_pc = "running" /\ \A t \in Callers \cup Acceptors : pc[t] = "idle"
     \/ stop_pc = "stopping"
  /\ stop_writes < Cardinality(Workers)
  /\ stop_pc' = "stopping"
  /\ stop_writes' = stop_writes + 1
  /\ stops' = stops + 1
  /\ UNCHANGED <<thread_vars, state, next_conn_id, conn_list, conn_vars, lock, fd_owner,
                 epoll, skipped, stray>>

\* mutation: state is set before the threads are joined.
StopNotJoined ==
  /\ stop_pc = "stopping"
  /\ stop_writes = Cardinality(Workers)
  /\ stop_pc' = "stopped"
  /\ state' = "DESTORY"
  /\ UNCHANGED <<thread_vars, next_conn_id, conn_list, conn_vars, lock, fd_owner, epoll,
                 stops, stop_writes, skipped, stray>>

\* All pthread_joins have returned.
StopJoin ==
  /\ stop_pc = "stopping"
  /\ stop_writes = Cardinality(Workers)
  /\ \A w \in Workers : pc[w] = "exited"
  /\ stop_pc' = "stopped"
  /\ state' = "DESTORY"
  /\ UNCHANGED <<thread_vars, next_conn_id, conn_list, conn_vars, lock, fd_owner, epoll,
                 stops, stop_writes, skipped, stray>>

(***************************************************************************)
(* The specification.                                                      *)
(***************************************************************************)

AddStep(t)    == ConnectFails(t) \/ Connect(t) \/ WaitToWrite(t) \/ InsertConn(t) \/ EpollAdd(t) \/ AddReturn(t)
SendBegins(t) == SendNotFound(t) \/ SendFind(t) \/ SendLock(t) \/ SendSeesClosed(t)
SendStep(t)   == SendBegins(t) \/ SendOk(t) \/ SendFails(t)
CloseStep(t)  == CloseNotFound(t) \/ Unlink(t) \/ CloseFd(t) \/ FreeConn(t)
ReadStep(w)   == ReadMsg(w) \/ ReadClosed(w) \/ ReadUnknownOp(w) \/ ReadNotImpl(w)
HandleStep(w) == \/ LookupEvent(w) \/ LookupMissing(w) \/ ReadWake(w)
                 \/ WaitForNextMsg(w) \/ ProcessAndReply(w) \/ ProcessOnly(w)
WorkStep(w)   == HandleStep(w) \/ ReadStep(w)

\* What a thread in a call does next, and what of it no peer can hold up.
ThreadStep(t) == AddStep(t) \/ SendStep(t) \/ CloseStep(t) \/ WorkStep(t)
LocalStep(t)  == AddStep(t) \/ SendBegins(t) \/ CloseStep(t) \/ HandleStep(t)

\* The process has not crashed.
Running == \A t \in Threads : pc[t] # "crashed"

Next ==
  /\ Running
  /\ \/ \E t \in Threads : ThreadStep(t)
     \/ \E t \in Threads, p \in Peers : GetConnFound(t, p) \/ GetConnMissing(t, p) \/ Accept(t, p)
     \/ \E w \in Workers, f \in Fds : EpollWait(w, f)
     \/ StopWrite \/ StopJoin

Spec == Init /\ [][Next]_vars

\* While the process runs: threads that can run do; a mutex is not kept from one
\* waiter for ever; epoll_wait returns the ready wake pipe in its turn, to some
\* worker.  A read or a write is up to the peer, and nothing is assumed of it.
Fairness ==
  /\ \A t \in Threads : WF_vars(Running /\ LocalStep(t))
  /\ \A t \in Callers \cup Workers : SF_vars(Running /\ (SendLock(t) \/ SendSeesClosed(t)))
  /\ SF_vars(Running /\ \E w \in Workers : EpollWait(w, WakeFd))
  /\ WF_vars(Running /\ StopJoin)
  /\ WF_vars(Running /\ stop_pc = "stopping" /\ StopWrite)

FairSpec == Spec /\ Fairness

(***************************************************************************)
(* Safety.                                                                 *)
(***************************************************************************)

\* Threads that use target[t] as a pointer: after a lookup with a lock held, or
\* after taking the connection off the list.
HoldsPointer(t) == pc[t] \in {"insert", "insert_wait", "lock", "write", "close", "free"}

\* send_msg and close_conn never touch a freed connection, though they take
\* conn->lock of a connection that another thread may be closing.
NoUseAfterFree == \A t \in Threads : HoldsPointer(t) => mem[target[t]] = "live"

\* However many threads decide to close a connection, one closes and frees it.
OneCloser ==
  \A t, u \in Threads :
     pc[t] \in {"close", "free"} /\ pc[u] \in {"close", "free"} /\ target[t] = target[u]
        => t = u

\* A listed connection is allocated and its descriptor is its own open socket,
\* so get_conn_by_fd, the worker's lookup, has one answer at most.
ListedConnsOwnTheirFd ==
  \A c \in conn_list : mem[c] = "live" /\ fd_owner[conn_fd[c]] = c

\* write_message runs on the connection's own open socket, one thread at a time:
\* the descriptor is not closed, nor reused for another peer, under the writer,
\* and two messages do not mix on the wire.
WritesAreExclusive ==
  \A t \in Threads : pc[t] = "write" =>
     /\ fd_owner[conn_fd[target[t]]] = target[t]
     /\ \A u \in Threads : pc[u] = "write" /\ target[u] = target[t] => u = t

\* Every open socket is on the list or in the hands of a thread that is adding
\* or closing it; only a failed connect leaks one.
OpenFdsAreManaged ==
  \A f \in Fds : fd_owner[f] \in Conns =>
     \/ fd_owner[f] \in conn_list
     \/ \E t \in Threads : pc[t] \in {"insert", "insert_wait", "close"} /\ target[t] = fd_owner[f]

\* The asserts of add_conn, get_conn and send_msg on messenger->state never fire:
\* a worker may be anywhere in its loop when stop is called, and may yet send
\* replies, but the state leaves NORMAL only when every worker has returned.
StateAsserts ==
  state # "NORMAL" => \A t \in Threads : pc[t] \notin {"connect", "insert", "find", "process"}

\* The descriptor number has served more than one connection so far.
Reused(f) == \E c, d \in Conns : c # d /\ conn_fd[c] = f /\ conn_fd[d] = f

\* The one-shot registrations keep workers apart: two never read one socket at
\* once, unless the kernel has given its number out again while a worker held
\* an event of the old connection.
OneReaderPerSocket ==
  \A v, w \in Workers :
     /\ pc[v] \in {"event", "read", "rearm"} /\ pc[w] \in {"event", "read", "rearm"}
     /\ thread_fd[v] = thread_fd[w] /\ ~Reused(thread_fd[v])
     => v = w

\* Worker w is where the next event of c stands: it took the last one off the
\* descriptor and will re-arm or close c when it is through.
HasEventOf(w, c) ==
  /\ thread_fd[w] = conn_fd[c]
  /\ \/ pc[w] \in {"event", "event_err"}
     \/ pc[w] \in {"wake", "read", "rearm", "unlink", "unlink_wait", "crashed"} /\ target[w] = c

\* No one-shot event is lost, whatever is closed meanwhile and whoever gets the
\* number next: a listed connection is armed, or about to be registered, or a
\* worker has its event.  Two kinds of connection are never read again: those
\* that sent an unknown op, and those that got the number of a connection
\* closed before its own epoll_ctl, which then registered them too early.
NoEventLost ==
  \A c \in conn_list \ (skipped \cup stray) :
     \/ epoll[conn_fd[c]] = "armed"
     \/ \E t \in Threads : pc[t] = "epoll_add" /\ target[t] = c
     \/ \E w \in Workers : HasEventOf(w, c)

\* messenger.c:258 "conn can NOT be used with conn_list_lock or conn->lock, it
\* may be freed": "return conn->id" at the end of add_conn uses it regardless.
AddConnReturnsLiveConn ==
  \A t \in Threads : pc[t] = "add_return" => mem[target[t]] = "live"

(***************************************************************************)
(* Liveness.                                                               *)
(***************************************************************************)

\* What the peers owe: no thread stays in write_message or in read_message.
WritesEnd == \A t \in Threads : []<>(pc[t] # "write")
ReadsEnd  == \A w \in Workers : []<>(pc[w] # "read")

\* Inside get_conn, add_conn, send_msg or close_conn.
InCall(t) == pc[t] \in {"connect"} \cup AddPCs \cup SendPCs \cup ClosePCs

\* If peers go on reading, every call returns, of applications and of workers
\* that reply: no thread stays blocked on the list lock or on conn->lock, though
\* senders wait for conn->lock with the list lock held, and writers, which those
\* senders hold up, go before the readers.
CallsReturn ==
  <>[]Running /\ WritesEnd => \A t \in Threads : []<>~InCall(t)

\* cceph_messenger_stop returns, if no peer keeps a worker in a read or a write:
\* each worker gets a STOP of its own.
StopReturns ==
  <>[]Running /\ WritesEnd /\ ReadsEnd => []<>(stop_pc # "stopping")
=============================================================================
