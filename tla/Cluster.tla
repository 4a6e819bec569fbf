------------------------------ MODULE Cluster ------------------------------
(***************************************************************************)
(* The client together with the OSDs that answer it.  The client's steps   *)
(* are those of Client; what Client takes from its environment, an ack of  *)
(* any OSD that was reached, is here what the OSDs do                      *)
(* (osd/osd_msg_process.c): read a request, write it to the file of the    *)
(* object, send one ack on the connection the request came by.             *)
(*                                                                         *)
(* A worker of an OSD lets the next one read its socket before it handles  *)
(* what it read, so the requests of one connection are handled in any      *)
(* order.  A connection that is closed loses the messages on it; a process *)
(* that ends loses the requests it had not finished, and keeps its files.  *)
(* All writes are to one object, at one offset, of one length.             *)
(***************************************************************************)
EXTENDS Client

CONSTANT BadDisks   \* the OSDs where a write may fail, or fall short

ASSUME BadDisksAreOSDs == BadDisks \subseteq OSDs

VARIABLES
  requests,   \* pairs <<r, o>>: request r sent to OSD o and not handled yet
  written,    \* pairs <<r, o>>: o has written r, or failed to, and not yet answered
  acks,       \* acks[r][o]: the acks of r by o on their way
  log,        \* log[o]: the writes to the object's file at o, in their order
  known       \* history: known[r]: pairs <<q, o>>, o had acknowledged q, and the
              \* call for q had returned CCEPH_OK, when the call for r began

osd_vars == <<requests, written, acks, log>>
cluster_vars == <<vars, osd_vars, known>>

\* What came of a write at o: was it whole?
Outcomes(o) == IF o \in BadDisks THEN BOOLEAN ELSE {TRUE}

ClusterInit ==
  /\ Init
  /\ requests = {}
  /\ written = {}
  /\ acks = [r \in Requests |-> [o \in OSDs |-> 0]]
  /\ log = [o \in OSDs |-> << >>]
  /\ known = [r \in Requests |-> {}]

\* The OSDs that have handled request r.
Wrote(r) == {o \in OSDs : \E k \in 1 .. Len(log[o]) : log[o][k].req = r}

----------------------------------------------------------------------------
\* The client

BeginWrite(w) ==
  /\ NewReq(w)
  /\ known' = [known EXCEPT ![req_id'] =
                 {p \in Requests \X OSDs : result[p[1]] = "OK" /\ p[2] \in acked[p[1]]}]
  /\ UNCHANGED osd_vars

SendToOsd(w) ==
  /\ SendReqToOsd(w)
  /\ requests' = requests \cup {<<req[w], next_osd[w]>>}
  /\ UNCHANGED <<written, acks, log, known>>

WriterGoesOn(w) ==
  /\ \/ AddReqToWaitList(w) \/ SendReqFails(w) \/ SendLoopEnds(w)
     \/ RemoveReqFromWaitList(w)
     \/ ReqFinished(w) \/ CondWait(w) \/ RecheckFails(w)
  /\ UNCHANGED <<osd_vars, known>>

WakeSpuriously(w) == SpuriousWakeup(w) /\ UNCHANGED <<osd_vars, known>>

RecvAck(r, o) ==
  /\ acks[r][o] > 0
  /\ DoObjectWriteAck(r, o)
  /\ acks' = [acks EXCEPT ![r][o] = @ - 1]
  /\ UNCHANGED <<requests, written, log, known>>

----------------------------------------------------------------------------
\* An OSD: do_object_write_req

\* mutation: the ack goes out before the write.
AckThenWrite(r, o, whole) ==
  \/ /\ <<r, o>> \in requests \ written
     /\ written' = written \cup {<<r, o>>}
     /\ acks' = [acks EXCEPT ![r][o] = @ + 1]
     /\ whole
     /\ UNCHANGED <<vars, requests, log, known>>
  \/ /\ <<r, o>> \in requests \cap written
     /\ requests' = requests \ {<<r, o>>}
     /\ written' = written \ {<<r, o>>}
     /\ log' = [log EXCEPT ![o] = Append(@, [req |-> r, whole |-> whole])]
     /\ UNCHANGED <<vars, acks, known>>

\* io_write_object: open, pwrite, close.  A pwrite that fails or falls short is
\* logged and put in the ack, where the client does not look.
IoWriteObject(r, o, whole) ==
  /\ <<r, o>> \in requests
  /\ requests' = requests \ {<<r, o>>}
  /\ written' = written \cup {<<r, o>>}
  /\ log' = [log EXCEPT ![o] = Append(@, [req |-> r, whole |-> whole])]
  /\ UNCHANGED <<vars, acks, known>>

\* mutation: a worker that has sent its ack keeps the request and sends again.
SendAckAgain(r, o) ==
  /\ <<r, o>> \in written
  /\ acks[r][o] < 2
  /\ acks' = [acks EXCEPT ![r][o] = @ + 1]
  /\ UNCHANGED <<vars, requests, written, log, known>>

SendAck(r, o) ==
  /\ <<r, o>> \in written
  /\ written' = written \ {<<r, o>>}
  /\ acks' = [acks EXCEPT ![r][o] = @ + 1]
  /\ UNCHANGED <<vars, requests, log, known>>

\* The connection of the request is gone: the ack is freed.
SendAckFails(r, o) ==
  /\ <<r, o>> \in written
  /\ written' = written \ {<<r, o>>}
  /\ UNCHANGED <<vars, requests, acks, log, known>>

----------------------------------------------------------------------------
\* Failures

LoseRequest(r, o) ==
  /\ <<r, o>> \in requests
  /\ requests' = requests \ {<<r, o>>}
  /\ UNCHANGED <<vars, written, acks, log, known>>

LoseAck(r, o) ==
  /\ acks[r][o] > 0
  /\ acks' = [acks EXCEPT ![r][o] = @ - 1]
  /\ UNCHANGED <<vars, requests, written, log, known>>

\* The process of an OSD ends, and is started again.  Acks that were sent may
\* still arrive.
CrashAndRestart(o) ==
  /\ \E r \in Requests : <<r, o>> \in requests \cup written
  /\ requests' = {p \in requests : p[2] # o}
  /\ written' = {p \in written : p[2] # o}
  /\ UNCHANGED <<vars, acks, log, known>>

----------------------------------------------------------------------------
ClientNext == \/ \E w \in Writers : \/ BeginWrite(w) \/ SendToOsd(w) \/ WriterGoesOn(w)
                                     \/ WakeSpuriously(w)
              \/ \E r \in Requests, o \in OSDs : RecvAck(r, o)

OsdNext == \E r \in Requests, o \in OSDs :
              \/ \E whole \in Outcomes(o) : IoWriteObject(r, o, whole)
              \/ SendAck(r, o) \/ SendAckFails(r, o)

FaultNext == \/ \E r \in Requests, o \in OSDs : LoseRequest(r, o) \/ LoseAck(r, o)
             \/ \E o \in OSDs : CrashAndRestart(o)

ClusterNext == ClientNext \/ OsdNext \/ FaultNext

ClusterSpec == ClusterInit /\ [][ClusterNext]_cluster_vars

\* Threads of the client and of the OSDs run, and sent messages arrive, unless
\* their connection or process fails.
FairClusterSpec ==
  /\ ClusterSpec
  /\ \A w \in Writers : WF_cluster_vars(SendToOsd(w) \/ WriterGoesOn(w))
  /\ \A r \in Requests, o \in OSDs :
       /\ WF_cluster_vars(\E whole \in Outcomes(o) : IoWriteObject(r, o, whole))
       /\ WF_cluster_vars(SendAck(r, o))
       /\ WF_cluster_vars(RecvAck(r, o))

----------------------------------------------------------------------------
ClusterTypeOK ==
  /\ TypeOK
  /\ requests \subseteq Requests \X OSDs
  /\ written \subseteq Requests \X OSDs
  /\ acks \in [Requests -> [OSDs -> Nat]]
  /\ log \in [OSDs -> Seq([req : Requests, whole : BOOLEAN])]
  /\ known \in [Requests -> SUBSET (Requests \X OSDs)]

\* What Client assumes of its environment: do_object_write_ack gets an ack only
\* of an OSD the request was sent to, and only one, whatever is lost, crashes
\* or is reordered.  RecvAck is never held up by the guard it has from Client.
AcksAreExpected ==
  \A r \in Requests, o \in OSDs :
     acks[r][o] > 0 => acks[r][o] = 1 /\ o \in reached[r] \ acked[r]

\* The cluster implements QuorumWrite with the writes of the OSDs in place of
\* the acks at the client: a call that returns CCEPH_OK does so after a
\* majority of the OSDs has tried to write its data, crash or not.
OnDisk == INSTANCE QuorumWrite WITH acked <- [r \in Requests |-> Wrote(r)]

WritesComeBeforeOk == OnDisk!Spec

\* Entry k of a log comes before every entry of r in it.
Position(o, r) == CHOOSE k \in 1 .. Len(log[o]) : log[o][k].req = r

\* An OSD that acknowledged a write before another one was begun has the two in
\* their order, although requests are handled in any order and may be late.
LaterWritesComeLater ==
  \A r \in Requests, p \in Requests \X OSDs :
     p \in known[r] /\ p[2] \in Wrote(r) =>
        /\ p[2] \in Wrote(p[1])
        /\ Position(p[2], p[1]) < Position(p[2], r)

\* What the file of the object at o holds: the last write, if it was whole.
Holds(o, r) == log[o] # << >> /\ Last(log[o]) = [req |-> r, whole |-> TRUE]

AllWhole == \A o \in OSDs : \A k \in 1 .. Len(log[o]) : log[o][k].whole

\* After two writes, the second begun when the first had returned CCEPH_OK, the
\* data of the second stays on some OSD once it has returned CCEPH_OK too, even
\* if requests of the first are still to be handled.  With a third write that
\* no longer holds: no OSD need have acknowledged all of the three.
SecondWriteStays ==
  \A q, r \in Requests :
     /\ req_id = 2 /\ q # r
     /\ result[q] = "OK" /\ result[r] = "OK"
     /\ \E o \in OSDs : <<q, o>> \in known[r]
     /\ AllWhole
     => \E o \in OSDs : Holds(o, r)

\* The OSDs whose ack of r has come or can still come.
MayAck(r) == acked[r] \cup {o \in OSDs : \/ <<r, o>> \in requests \cup written
                                         \/ acks[r][o] > 0}

\* With one caller at a time, a call that was sent to a majority hangs only when
\* so many of its requests and acks were lost that no majority can answer.
WritesReturnUnlessAcksAreLost ==
  \A r \in Requests :
     (\E w \in Writers : req[w] = r /\ pc[w] = "check")
        ~> (result[r] = "OK" \/ ~QW!Majority(MayAck(r)))
=============================================================================
