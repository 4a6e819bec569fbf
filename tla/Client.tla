------------------------------- MODULE Client -------------------------------
(***************************************************************************)
(* The client library, src/client/client.c: application threads call       *)
(* cceph_client_write_obj while messenger worker threads deliver write     *)
(* acks to do_object_write_ack.  Both sides share wait_req_list under      *)
(* wait_req_lock and meet at the condition variable wait_req_cond.         *)
(*                                                                         *)
(* Everything shared is touched under wait_req_lock only, so a critical    *)
(* section is one action.  pthread_cond_wait gives the lock up as it       *)
(* blocks, so the section before it and the section after it are two.      *)
(***************************************************************************)
EXTENDS Naturals, Sequences, SequencesExt, FiniteSets

CONSTANTS Writers,      \* threads that call cceph_client_write_obj
          OsdCount,     \* osdmap->osd_count
          CheckDup,     \* g_cceph_option.client_debug_check_duplicate_req_when_ack
          MaxReq        \* bound: number of writes the client ever starts

ASSUME OsdCountIsNat == OsdCount \in Nat
ASSUME MaxReqIsNat   == MaxReq \in Nat
ASSUME CheckDupBool  == CheckDup \in BOOLEAN

Requests == 1 .. MaxReq         \* client->req_id hands out 1, 2, ...
OSDs     == 0 .. OsdCount - 1   \* indices of osdmap->osds[]
NoReq    == 0

VARIABLES
  \* the threads of cceph_client_write_obj
  pc,             \* pc[w]: where writer w is
  req,            \* req[w]: the request w works on, NoReq outside the call
  next_osd,       \* next_osd[w]: the loop variable i of the send loop
  success_count,  \* success_count[w]: sends of the loop that succeeded
  \* the cceph_client
  req_id,         \* client->req_id, the last id handed out
  wait_req_list,  \* the requests of client->wait_req_list, head first
  ack_count,      \* ack_count[r]: the field of r's wait_req
  \* what was sent, received and returned
  reached,        \* reached[r]: OSDs the send of r to succeeded
  acked,          \* acked[r]: OSDs whose ack of r do_object_write_ack processed
  result          \* result[r]: what the call for r returned

vars == <<pc, req, next_osd, success_count, req_id, wait_req_list, ack_count,
          reached, acked, result>>
thread_vars == <<req, next_osd, success_count>>

QW == INSTANCE QuorumWrite

PCs == {"idle",     \* outside cceph_client_write_obj
        "add",      \* has its req_id, about to enter add_req_to_wait_list
        "send",     \* in the send loop
        "remove",   \* too few sends, about to enter remove_req_from_wait_list
        "check",    \* in wait_for_req, about to take the lock
        "waiting",  \* blocked in pthread_cond_wait
        "woken"}    \* left the wait, about to get the lock back

TypeOK ==
  /\ pc \in [Writers -> PCs]
  /\ req \in [Writers -> Requests \cup {NoReq}]
  /\ next_osd \in [Writers -> 0 .. OsdCount]
  /\ success_count \in [Writers -> 0 .. OsdCount]
  /\ req_id \in 0 .. MaxReq
  /\ wait_req_list \in Seq(Requests)
  /\ ack_count \in [Requests -> Nat]
  /\ QW!TypeOK

Init ==
  /\ pc = [w \in Writers |-> "idle"]
  /\ req = [w \in Writers |-> NoReq]
  /\ next_osd = [w \in Writers |-> 0]
  /\ success_count = [w \in Writers |-> 0]
  /\ req_id = 0
  /\ wait_req_list = << >>
  /\ ack_count = [r \in Requests |-> 0]
  /\ QW!Init

Listed(r) == \E k \in 1 .. Len(wait_req_list) : wait_req_list[k] = r

\* mutation: half is enough.
HalfIsEnough(count) == count >= OsdCount \div 2

\* The test of is_req_finished and of do_object_write_ack.  commit_count is
\* never incremented, so only ack_count decides.
Enough(count) == count > OsdCount \div 2

Waiting == {w \in Writers : pc[w] = "waiting"}

\* cceph_list_delete of the first entry of the list that is r's.
DeleteFromWaitList(r) ==
  \E k \in 1 .. Len(wait_req_list) :
     /\ wait_req_list[k] = r
     /\ \A j \in 1 .. k - 1 : wait_req_list[j] # r
     /\ wait_req_list' = RemoveAt(wait_req_list, k)

(***************************************************************************)
(* cceph_client_write_obj, one thread.                                     *)
(***************************************************************************)

\* Entry of the call: allocate the request and draw its id atomically.
NewReq(w) ==
  /\ pc[w] = "idle"
  /\ req_id < MaxReq
  /\ req_id' = req_id + 1
  /\ req' = [req EXCEPT ![w] = req_id + 1]
  /\ result' = [result EXCEPT ![req_id + 1] = "pending"]
  /\ pc' = [pc EXCEPT ![w] = "add"]
  /\ UNCHANGED <<next_osd, success_count, wait_req_list, ack_count, reached, acked>>

\* cceph_list_add inserts at the head.
AddReqToWaitList(w) ==
  /\ pc[w] = "add"
  /\ ack_count' = [ack_count EXCEPT ![req[w]] = 0]
  /\ wait_req_list' = <<req[w]>> \o wait_req_list
  /\ next_osd' = [next_osd EXCEPT ![w] = 0]
  /\ success_count' = [success_count EXCEPT ![w] = 0]
  /\ pc' = [pc EXCEPT ![w] = "send"]
  /\ UNCHANGED <<req, req_id, reached, acked, result>>

\* One turn of the send loop, send_req_to_osd returning 0.
SendReqToOsd(w) ==
  /\ pc[w] = "send"
  /\ next_osd[w] < OsdCount
  /\ reached' = [reached EXCEPT ![req[w]] = @ \cup {next_osd[w]}]
  /\ success_count' = [success_count EXCEPT ![w] = @ + 1]
  /\ next_osd' = [next_osd EXCEPT ![w] = @ + 1]
  /\ UNCHANGED <<pc, req, req_id, wait_req_list, ack_count, acked, result>>

\* One turn of the send loop, no connection or a failed write.
SendReqFails(w) ==
  /\ pc[w] = "send"
  /\ next_osd[w] < OsdCount
  /\ next_osd' = [next_osd EXCEPT ![w] = @ + 1]
  /\ UNCHANGED <<pc, req, success_count, req_id, wait_req_list, ack_count,
                 reached, acked, result>>

\* mutation: < for <=, a bare half is enough to go and wait.
SendLoopEndsAtHalf(w) ==
  /\ pc[w] = "send"
  /\ next_osd[w] = OsdCount
  /\ pc' = [pc EXCEPT ![w] = IF success_count[w] < OsdCount \div 2
                               THEN "remove" ELSE "check"]
  /\ UNCHANGED <<thread_vars, req_id, wait_req_list, ack_count, reached, acked, result>>

\* The test after the loop: are there enough servers?
SendLoopEnds(w) ==
  /\ pc[w] = "send"
  /\ next_osd[w] = OsdCount
  /\ pc' = [pc EXCEPT ![w] = IF success_count[w] <= OsdCount \div 2
                               THEN "remove" ELSE "check"]
  /\ UNCHANGED <<thread_vars, req_id, wait_req_list, ack_count, reached, acked, result>>

\* The call ends for w; its locals go out of scope.
Return(w, code) ==
  /\ result' = [result EXCEPT ![req[w]] = code]
  /\ pc' = [pc EXCEPT ![w] = "idle"]
  /\ req' = [req EXCEPT ![w] = NoReq]
  /\ next_osd' = [next_osd EXCEPT ![w] = 0]
  /\ success_count' = [success_count EXCEPT ![w] = 0]

\* mutation: the entry stays in the list.
FailWithoutRemoving(w) ==
  /\ pc[w] = "remove"
  /\ Return(w, "NOT_ENOUGH_SERVER")
  /\ UNCHANGED <<req_id, wait_req_list, ack_count, reached, acked>>

\* mutation: the error is lost, ret is still 0 from add_req_to_wait_list.
RemoveReqReturningOk(w) ==
  /\ pc[w] = "remove"
  /\ DeleteFromWaitList(req[w])
  /\ Return(w, "OK")
  /\ UNCHANGED <<req_id, ack_count, reached, acked>>

\* remove_req_from_wait_list, then return CCEPH_ERR_NOT_ENOUGH_SERVER.
RemoveReqFromWaitList(w) ==
  /\ pc[w] = "remove"
  /\ DeleteFromWaitList(req[w])
  /\ Return(w, "NOT_ENOUGH_SERVER")
  /\ UNCHANGED <<req_id, ack_count, reached, acked>>

\* is_req_finished finds the request finished: before blocking or after a wake.
ReqFinished(w) ==
  /\ pc[w] \in {"check", "woken"}
  /\ Enough(ack_count[req[w]])
  /\ DeleteFromWaitList(req[w])
  /\ Return(w, "OK")
  /\ UNCHANGED <<req_id, ack_count, reached, acked>>

\* is_req_finished says no, and pthread_cond_wait blocks.
CondWait(w) ==
  /\ pc[w] = "check"
  /\ ~(Listed(req[w]) /\ Enough(ack_count[req[w]]))
  /\ pc' = [pc EXCEPT ![w] = "waiting"]
  /\ UNCHANGED <<thread_vars, req_id, wait_req_list, ack_count, reached, acked, result>>

\* Woken for nothing: unlock and go round the loop.
RecheckFails(w) ==
  /\ pc[w] = "woken"
  /\ ~(Listed(req[w]) /\ Enough(ack_count[req[w]]))
  /\ pc' = [pc EXCEPT ![w] = "check"]
  /\ UNCHANGED <<thread_vars, req_id, wait_req_list, ack_count, reached, acked, result>>

\* POSIX lets pthread_cond_wait return without a signal.
SpuriousWakeup(w) ==
  /\ pc[w] = "waiting"
  /\ pc' = [pc EXCEPT ![w] = "woken"]
  /\ UNCHANGED <<thread_vars, req_id, wait_req_list, ack_count, reached, acked, result>>

(***************************************************************************)
(* do_object_write_ack, run by a messenger worker for the ack of request r *)
(* by OSD o.  An OSD answers each request it got once, in any order and    *)
(* after any delay.  The ack's result field is not looked at.              *)
(***************************************************************************)

\* mutation: the search for duplicates ends up at the newest entry.
InspectedNewest(r) == IF CheckDup THEN Head(wait_req_list) ELSE r

\* The entry wait_req points at after the list walk: the one found, or, when
\* the walk goes on in search of duplicates, the last one of the list.
InspectedReq(r) == IF CheckDup THEN Last(wait_req_list) ELSE r

\* pthread_cond_signal: one of the waiters, if there is one.
CondSignal ==
  \/ /\ Waiting = {}
     /\ UNCHANGED pc
  \/ \E w \in Waiting : pc' = [pc EXCEPT ![w] = "woken"]

\* mutation: the walk stops at the first entry, whosever it is.
AckCountsFirstEntry(r, o) ==
  /\ o \in reached[r] \ acked[r]
  /\ Listed(r)
  /\ acked' = [acked EXCEPT ![r] = @ \cup {o}]
  /\ ack_count' = [ack_count EXCEPT ![Head(wait_req_list)] = @ + 1]
  /\ IF Enough(ack_count'[Head(wait_req_list)]) THEN CondSignal ELSE UNCHANGED pc
  /\ UNCHANGED <<thread_vars, req_id, wait_req_list, reached, result>>

\* mutation: the signal is left out.
AckWithoutSignal(r, o) ==
  /\ o \in reached[r] \ acked[r]
  /\ Listed(r)
  /\ acked' = [acked EXCEPT ![r] = @ \cup {o}]
  /\ ack_count' = [ack_count EXCEPT ![r] = @ + 1]
  /\ UNCHANGED <<pc, thread_vars, req_id, wait_req_list, reached, result>>

\* The entry is found: count the ack, and signal if the inspected entry is done.
AckFound(r, o) ==
  /\ o \in reached[r] \ acked[r]
  /\ Listed(r)
  /\ acked' = [acked EXCEPT ![r] = @ \cup {o}]
  /\ ack_count' = [ack_count EXCEPT ![r] = @ + 1]
  /\ IF Enough(ack_count'[InspectedReq(r)]) THEN CondSignal ELSE UNCHANGED pc
  /\ UNCHANGED <<thread_vars, req_id, wait_req_list, reached, result>>

\* The request is not in the list: it has already ended.
AckNotFound(r, o) ==
  /\ o \in reached[r] \ acked[r]
  /\ ~Listed(r)
  /\ acked' = [acked EXCEPT ![r] = @ \cup {o}]
  /\ UNCHANGED <<pc, thread_vars, req_id, wait_req_list, ack_count, reached, result>>

DoObjectWriteAck(r, o) == AckFound(r, o) \/ AckNotFound(r, o)

(***************************************************************************)
(* The specification.                                                      *)
(***************************************************************************)

\* What a writer thread does without help from its environment.
WriterStep(w) ==
  \/ AddReqToWaitList(w)
  \/ SendReqToOsd(w) \/ SendReqFails(w) \/ SendLoopEnds(w)
  \/ RemoveReqFromWaitList(w)
  \/ ReqFinished(w) \/ CondWait(w) \/ RecheckFails(w)

Next ==
  \/ \E w \in Writers : NewReq(w) \/ WriterStep(w) \/ SpuriousWakeup(w)
  \/ \E r \in Requests, o \in OSDs : DoObjectWriteAck(r, o)

Spec == Init /\ [][Next]_vars

\* Threads that can run do run.  Acks may be lost, and neither the start of a
\* write nor a spurious wakeup can be relied on.
FairSpec == Spec /\ \A w \in Writers : WF_vars(WriterStep(w))

\* The network and the OSDs answer every request that was sent.
FairAckSpec == FairSpec /\ \A r \in Requests, o \in OSDs :
                              WF_vars(DoObjectWriteAck(r, o))

(***************************************************************************)
(* Safety.                                                                 *)
(***************************************************************************)

\* The points at which a call has its entry in the wait list.
InListPCs == {"send", "remove", "check", "waiting", "woken"}

\* However acks, sends and removals interleave, a listed request has counted
\* each OSD that acknowledged it exactly once: no ack is lost because it came
\* before the entry was listed, or credited to another thread's request.
AckCountExact ==
  \A r \in Requests : Listed(r) => ack_count[r] = Cardinality(acked[r])

\* No request has two entries.
NoDuplicates ==
  \A j, k \in 1 .. Len(wait_req_list) : wait_req_list[j] = wait_req_list[k] => j = k

\* The wait list holds exactly the entries of the calls in progress, one each:
\* a call that returned, successfully or not, leaves none behind, and no call
\* deletes the entry of another (remove_req_from_wait_list, is_req_finished).
ListedIffInProgress ==
  /\ NoDuplicates
  /\ \A r \in Requests :
        Listed(r) <=> \E w \in Writers : req[w] = r /\ pc[w] \in InListPCs

\* The promises of QuorumWrite about returned writes; see there.
OkMeansMajority == QW!OkMeansMajority
FailedNeverMajority == QW!FailedNeverMajority
OkWritesShareAnOSD == QW!OkWritesShareAnOSD

\* Thread, list and counter are an implementation of QuorumWrite.
RefinesQuorumWrite == QW!Spec

\* No thread blocks in pthread_cond_wait on a request that is already finished.
NoLostWakeup ==
  \A w \in Writers : pc[w] = "waiting" => ~Enough(ack_count[req[w]])

(***************************************************************************)
(* Liveness.                                                               *)
(***************************************************************************)

\* Unless two threads come to be blocked at once, when a signal may take the
\* wrong one, a write acknowledged by a majority returns CCEPH_OK: no order of
\* acks, failed sends and waits loses its wakeup.  With the duplicate check, on
\* by default, that is a promise to the oldest listed write only: the walk for
\* the entry ends at the last one (client.c:78), so the acks of a newer write
\* are judged by the count of the oldest, nobody is signalled, and when the
\* oldest gives up for want of servers the newer hangs, acknowledged by all.
AckedWriteReturns ==
  [](\A u, w \in Waiting : u = w) =>
    \A r \in Requests :
       [](CheckDup /\ Listed(r) => r = Last(wait_req_list)) =>
         ((result[r] = "pending" /\ QW!Majority(acked[r])) ~> (result[r] = "OK"))

\* A call either returns or waits for OSDs: none that was sent to too few
\* servers hangs, whatever the other threads and the network do.
WriteToFewServersFails ==
  \A r \in Requests :
     (\E w \in Writers : req[w] = r /\ next_osd[w] = OsdCount /\ ~QW!Majority(reached[r]))
        ~> (result[r] = "NOT_ENOUGH_SERVER")

\* If OSDs answer and every write finds enough servers, the first of any number
\* of concurrent writes to get through does return: acks judged by another
\* write's count and wakeups that go to the wrong thread never stop all of them.
SomeWriteReturns ==
  [](\A r \in Requests : result[r] # "NOT_ENOUGH_SERVER") =>
    ((\E r \in Requests : QW!Majority(reached[r])) ~> (\E r \in Requests : result[r] = "OK"))

\* If OSDs answer, every write returns.
EveryWriteReturns ==
  \A r \in Requests :
     (result[r] = "pending") ~> (result[r] \in {"OK", "NOT_ENOUGH_SERVER"})
=============================================================================
