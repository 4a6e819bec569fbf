---------------------------- MODULE QuorumWrite ----------------------------
(***************************************************************************)
(* What cceph_client_write_obj promises its caller, without threads, wait  *)
(* list, counters or condition variable: a write is sent to some of the    *)
(* OSDs of the map, OSDs acknowledge it, and the call ends with CCEPH_OK   *)
(* only once a majority of the map's OSDs has acknowledged it, and with    *)
(* CCEPH_ERR_NOT_ENOUGH_SERVER only if no majority can ever have seen it.  *)
(***************************************************************************)
EXTENDS Naturals, FiniteSets

CONSTANTS Requests,     \* the writes a client ever starts
          OSDs          \* the OSDs of the osdmap

VARIABLES result,       \* result[r]: what the caller of write r knows
          reached,      \* reached[r]: OSDs write r was sent to
          acked         \* acked[r]: OSDs whose ack of r the client has taken in

vars == <<result, reached, acked>>

Results == {"none", "pending", "OK", "NOT_ENOUGH_SERVER"}

\* client.c:261, client.c:332: "more than half" with C's integer division.
Majority(S) == Cardinality(S) > Cardinality(OSDs) \div 2

TypeOK == /\ result \in [Requests -> Results]
          /\ reached \in [Requests -> SUBSET OSDs]
          /\ acked \in [Requests -> SUBSET OSDs]

Init == /\ result = [r \in Requests |-> "none"]
        /\ reached = [r \in Requests |-> {}]
        /\ acked = [r \in Requests |-> {}]

Begin(r) == /\ result[r] = "none"
            /\ result' = [result EXCEPT ![r] = "pending"]
            /\ UNCHANGED <<reached, acked>>

Reach(r, o) == /\ result[r] = "pending"
               /\ o \notin reached[r]
               /\ reached' = [reached EXCEPT ![r] = @ \cup {o}]
               /\ UNCHANGED <<result, acked>>

\* An ack may also arrive after the write has ended.
Ack(r, o) == /\ o \in reached[r] \ acked[r]
             /\ acked' = [acked EXCEPT ![r] = @ \cup {o}]
             /\ UNCHANGED <<result, reached>>

Succeed(r) == /\ result[r] = "pending"
              /\ Majority(acked[r])
              /\ result' = [result EXCEPT ![r] = "OK"]
              /\ UNCHANGED <<reached, acked>>

Fail(r) == /\ result[r] = "pending"
           /\ ~Majority(reached[r])
           /\ result' = [result EXCEPT ![r] = "NOT_ENOUGH_SERVER"]
           /\ UNCHANGED <<reached, acked>>

Next == \E r \in Requests :
          \/ Begin(r) \/ Succeed(r) \/ Fail(r)
          \/ \E o \in OSDs : Reach(r, o) \/ Ack(r, o)

Spec == Init /\ [][Next]_vars

(***************************************************************************)
(* Properties.                                                             *)
(***************************************************************************)

\* A write that returned CCEPH_OK was acknowledged by a majority of the OSDs.
OkMeansMajority == \A r \in Requests : result[r] = "OK" => Majority(acked[r])

\* A write that returned CCEPH_ERR_NOT_ENOUGH_SERVER reached no majority, so
\* no ack that arrives later can make it look successful.
FailedNeverMajority ==
  \A r \in Requests :
     result[r] = "NOT_ENOUGH_SERVER" => /\ ~Majority(reached[r])
                                        /\ ~Majority(acked[r])

\* Any two writes that returned CCEPH_OK were acknowledged by a common OSD.
OkWritesShareAnOSD ==
  \A r, s \in Requests :
     result[r] = "OK" /\ result[s] = "OK" => acked[r] \cap acked[s] # {}
=============================================================================
