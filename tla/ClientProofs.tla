---------------------------- MODULE ClientProofs ----------------------------
(* Theorems about Client, for any threads, number of OSDs, number of writes *)
(* and either value of client_debug_check_duplicate_req_when_ack.           *)
EXTENDS Client, FiniteSetTheorems, SequenceTheorems, TLAPS

(***************************************************************************)
(* The inductive invariant.                                                *)
(***************************************************************************)

\* A request is in the hands of one thread at most, and only until it returns.
OneOwner ==
  /\ \A w \in Writers : pc[w] = "idle" <=> req[w] = NoReq
  /\ \A v, w \in Writers : req[v] = req[w] /\ req[w] # NoReq => v = w
  /\ \A w \in Writers : req[w] # NoReq => result[req[w]] = "pending"

\* Ids above req_id have not been handed out.
FutureReqsUntouched ==
  /\ \A w \in Writers : req[w] <= req_id
  /\ \A r \in Requests : r > req_id => /\ result[r] = "none"
                                       /\ reached[r] = {}
                                       /\ acked[r] = {}

\* The send loop has tried the OSDs below next_osd, and counts its successes.
SendLoopExact ==
  \A w \in Writers :
     /\ pc[w] = "add" => reached[req[w]] = {}
     /\ pc[w] = "send" => reached[req[w]] \subseteq 0 .. next_osd[w] - 1
     /\ pc[w] \in {"send", "remove"} => success_count[w] = Cardinality(reached[req[w]])
     /\ pc[w] = "remove" => success_count[w] <= OsdCount \div 2

\* Only an OSD that got the request answers it.
AckedWereReached == \A r \in Requests : acked[r] \subseteq reached[r]

IInv ==
  /\ TypeOK
  /\ OneOwner
  /\ FutureReqsUntouched
  /\ SendLoopExact
  /\ AckedWereReached
  /\ ListedIffInProgress
  /\ AckCountExact
  /\ OkMeansMajority
  /\ FailedNeverMajority

(***************************************************************************)
(* Lemmas on the operators.                                                *)
(***************************************************************************)

\* The osdmap's OSDs are OsdCount many, so QuorumWrite's majority is the code's.
LEMMA OSDsCard ==
  /\ IsFiniteSet(OSDs)
  /\ Cardinality(OSDs) = OsdCount
BY FS_Interval, OsdCountIsNat DEF OSDs

\* A set of OSDs is finite, and its size is a natural number.
LEMMA OsdSubset ==
  ASSUME NEW S \in SUBSET OSDs
  PROVE  IsFiniteSet(S) /\ Cardinality(S) \in Nat
BY OSDsCard, FS_Subset, FS_CardinalityType

\* What cceph_list_delete leaves: the same entries in the same order but one.
LEMMA RemoveAtProperties ==
  ASSUME NEW S, NEW s \in Seq(S), NEW k \in 1 .. Len(s)
  PROVE  /\ RemoveAt(s, k) \in Seq(S)
         /\ Len(RemoveAt(s, k)) = Len(s) - 1
         /\ \A j \in 1 .. Len(s) - 1 :
               RemoveAt(s, k)[j] = IF j < k THEN s[j] ELSE s[j + 1]
<1> DEFINE a == SubSeq(s, 1, k - 1)
           b == SubSeq(s, k + 1, Len(s))
<1>1. a \in Seq(S) /\ Len(a) = k - 1 /\ \A j \in 1 .. k - 1 : a[j] = s[j]
  BY SubSeqProperties
<1>2. b \in Seq(S) /\ Len(b) = Len(s) - k /\ \A j \in 1 .. Len(s) - k : b[j] = s[k + j]
  <2>1. CASE k = Len(s)
    BY <2>1, SubSeqProperties
  <2>2. CASE k < Len(s)
    BY <2>2, SubSeqProperties
  <2> QED BY <2>1, <2>2
<1>3. RemoveAt(s, k) = a \o b
  BY DEF RemoveAt
<1> HIDE DEF a, b
<1>4. /\ a \o b \in Seq(S)
      /\ Len(a \o b) = Len(s) - 1
      /\ \A j \in 1 .. Len(s) - 1 : (a \o b)[j] = IF j < k THEN a[j] ELSE b[j - (k - 1)]
  <2>1. /\ a \o b \in Seq(S)
        /\ Len(a \o b) = Len(a) + Len(b)
        /\ \A j \in 1 .. Len(a) + Len(b) :
              (a \o b)[j] = IF j <= Len(a) THEN a[j] ELSE b[j - Len(a)]
    BY <1>1, <1>2, ConcatProperties
  <2>2. Len(s) \in Nat
    BY LenProperties
  <2> QED BY <1>1, <1>2, <2>1, <2>2
<1>5. \A j \in 1 .. Len(s) - 1 : (a \o b)[j] = IF j < k THEN s[j] ELSE s[j + 1]
  <2>1. \A j \in 1 .. Len(s) - 1 : j >= k => b[j - (k - 1)] = s[j + 1]
    BY <1>2
  <2> QED BY <1>1, <1>4, <2>1
<1> QED BY <1>3, <1>4, <1>5

\* cceph_list_delete takes r's entry out and no other.
LEMMA DeleteProperties ==
  ASSUME wait_req_list \in Seq(Requests), NoDuplicates,
         NEW r \in Requests, DeleteFromWaitList(r)
  PROVE  /\ wait_req_list' \in Seq(Requests)
         /\ NoDuplicates'
         /\ \A q \in Requests : Listed(q)' <=> Listed(q) /\ q # r
<1>1. PICK k \in 1 .. Len(wait_req_list) :
        wait_req_list[k] = r /\ wait_req_list' = RemoveAt(wait_req_list, k)
  BY DEF DeleteFromWaitList
<1> DEFINE n == Len(wait_req_list)
<1>2. n \in Nat
  BY LenProperties
<1>3. /\ wait_req_list' \in Seq(Requests)
      /\ Len(wait_req_list') = n - 1
      /\ \A j \in 1 .. n - 1 :
            wait_req_list'[j] = IF j < k THEN wait_req_list[j] ELSE wait_req_list[j + 1]
  BY <1>1, RemoveAtProperties
<1>4. NoDuplicates'
  BY <1>1, <1>2, <1>3 DEF NoDuplicates
<1>5. ASSUME NEW q \in Requests
      PROVE  Listed(q)' <=> Listed(q) /\ q # r
  <2>1. ASSUME Listed(q)' PROVE Listed(q) /\ q # r
    BY <1>1, <1>2, <1>3, <2>1 DEF Listed, NoDuplicates
  <2>2. ASSUME Listed(q), q # r PROVE Listed(q)'
    <3>1. PICK j \in 1 .. n : wait_req_list[j] = q
      BY <2>2 DEF Listed
    <3>2. CASE j < k
      BY <1>2, <1>3, <3>1, <3>2 DEF Listed
    <3>3. CASE j > k
      <4>1. j - 1 \in 1 .. n - 1 /\ wait_req_list'[j - 1] = q
        BY <1>2, <1>3, <3>1, <3>3
      <4> QED BY <1>3, <4>1 DEF Listed
    <3> QED BY <1>1, <1>2, <2>2, <3>1, <3>2, <3>3
  <2> QED BY <2>1, <2>2
<1> QED BY <1>3, <1>4, <1>5

\* cceph_list_add of a request not in the list adds it and nothing else.
LEMMA AddProperties ==
  ASSUME wait_req_list \in Seq(Requests), NoDuplicates,
         NEW r \in Requests, ~Listed(r),
         wait_req_list' = <<r>> \o wait_req_list
  PROVE  /\ wait_req_list' \in Seq(Requests)
         /\ NoDuplicates'
         /\ \A q \in Requests : Listed(q)' <=> Listed(q) \/ q = r
<1> DEFINE n == Len(wait_req_list)
<1>1. n \in Nat
  BY LenProperties
<1>2. <<r>> \in Seq(Requests) /\ Len(<<r>>) = 1 /\ <<r>>[1] = r
  OBVIOUS
<1>3. /\ wait_req_list' \in Seq(Requests)
      /\ Len(wait_req_list') = 1 + n
      /\ \A j \in 1 .. 1 + n :
            wait_req_list'[j] = IF j <= 1 THEN r ELSE wait_req_list[j - 1]
  <2>1. /\ <<r>> \o wait_req_list \in Seq(Requests)
        /\ Len(<<r>> \o wait_req_list) = 1 + n
        /\ \A j \in 1 .. 1 + n :
              (<<r>> \o wait_req_list)[j] = IF j <= 1 THEN <<r>>[j] ELSE wait_req_list[j - 1]
    BY <1>2, ConcatProperties
  <2> QED BY <1>1, <1>2, <2>1
<1>4. NoDuplicates'
  BY <1>1, <1>3 DEF NoDuplicates, Listed
<1>5. ASSUME NEW q \in Requests
      PROVE  Listed(q)' <=> Listed(q) \/ q = r
  <2>1. ASSUME Listed(q)' PROVE Listed(q) \/ q = r
    BY <1>1, <1>3, <2>1 DEF Listed
  <2>2. ASSUME Listed(q) PROVE Listed(q)'
    <3>1. PICK j \in 1 .. n : wait_req_list[j] = q
      BY <2>2 DEF Listed
    <3>2. j + 1 \in 1 .. 1 + n /\ wait_req_list'[j + 1] = q
      BY <1>1, <1>3, <3>1
    <3> QED BY <1>3, <3>2 DEF Listed
  <2>3. ASSUME q = r PROVE Listed(q)'
    BY <1>1, <1>3, <2>3 DEF Listed
  <2> QED BY <2>1, <2>2, <2>3
<1> QED BY <1>3, <1>4, <1>5

\* The majority of QuorumWrite is the test of is_req_finished.
LEMMA MajorityIsEnough ==
  \A S : QW!Majority(S) <=> Enough(Cardinality(S))
<1>1. \A S : QW!Cardinality(S) = Cardinality(S)
  BY DEF QW!Cardinality, Cardinality
<1> QED BY <1>1, OSDsCard DEF QW!Majority, Enough

(***************************************************************************)
(* The invariant holds at first and every action preserves it.             *)
(***************************************************************************)

\* The invariant holds when cceph_client_init is done.
LEMMA InitInv == Init => IInv
<1> SUFFICES ASSUME Init PROVE IInv
  OBVIOUS
<1> USE DEF Init, QW!Init
<1>1. TypeOK
  BY OsdCountIsNat, MaxReqIsNat, EmptySeq DEF TypeOK, QW!TypeOK, PCs, QW!Results
<1>2. OneOwner /\ FutureReqsUntouched /\ SendLoopExact /\ AckedWereReached
  BY MaxReqIsNat DEF OneOwner, FutureReqsUntouched, SendLoopExact, AckedWereReached, NoReq, Requests
<1>3. ListedIffInProgress /\ AckCountExact
  BY DEF ListedIffInProgress, NoDuplicates, Listed, AckCountExact, InListPCs
<1>4. OkMeansMajority /\ FailedNeverMajority
  BY DEF OkMeansMajority, FailedNeverMajority, QW!OkMeansMajority, QW!FailedNeverMajority
<1> QED BY <1>1, <1>2, <1>3, <1>4 DEF IInv

\* The entry of the call: a fresh request in the hands of w.
LEMMA NewReqInv ==
  ASSUME IInv, NEW w \in Writers, NewReq(w)
  PROVE  IInv'
<1> USE MaxReqIsNat, OsdCountIsNat DEF IInv, NewReq
<1>1. req_id + 1 \in Requests /\ req_id + 1 # NoReq /\ req_id + 1 \in 0 .. MaxReq
  BY DEF TypeOK, Requests, NoReq
<1>2. TypeOK'
  <2>1. pc' \in [Writers -> PCs] /\ req' \in [Writers -> Requests \cup {NoReq}]
    BY <1>1 DEF TypeOK, PCs
  <2>2. result' \in [Requests -> QW!Results]
    BY <1>1 DEF TypeOK, QW!TypeOK, QW!Results
  <2> QED BY <1>1, <2>1, <2>2 DEF TypeOK, QW!TypeOK
<1>3. OneOwner'
  BY <1>1 DEF OneOwner, FutureReqsUntouched, TypeOK, QW!TypeOK, NoReq, Requests
<1>4. FutureReqsUntouched'
  <2>1. \A v \in Writers : req'[v] <= req_id'
    <3>1. req'[w] = req_id'
      BY DEF TypeOK
    <3>2. \A v \in Writers : v # w => req'[v] = req[v]
      BY DEF TypeOK
    <3>3. req_id \in Nat /\ \A v \in Writers : req[v] \in Nat
      BY DEF TypeOK, Requests, NoReq
    <3>4. \A v \in Writers : req[v] <= req_id
      BY DEF FutureReqsUntouched
    <3> QED BY <3>1, <3>2, <3>3, <3>4
  <2>2. \A r \in Requests : r > req_id' => r > req_id /\ r # req_id + 1
    BY DEF TypeOK, Requests
  <2> QED BY <1>1, <2>1, <2>2 DEF FutureReqsUntouched, TypeOK, QW!TypeOK
<1>5. SendLoopExact'
  BY <1>1 DEF SendLoopExact, FutureReqsUntouched, TypeOK, QW!TypeOK, Requests
<1>6. ListedIffInProgress'
  <2>1. NoDuplicates' /\ \A r \in Requests : Listed(r)' <=> Listed(r)
    BY DEF ListedIffInProgress, NoDuplicates, Listed
  <2>2. \A v \in Writers : pc[v] \in InListPCs <=> pc'[v] \in InListPCs
    BY DEF TypeOK, InListPCs
  <2>3. \A v \in Writers : pc[v] \in InListPCs => v # w
    BY DEF InListPCs
  <2>4. \A v \in Writers : v # w => req'[v] = req[v]
    BY DEF TypeOK
  <2> QED BY <2>1, <2>2, <2>3, <2>4 DEF ListedIffInProgress
<1>7. AckedWereReached' /\ AckCountExact'
  BY DEF AckedWereReached, AckCountExact, Listed
<1>8. OkMeansMajority' /\ FailedNeverMajority'
  BY <1>1 DEF OkMeansMajority, FailedNeverMajority, QW!OkMeansMajority, QW!FailedNeverMajority, QW!Majority, TypeOK, QW!TypeOK
<1> QED BY <1>2, <1>3, <1>4, <1>5, <1>6, <1>7, <1>8

\* Listing the request: it was not listed, and no OSD can have answered it.
LEMMA AddInv ==
  ASSUME IInv, NEW w \in Writers, AddReqToWaitList(w)
  PROVE  IInv'
<1> USE MaxReqIsNat, OsdCountIsNat DEF IInv, AddReqToWaitList
<1>1. req[w] \in Requests /\ req[w] # NoReq
  BY DEF TypeOK, OneOwner
<1>2. ~Listed(req[w])
  BY <1>1 DEF ListedIffInProgress, OneOwner, InListPCs
<1>3. /\ wait_req_list' \in Seq(Requests)
      /\ NoDuplicates'
      /\ \A q \in Requests : Listed(q)' <=> Listed(q) \/ q = req[w]
  BY <1>1, <1>2, AddProperties DEF TypeOK, ListedIffInProgress
<1>4. TypeOK'
  BY <1>1, <1>3 DEF TypeOK, QW!TypeOK, PCs
<1>5. OneOwner' /\ FutureReqsUntouched'
  BY <1>1 DEF OneOwner, FutureReqsUntouched, TypeOK
<1>6. reached[req[w]] = {} /\ acked[req[w]] = {}
  BY <1>1 DEF SendLoopExact, AckedWereReached
<1>7. SendLoopExact'
  BY <1>1, <1>6, FS_EmptySet DEF SendLoopExact, TypeOK
<1>8. ListedIffInProgress'
  BY <1>1, <1>3 DEF ListedIffInProgress, InListPCs, TypeOK, OneOwner
<1>9. AckCountExact'
  BY <1>1, <1>3, <1>6, FS_EmptySet DEF AckCountExact, TypeOK
<1>10. AckedWereReached' /\ OkMeansMajority' /\ FailedNeverMajority'
  BY DEF AckedWereReached, OkMeansMajority, FailedNeverMajority,
         QW!OkMeansMajority, QW!FailedNeverMajority, QW!Majority
<1> QED BY <1>4, <1>5, <1>7, <1>8, <1>9, <1>10

\* A send that succeeds: the request reaches one more OSD.
LEMMA SendInv ==
  ASSUME IInv, NEW w \in Writers, SendReqToOsd(w)
  PROVE  IInv'
<1> USE MaxReqIsNat, OsdCountIsNat DEF IInv, SendReqToOsd
<1> DEFINE o == next_osd[w]
           before == reached[req[w]]
<1>1. req[w] \in Requests /\ req[w] # NoReq
  BY DEF TypeOK, OneOwner
<1>2. o \in OSDs /\ before \in SUBSET OSDs /\ o \notin before
  BY <1>1 DEF TypeOK, QW!TypeOK, OSDs, SendLoopExact
<1>3. Cardinality(before \cup {o}) = Cardinality(before) + 1
  BY <1>2, OsdSubset, FS_AddElement
<1>4. Cardinality(before \cup {o}) <= OsdCount
  BY <1>2, OSDsCard, FS_Subset
<1>5. success_count[w] + 1 = Cardinality(before \cup {o})
  BY <1>3 DEF SendLoopExact
<1>6. TypeOK'
  <2>1. success_count' \in [Writers -> 0 .. OsdCount]
    BY <1>4, <1>5 DEF TypeOK
  <2>2. next_osd' \in [Writers -> 0 .. OsdCount]
    BY DEF TypeOK
  <2>3. reached' \in [Requests -> SUBSET OSDs]
    BY <1>1, <1>2 DEF TypeOK, QW!TypeOK
  <2> QED BY <2>1, <2>2, <2>3 DEF TypeOK, QW!TypeOK
<1>7. OneOwner'
  BY DEF OneOwner
<1>8. FutureReqsUntouched'
  <2>1. req[w] <= req_id
    BY DEF FutureReqsUntouched
  <2>2. req[w] \in Nat /\ req_id \in Nat
    BY <1>1 DEF TypeOK, Requests
  <2>3. \A r \in Requests : r > req_id => r # req[w]
    BY <2>1, <2>2 DEF Requests
  <2>4. \A r \in Requests : r > req_id => reached'[r] = reached[r]
    BY <2>3, <1>1 DEF TypeOK, QW!TypeOK
  <2>5. req' = req /\ req_id' = req_id /\ result' = result /\ acked' = acked
    OBVIOUS
  <2> QED BY <2>4, <2>5 DEF FutureReqsUntouched
<1>9. SendLoopExact'
  <2>1. \A v \in Writers : v # w /\ pc[v] # "idle" => reached'[req[v]] = reached[req[v]]
    BY <1>1 DEF OneOwner, TypeOK, QW!TypeOK
  <2>2. \A v \in Writers : v # w => next_osd'[v] = next_osd[v] /\ success_count'[v] = success_count[v]
    BY DEF TypeOK
  <2>3. reached'[req[w]] = before \cup {o} /\ reached'[req[w]] \subseteq 0 .. next_osd'[w] - 1
    BY <1>1 DEF SendLoopExact, TypeOK, QW!TypeOK
  <2>4. success_count'[w] = Cardinality(reached'[req[w]])
    BY <1>5, <2>3 DEF TypeOK
  <2>5. pc' = pc /\ req' = req /\ pc[w] = "send"
    OBVIOUS
  <2> SUFFICES ASSUME NEW v \in Writers
               PROVE  /\ pc[v] = "add" => reached'[req[v]] = {}
                      /\ pc[v] = "send" => reached'[req[v]] \subseteq 0 .. next_osd'[v] - 1
                      /\ pc[v] \in {"send", "remove"} =>
                            success_count'[v] = Cardinality(reached'[req[v]])
                      /\ pc[v] = "remove" => success_count'[v] <= OsdCount \div 2
    BY <2>5 DEF SendLoopExact
  <2>6. CASE v = w
    BY <2>3, <2>4, <2>5, <2>6
  <2>7. CASE v # w
    BY <2>1, <2>2, <2>7 DEF SendLoopExact
  <2> QED BY <2>6, <2>7
<1>10. AckedWereReached'
  BY <1>1 DEF AckedWereReached, TypeOK, QW!TypeOK
<1>11. ListedIffInProgress' /\ AckCountExact'
  BY DEF ListedIffInProgress, NoDuplicates, Listed, AckCountExact
<1>12. OkMeansMajority' /\ FailedNeverMajority'
  <2>1. result[req[w]] = "pending"
    BY <1>1 DEF OneOwner
  <2> QED BY <1>1, <2>1 DEF OkMeansMajority, FailedNeverMajority, TypeOK, QW!TypeOK,
          QW!OkMeansMajority, QW!FailedNeverMajority, QW!Majority
<1> QED BY <1>6, <1>7, <1>8, <1>9, <1>10, <1>11, <1>12

\* Steps that move one thread along and leave its request, the wait list and
\* the acks alone: a failed send, the end of the loop, blocking and waking.
LEMMA LocalInv ==
  ASSUME IInv, NEW w \in Writers,
         \/ SendReqFails(w) \/ SendLoopEnds(w)
         \/ CondWait(w) \/ RecheckFails(w) \/ SpuriousWakeup(w)
  PROVE  IInv'
<1> USE MaxReqIsNat, OsdCountIsNat
    DEF IInv, SendReqFails, SendLoopEnds, CondWait, RecheckFails, SpuriousWakeup, thread_vars
<1>1. UNCHANGED <<req, success_count, req_id, wait_req_list, ack_count, reached, acked, result>>
  OBVIOUS
<1>2. TypeOK'
  <2>1. pc' \in [Writers -> PCs]
    BY DEF TypeOK, PCs
  <2>2. next_osd' \in [Writers -> 0 .. OsdCount]
    BY DEF TypeOK
  <2> QED BY <1>1, <2>1, <2>2 DEF TypeOK, QW!TypeOK
<1>3. \A v \in Writers : /\ pc[v] = "idle" <=> pc'[v] = "idle"
                         /\ pc[v] \in InListPCs <=> pc'[v] \in InListPCs
  BY DEF TypeOK, InListPCs
<1>4. OneOwner' /\ FutureReqsUntouched'
  BY <1>1, <1>3 DEF OneOwner, FutureReqsUntouched
<1>5. SendLoopExact'
  <2>1. CASE SendReqFails(w)
    <3>1. \A v \in Writers : v # w => next_osd'[v] = next_osd[v]
      BY <2>1 DEF TypeOK
    <3>2. pc[w] = "send" /\ next_osd'[w] = next_osd[w] + 1 /\ next_osd[w] \in Nat
      BY <2>1 DEF TypeOK
    <3>3. reached[req[w]] \subseteq 0 .. next_osd'[w] - 1
      BY <3>2 DEF SendLoopExact
    <3> QED BY <1>1, <2>1, <3>1, <3>2, <3>3 DEF SendLoopExact
  <2>2. CASE ~SendReqFails(w)
    <3>1. next_osd' = next_osd
      BY <2>2
    <3> QED BY <1>1, <2>2, <3>1 DEF SendLoopExact, TypeOK, PCs
  <2> QED BY <2>1, <2>2
<1>6. ListedIffInProgress' /\ AckCountExact' /\ AckedWereReached'
  BY <1>1, <1>3 DEF ListedIffInProgress, NoDuplicates, Listed, AckCountExact, AckedWereReached
<1>7. OkMeansMajority' /\ FailedNeverMajority'
  BY <1>1 DEF OkMeansMajority, FailedNeverMajority, QW!OkMeansMajority, QW!FailedNeverMajority,
              QW!Majority
<1> QED BY <1>2, <1>4, <1>5, <1>6, <1>7

\* The locals of a call that returned are gone.
LEMMA ReturnEffect ==
  ASSUME IInv, NEW w \in Writers, NEW code \in {"OK", "NOT_ENOUGH_SERVER"},
         pc[w] \in InListPCs, Return(w, code),
         DeleteFromWaitList(req[w]),
         UNCHANGED <<req_id, ack_count, reached, acked>>
  PROVE  /\ TypeOK' /\ OneOwner' /\ FutureReqsUntouched' /\ SendLoopExact'
         /\ AckedWereReached' /\ ListedIffInProgress' /\ AckCountExact'
         /\ req[w] \in Requests
         /\ \A r \in Requests : result'[r] = IF r = req[w] THEN code ELSE result[r]
<1> USE MaxReqIsNat, OsdCountIsNat DEF IInv, Return
<1>1. req[w] \in Requests /\ req[w] # NoReq
  BY DEF TypeOK, OneOwner, InListPCs
<1>2. /\ wait_req_list' \in Seq(Requests)
      /\ NoDuplicates'
      /\ \A q \in Requests : Listed(q)' <=> Listed(q) /\ q # req[w]
  BY <1>1, DeleteProperties DEF TypeOK, ListedIffInProgress
<1>3. /\ pc'[w] = "idle" /\ req'[w] = NoReq
      /\ \A v \in Writers : v # w => /\ pc'[v] = pc[v] /\ req'[v] = req[v]
                                    /\ next_osd'[v] = next_osd[v]
                                    /\ success_count'[v] = success_count[v]
  BY DEF TypeOK
<1>4. \A r \in Requests : result'[r] = IF r = req[w] THEN code ELSE result[r]
  BY DEF TypeOK, QW!TypeOK
<1>5. TypeOK'
  <2>1. pc' \in [Writers -> PCs] /\ req' \in [Writers -> Requests \cup {NoReq}]
    BY DEF TypeOK, PCs
  <2>2. next_osd' \in [Writers -> 0 .. OsdCount] /\ success_count' \in [Writers -> 0 .. OsdCount]
    BY DEF TypeOK
  <2>3. result' \in [Requests -> QW!Results]
    BY <1>1 DEF TypeOK, QW!TypeOK, QW!Results
  <2> QED BY <1>2, <2>1, <2>2, <2>3 DEF TypeOK, QW!TypeOK
<1>6. OneOwner'
  <2>1. \A v \in Writers : v # w /\ req[v] # NoReq => req[v] # req[w] /\ req[v] \in Requests
    BY DEF OneOwner, TypeOK
  <2> QED BY <1>3, <1>4, <2>1 DEF OneOwner
<1>7. FutureReqsUntouched'
  <2>1. req_id \in Nat /\ req[w] <= req_id /\ req[w] \in Nat
    BY <1>1 DEF TypeOK, FutureReqsUntouched, Requests
  <2>2. \A v \in Writers : req'[v] <= req_id
    BY <1>3, <2>1 DEF FutureReqsUntouched, NoReq
  <2>3. \A r \in Requests : r > req_id => r # req[w]
    BY <2>1 DEF Requests
  <2> QED BY <1>4, <2>2, <2>3 DEF FutureReqsUntouched
<1>8. SendLoopExact'
  BY <1>3 DEF SendLoopExact
<1>9. ListedIffInProgress'
  <2>1. \A v \in Writers : v # w /\ pc[v] \in InListPCs => req[v] # req[w]
    BY DEF OneOwner, InListPCs
  <2>2. "idle" \notin InListPCs
    BY DEF InListPCs
  <2> QED BY <1>1, <1>2, <1>3, <2>1, <2>2 DEF ListedIffInProgress
<1>10. AckedWereReached' /\ AckCountExact'
  BY <1>2 DEF AckedWereReached, AckCountExact
<1> QED BY <1>1, <1>4, <1>5, <1>6, <1>7, <1>8, <1>9, <1>10

\* A write that cannot be sent to enough servers fails without a majority.
LEMMA RemoveInv ==
  ASSUME IInv, NEW w \in Writers, RemoveReqFromWaitList(w)
  PROVE  IInv'
<1> USE DEF RemoveReqFromWaitList
<1>1. /\ TypeOK' /\ OneOwner' /\ FutureReqsUntouched' /\ SendLoopExact'
      /\ AckedWereReached' /\ ListedIffInProgress' /\ AckCountExact'
      /\ req[w] \in Requests
      /\ \A r \in Requests : result'[r] = IF r = req[w] THEN "NOT_ENOUGH_SERVER" ELSE result[r]
  BY ReturnEffect DEF InListPCs
<1> DEFINE R == reached[req[w]]
           A == acked[req[w]]
<1>2. R \in SUBSET OSDs /\ A \subseteq R
  BY <1>1 DEF IInv, TypeOK, QW!TypeOK, AckedWereReached
<1>3. Cardinality(R) <= OsdCount \div 2
  BY DEF IInv, SendLoopExact
<1>4. Cardinality(A) <= Cardinality(R) /\ Cardinality(A) \in Nat /\ Cardinality(R) \in Nat
  BY <1>2, OsdSubset, FS_Subset
<1>5. ~QW!Majority(R) /\ ~QW!Majority(A)
  BY <1>3, <1>4, MajorityIsEnough, OsdCountIsNat DEF Enough
<1>6. FailedNeverMajority'
  BY <1>1, <1>5 DEF IInv, FailedNeverMajority, QW!FailedNeverMajority, QW!Majority
<1>7. OkMeansMajority'
  BY <1>1 DEF IInv, OkMeansMajority, QW!OkMeansMajority, QW!Majority
<1> QED BY <1>1, <1>6, <1>7 DEF IInv

\* A write that is_req_finished finds finished has a majority of acks.
LEMMA FinishedInv ==
  ASSUME IInv, NEW w \in Writers, ReqFinished(w)
  PROVE  IInv'
<1> USE DEF ReqFinished
<1>1. /\ TypeOK' /\ OneOwner' /\ FutureReqsUntouched' /\ SendLoopExact'
      /\ AckedWereReached' /\ ListedIffInProgress' /\ AckCountExact'
      /\ req[w] \in Requests
      /\ \A r \in Requests : result'[r] = IF r = req[w] THEN "OK" ELSE result[r]
  BY ReturnEffect DEF InListPCs
<1>2. Listed(req[w])
  BY <1>1 DEF IInv, ListedIffInProgress, InListPCs
<1>3. QW!Majority(acked[req[w]])
  BY <1>1, <1>2, MajorityIsEnough DEF IInv, AckCountExact
<1>4. OkMeansMajority'
  BY <1>1, <1>3 DEF IInv, OkMeansMajority, QW!OkMeansMajority, QW!Majority
<1>5. FailedNeverMajority'
  BY <1>1 DEF IInv, FailedNeverMajority, QW!FailedNeverMajority, QW!Majority
<1> QED BY <1>1, <1>4, <1>5 DEF IInv

\* A wakeup moves a waiter to "woken" and no other thread.
LEMMA WakeEffect ==
  ASSUME IInv, CondSignal \/ UNCHANGED pc
  PROVE  /\ pc' \in [Writers -> PCs]
         /\ \A v \in Writers : pc'[v] = pc[v] \/ (pc[v] = "waiting" /\ pc'[v] = "woken")
BY DEF IInv, CondSignal, Waiting, TypeOK, PCs

\* An ack is counted once, for the request it answers.
LEMMA AckInv ==
  ASSUME IInv, NEW r \in Requests, NEW o \in OSDs, DoObjectWriteAck(r, o)
  PROVE  IInv'
<1> USE MaxReqIsNat, OsdCountIsNat DEF IInv
<1> DEFINE A == acked[r]
<1>1. /\ o \in reached[r] /\ o \notin A
      /\ acked' = [acked EXCEPT ![r] = @ \cup {o}]
      /\ CondSignal \/ UNCHANGED pc
      /\ UNCHANGED <<req, next_osd, success_count, req_id, wait_req_list, reached, result>>
  BY DEF DoObjectWriteAck, AckFound, AckNotFound, thread_vars
<1>2. /\ pc' \in [Writers -> PCs]
      /\ \A v \in Writers : pc'[v] = pc[v] \/ (pc[v] = "waiting" /\ pc'[v] = "woken")
  BY <1>1, WakeEffect
<1>3. A \in SUBSET OSDs /\ reached[r] \in SUBSET OSDs
  BY DEF TypeOK, QW!TypeOK
<1>4. /\ Cardinality(A) \in Nat
      /\ Cardinality(A \cup {o}) = Cardinality(A) + 1
  BY <1>1, <1>3, OsdSubset, FS_AddElement
<1>5. acked'[r] = A \cup {o} /\ \A q \in Requests : q # r => acked'[q] = acked[q]
  BY <1>1 DEF TypeOK, QW!TypeOK
<1>6. ack_count' = IF Listed(r) THEN [ack_count EXCEPT ![r] = @ + 1] ELSE ack_count
  BY DEF DoObjectWriteAck, AckFound, AckNotFound
<1>7. TypeOK'
  <2>1. acked' \in [Requests -> SUBSET OSDs]
    BY <1>1, <1>3 DEF TypeOK, QW!TypeOK
  <2>2. ack_count' \in [Requests -> Nat]
    BY <1>6 DEF TypeOK
  <2> QED BY <1>1, <1>2, <2>1, <2>2 DEF TypeOK, QW!TypeOK
<1>8. OneOwner'
  BY <1>1, <1>2 DEF OneOwner
<1>9. FutureReqsUntouched'
  BY <1>1, <1>5 DEF FutureReqsUntouched
<1>10. SendLoopExact'
  BY <1>1, <1>2 DEF SendLoopExact
<1>11. AckedWereReached'
  BY <1>1, <1>5 DEF AckedWereReached
<1>12. ListedIffInProgress'
  <2>1. \A v \in Writers : pc[v] \in InListPCs <=> pc'[v] \in InListPCs
    BY <1>2 DEF InListPCs
  <2>2. NoDuplicates' /\ \A q \in Requests : Listed(q)' <=> Listed(q)
    BY <1>1 DEF ListedIffInProgress, NoDuplicates, Listed
  <2> QED BY <1>1, <2>1, <2>2 DEF ListedIffInProgress
<1>13. AckCountExact'
  <2>1. \A q \in Requests : Listed(q)' <=> Listed(q)
    BY <1>1 DEF Listed
  <2>2. Listed(r) => ack_count'[r] = Cardinality(A) + 1
    BY <1>6 DEF AckCountExact, TypeOK
  <2>3. \A q \in Requests : q # r => ack_count'[q] = ack_count[q]
    BY <1>6 DEF TypeOK
  <2> QED BY <1>4, <1>5, <2>1, <2>2, <2>3 DEF AckCountExact
<1>14. OkMeansMajority'
  <2>1. QW!Majority(A) => QW!Majority(A \cup {o})
    BY <1>4, MajorityIsEnough DEF Enough
  <2> QED BY <1>1, <1>5, <2>1 DEF OkMeansMajority, QW!OkMeansMajority, QW!Majority
<1>15. FailedNeverMajority'
  <2>1. Cardinality(A \cup {o}) <= Cardinality(reached[r]) /\ Cardinality(reached[r]) \in Nat
    BY <1>1, <1>3, OsdSubset, FS_Subset DEF AckedWereReached
  <2>2. ~QW!Majority(reached[r]) => ~QW!Majority(A \cup {o})
    BY <1>4, <2>1, MajorityIsEnough DEF Enough
  <2> QED BY <1>1, <1>5, <2>2 DEF FailedNeverMajority, QW!FailedNeverMajority, QW!Majority
<1> QED BY <1>7, <1>8, <1>9, <1>10, <1>11, <1>12, <1>13, <1>14, <1>15

\* A step of the specification, or none, keeps the invariant.
LEMMA StepInv == IInv /\ [Next]_vars => IInv'
<1> SUFFICES ASSUME IInv, [Next]_vars PROVE IInv'
  OBVIOUS
<1>1. ASSUME NEW w \in Writers, NewReq(w) PROVE IInv'
  BY <1>1, NewReqInv
<1>2. ASSUME NEW w \in Writers, WriterStep(w) PROVE IInv'
  BY <1>2, AddInv, SendInv, LocalInv, RemoveInv, FinishedInv DEF WriterStep
<1>3. ASSUME NEW w \in Writers, SpuriousWakeup(w) PROVE IInv'
  BY <1>3, LocalInv
<1>4. ASSUME NEW r \in Requests, NEW o \in OSDs, DoObjectWriteAck(r, o) PROVE IInv'
  BY <1>4, AckInv
<1>5. CASE UNCHANGED vars
  BY <1>5 DEF vars, IInv, TypeOK, QW!TypeOK, OneOwner, FutureReqsUntouched, SendLoopExact,
              AckedWereReached, ListedIffInProgress, NoDuplicates, Listed, AckCountExact,
              OkMeansMajority, FailedNeverMajority, QW!OkMeansMajority,
              QW!FailedNeverMajority, QW!Majority
<1> QED BY <1>1, <1>2, <1>3, <1>4, <1>5 DEF Next

\* The invariant holds throughout.
THEOREM Invariance == Spec => []IInv
BY InitInv, StepInv, PTL DEF Spec

(***************************************************************************)
(* What follows.                                                           *)
(***************************************************************************)

\* Every variable keeps its type.
THEOREM TypeCorrect == Spec => []TypeOK
<1>1. IInv => TypeOK
  BY DEF IInv
<1> QED BY <1>1, Invariance, PTL

\* The wait list is exactly the calls in progress.
THEOREM WaitListExact == Spec => []ListedIffInProgress
<1>1. IInv => ListedIffInProgress
  BY DEF IInv
<1> QED BY <1>1, Invariance, PTL

\* Each entry of the wait list has counted every ack of its request once.
THEOREM AcksCountedOnce == Spec => []AckCountExact
<1>1. IInv => AckCountExact
  BY DEF IInv
<1> QED BY <1>1, Invariance, PTL

\* cceph_client_write_obj returns CCEPH_OK only after a majority of acks.
THEOREM OkNeedsMajority == Spec => []OkMeansMajority
<1>1. IInv => OkMeansMajority
  BY DEF IInv
<1> QED BY <1>1, Invariance, PTL

\* CCEPH_ERR_NOT_ENOUGH_SERVER is final: no majority saw the write.
THEOREM FailureIsFinal == Spec => []FailedNeverMajority
<1>1. IInv => FailedNeverMajority
  BY DEF IInv
<1> QED BY <1>1, Invariance, PTL

\* Two successful writes were acknowledged by a common OSD.
THEOREM OkWritesIntersect == Spec => []OkWritesShareAnOSD
<1>1. IInv => OkWritesShareAnOSD
  <2> SUFFICES ASSUME IInv, NEW r \in Requests, NEW s \in Requests,
                      result[r] = "OK", result[s] = "OK"
               PROVE  acked[r] \cap acked[s] # {}
    BY DEF OkWritesShareAnOSD, QW!OkWritesShareAnOSD
  <2>1. acked[r] \in SUBSET OSDs /\ acked[s] \in SUBSET OSDs
    BY DEF IInv, TypeOK, QW!TypeOK
  <2>2. QW!Majority(acked[r]) /\ QW!Majority(acked[s])
    BY DEF IInv, OkMeansMajority, QW!OkMeansMajority
  <2>3. /\ Cardinality(acked[r]) > OsdCount \div 2
        /\ Cardinality(acked[s]) > OsdCount \div 2
    BY <2>2, MajorityIsEnough DEF Enough
  <2>4. Cardinality(acked[r]) \in Nat /\ Cardinality(acked[s]) \in Nat
    BY <2>1, OsdSubset
  <2>5. Cardinality(acked[r]) + Cardinality(acked[s]) > OsdCount
    BY <2>3, <2>4, OsdCountIsNat
  <2> QED BY <2>1, <2>5, OSDsCard, FS_MajoritiesIntersect
<1> QED BY <1>1, Invariance, PTL

(***************************************************************************)
(* The client implements QuorumWrite.                                      *)
(***************************************************************************)

\* Each step of the client is a step of QuorumWrite or leaves it unchanged.
LEMMA StepRefines == IInv /\ [Next]_vars => [QW!Next]_(QW!vars)
<1> SUFFICES ASSUME IInv, [Next]_vars PROVE [QW!Next]_(QW!vars)
  OBVIOUS
<1> USE DEF IInv
<1>1. ASSUME NEW w \in Writers, NewReq(w) PROVE QW!Next
  <2>1. req_id + 1 \in Requests /\ req_id + 1 > req_id
    BY <1>1, MaxReqIsNat DEF NewReq, TypeOK, Requests
  <2>2. QW!Begin(req_id + 1)
    BY <1>1, <2>1 DEF NewReq, FutureReqsUntouched, QW!Begin
  <2> QED BY <2>1, <2>2 DEF QW!Next
<1>2. ASSUME NEW w \in Writers, SendReqToOsd(w) PROVE QW!Next
  <2>1. req[w] \in Requests /\ req[w] # NoReq
    BY <1>2 DEF SendReqToOsd, TypeOK, OneOwner
  <2>2. next_osd[w] \in OSDs /\ next_osd[w] \notin reached[req[w]]
    BY <1>2, OsdCountIsNat DEF SendReqToOsd, TypeOK, OSDs, SendLoopExact
  <2>3. QW!Reach(req[w], next_osd[w])
    BY <1>2, <2>1, <2>2 DEF SendReqToOsd, OneOwner, QW!Reach
  <2> QED BY <2>1, <2>2, <2>3 DEF QW!Next
<1>3. ASSUME NEW w \in Writers, RemoveReqFromWaitList(w) PROVE QW!Next
  <2>1. req[w] \in Requests /\ req[w] # NoReq
    BY <1>3 DEF RemoveReqFromWaitList, TypeOK, OneOwner
  <2>2. ~QW!Majority(reached[req[w]])
    <3>1. reached[req[w]] \in SUBSET OSDs
      BY <2>1 DEF TypeOK, QW!TypeOK
    <3>2. Cardinality(reached[req[w]]) <= OsdCount \div 2
      BY <1>3 DEF RemoveReqFromWaitList, SendLoopExact
    <3> QED BY <3>1, <3>2, OsdSubset, MajorityIsEnough, OsdCountIsNat DEF Enough
  <2>3. QW!Fail(req[w])
    BY <1>3, <2>1, <2>2 DEF RemoveReqFromWaitList, Return, OneOwner, QW!Fail
  <2> QED BY <2>1, <2>3 DEF QW!Next
<1>4. ASSUME NEW w \in Writers, ReqFinished(w) PROVE QW!Next
  <2>1. req[w] \in Requests /\ req[w] # NoReq
    BY <1>4 DEF ReqFinished, TypeOK, OneOwner
  <2>2. Listed(req[w])
    BY <1>4, <2>1 DEF ReqFinished, ListedIffInProgress, InListPCs
  <2>3. QW!Majority(acked[req[w]])
    BY <1>4, <2>1, <2>2, MajorityIsEnough DEF ReqFinished, AckCountExact
  <2>4. QW!Succeed(req[w])
    BY <1>4, <2>1, <2>3 DEF ReqFinished, Return, OneOwner, QW!Succeed
  <2> QED BY <2>1, <2>4 DEF QW!Next
<1>5. ASSUME NEW w \in Writers,
             \/ AddReqToWaitList(w) \/ SendReqFails(w) \/ SendLoopEnds(w)
             \/ CondWait(w) \/ RecheckFails(w) \/ SpuriousWakeup(w)
      PROVE  UNCHANGED QW!vars
  BY <1>5 DEF AddReqToWaitList, SendReqFails, SendLoopEnds, CondWait, RecheckFails,
              SpuriousWakeup, QW!vars
<1>6. ASSUME NEW r \in Requests, NEW o \in OSDs, DoObjectWriteAck(r, o) PROVE QW!Next
  <2>1. QW!Ack(r, o)
    BY <1>6 DEF DoObjectWriteAck, AckFound, AckNotFound, QW!Ack
  <2> QED BY <2>1 DEF QW!Next
<1>7. CASE UNCHANGED vars
  BY <1>7 DEF vars, QW!vars
<1> QED BY <1>1, <1>2, <1>3, <1>4, <1>5, <1>6, <1>7 DEF Next, WriterStep

\* Whatever the threads, the wait list and the wakeups do, the callers see
\* nothing but a quorum write.
THEOREM Refinement == Spec => RefinesQuorumWrite
<1>1. Init => QW!Init
  BY DEF Init
<1> QED BY <1>1, StepRefines, Invariance, PTL DEF Spec, RefinesQuorumWrite, QW!Spec

(***************************************************************************)
(* A single thread never misses its wakeup.                                *)
(***************************************************************************)

\* Strengthening: with one thread the list has no entry but that thread's.
WakeInv == IInv /\ NoLostWakeup

\* The entry the list walk ends on is then the one it looked for.
LEMMA OnlyEntry ==
  ASSUME IInv, \A u, v \in Writers : u = v, NEW r \in Requests, Listed(r)
  PROVE  InspectedReq(r) = r
<1>1. PICK w \in Writers : req[w] = r
  BY DEF IInv, ListedIffInProgress
<1> DEFINE n == Len(wait_req_list)
<1>2. n \in Nat /\ \A j \in 1 .. n : wait_req_list[j] \in Requests
  BY LenProperties, ElementOfSeq DEF IInv, TypeOK
<1>3. \A j \in 1 .. n : wait_req_list[j] = r
  BY <1>1, <1>2 DEF IInv, ListedIffInProgress, Listed
<1>4. n \in 1 .. n
  BY <1>2 DEF Listed
<1> QED BY <1>3, <1>4 DEF InspectedReq, Last

\* With one thread, the signal sent for an entry reaches the entry's owner,
\* and the test under the lock sees every ack that came before the wait.
THEOREM SingleWriterWakes ==
  ASSUME \A u, v \in Writers : u = v
  PROVE  Spec => []NoLostWakeup
<1>1. Init => WakeInv
  BY InitInv DEF Init, WakeInv, NoLostWakeup
<1>2. WakeInv /\ [Next]_vars => WakeInv'
  <2> SUFFICES ASSUME WakeInv, [Next]_vars, NEW w \in Writers, pc'[w] = "waiting"
               PROVE  ~Enough(ack_count[req[w]])'
    BY StepInv DEF WakeInv, NoLostWakeup
  <2> USE DEF WakeInv, IInv
  <2>1. pc \in [Writers -> PCs] /\ req \in [Writers -> Requests \cup {NoReq}]
    BY DEF TypeOK
  <2>2. ASSUME NEW v \in Writers, NewReq(v) \/ WriterStep(v) \/ SpuriousWakeup(v)
        PROVE  ~Enough(ack_count[req[w]])'
    <3>1. v = w
      OBVIOUS
    <3>2. CondWait(w)
      BY <2>1, <2>2, <3>1 DEF WriterStep, NewReq, AddReqToWaitList, SendReqToOsd, SendReqFails,
            SendLoopEnds, RemoveReqFromWaitList, ReqFinished, RecheckFails, SpuriousWakeup, Return
    <3>3. Listed(req[w])
      BY <2>1, <3>2 DEF CondWait, ListedIffInProgress, InListPCs, OneOwner
    <3> QED BY <3>2, <3>3 DEF CondWait, thread_vars, Enough
  <2>3. ASSUME NEW r \in Requests, NEW o \in OSDs, DoObjectWriteAck(r, o)
        PROVE  ~Enough(ack_count[req[w]])'
    <3>1. pc[w] = "waiting" /\ req' = req
      BY <2>1, <2>3, WakeEffect DEF DoObjectWriteAck, AckFound, AckNotFound, thread_vars
    <3>2. ~Enough(ack_count[req[w]])
      BY <3>1 DEF NoLostWakeup
    <3>3. CASE AckNotFound(r, o)
      BY <3>1, <3>2, <3>3 DEF AckNotFound, Enough
    <3>4. CASE AckFound(r, o)
      <4>1. req[w] = r /\ InspectedReq(r) = r
        BY <3>4, OnlyEntry DEF AckFound, ListedIffInProgress
      <4>2. CASE Enough(ack_count'[r])
        <5>1. CondSignal
          BY <3>4, <4>1, <4>2 DEF AckFound
        <5>2. w \in Waiting
          BY <3>1 DEF Waiting
        <5>3. pc' = [pc EXCEPT ![w] = "woken"]
          BY <5>1, <5>2 DEF CondSignal, Waiting
        <5> QED BY <2>1, <5>3
      <4>3. CASE ~Enough(ack_count'[r])
        BY <3>1, <4>1, <4>3 DEF Enough
      <4> QED BY <4>2, <4>3
    <3> QED BY <2>3, <3>3, <3>4 DEF DoObjectWriteAck
  <2>4. CASE UNCHANGED vars
    BY <2>4 DEF vars, NoLostWakeup, Enough
  <2> QED BY <2>2, <2>3, <2>4 DEF Next
<1>3. WakeInv => NoLostWakeup
  BY DEF WakeInv
<1> QED BY <1>1, <1>2, <1>3, PTL DEF Spec
=============================================================================
