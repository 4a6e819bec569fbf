--------------------------- MODULE ClusterProofs ---------------------------
(***************************************************************************)
(* What the client proves of itself holds in the cluster, too; and what    *)
(* requests, writes and acks of the OSDs have to do with what the client   *)
(* believes, for any number of callers, OSDs and requests, bad disks,      *)
(* losses and crashes.                                                     *)
(***************************************************************************)
EXTENDS Cluster, ClientProofs

OsdTypeOK ==
  /\ requests \subseteq Requests \X OSDs
  /\ written \subseteq Requests \X OSDs
  /\ acks \in [Requests -> [OSDs -> Nat]]
  /\ log \in [OSDs -> Seq([req : Requests, whole : BOOLEAN])]
  /\ known \in [Requests -> SUBSET (Requests \X OSDs)]

\* A request is on its way, or written and to be answered, or answered by an
\* ack on its way, or counted by the client, or lost: one of these.
OnePlace ==
  \A r \in Requests, o \in OSDs :
     /\ <<r, o>> \in requests => o \in reached[r] /\ o \notin Wrote(r)
     /\ <<r, o>> \in written => o \in Wrote(r) /\ acks[r][o] = 0 /\ o \notin acked[r]
     /\ acks[r][o] > 0 => acks[r][o] = 1 /\ o \in Wrote(r) /\ o \notin acked[r]
     /\ o \in acked[r] => o \in Wrote(r)
     /\ o \in Wrote(r) => o \in reached[r]

\* No request is written twice at one OSD.
WrittenOnce ==
  \A o \in OSDs : \A i, j \in 1 .. Len(log[o]) : log[o][i].req = log[o][j].req => i = j

\* What was known as acknowledged at o when r began comes before r in its log.
LogOrder ==
  \A r, q \in Requests, o \in OSDs :
     <<q, o>> \in known[r] =>
        /\ o \in acked[q]
        /\ \A i, j \in 1 .. Len(log[o]) : log[o][i].req = r /\ log[o][j].req = q => j < i

CInv == IInv /\ OsdTypeOK /\ OnePlace /\ WrittenOnce /\ LogOrder

(***************************************************************************)
(* The client's steps.                                                     *)
(***************************************************************************)

LEMMA ClusterInitInv == ClusterInit => CInv
<1> SUFFICES ASSUME ClusterInit PROVE CInv
  OBVIOUS
<1>1. IInv
  BY InitInv DEF ClusterInit
<1>2. \A o \in OSDs : log[o] = << >> /\ Len(log[o]) = 0
  BY DEF ClusterInit
<1>3. OsdTypeOK
  BY DEF ClusterInit, OsdTypeOK
<1>4. \A r \in Requests : Wrote(r) = {}
  BY <1>2 DEF Wrote
<1>5. OnePlace
  BY <1>4 DEF ClusterInit, Init, QW!Init, OnePlace
<1>6. WrittenOnce /\ LogOrder
  BY <1>2 DEF ClusterInit, WrittenOnce, LogOrder
<1> QED BY <1>1, <1>3, <1>5, <1>6 DEF CInv

\* Every step of the cluster is a step of the client or none.
LEMMA ClusterStep == [ClusterNext]_cluster_vars => [Next]_vars
<1> SUFFICES ASSUME [ClusterNext]_cluster_vars PROVE [Next]_vars
  OBVIOUS
<1>1. ASSUME NEW w \in Writers, BeginWrite(w) PROVE Next
  BY <1>1 DEF BeginWrite, Next
<1>2. ASSUME NEW w \in Writers, SendToOsd(w) PROVE Next
  BY <1>2 DEF SendToOsd, Next, WriterStep
<1>3. ASSUME NEW w \in Writers, WriterGoesOn(w) \/ WakeSpuriously(w) PROVE Next
  BY <1>3 DEF WriterGoesOn, WakeSpuriously, Next, WriterStep
<1>4. ASSUME NEW r \in Requests, NEW o \in OSDs, RecvAck(r, o) PROVE Next
  BY <1>4 DEF RecvAck, Next
<1>5. OsdNext \/ FaultNext => UNCHANGED vars
  BY DEF OsdNext, FaultNext, IoWriteObject, SendAck, SendAckFails, LoseRequest, LoseAck,
         CrashAndRestart
<1>6. UNCHANGED cluster_vars => UNCHANGED vars
  BY DEF cluster_vars
<1> QED BY <1>1, <1>2, <1>3, <1>4, <1>5, <1>6 DEF ClusterNext, ClientNext

\* A new call knows of acks only, and none of the new request is in a log.
LEMMA BeginInv ==
  ASSUME CInv, NEW w \in Writers, BeginWrite(w), IInv'
  PROVE  CInv'
<1> USE DEF CInv
<1> DEFINE n == req_id + 1
<1>1. /\ req_id' = n /\ n \in Requests
      /\ UNCHANGED <<reached, acked, requests, written, acks, log>>
      /\ known' = [known EXCEPT ![n] =
                     {p \in Requests \X OSDs : result[p[1]] = "OK" /\ p[2] \in acked[p[1]]}]
  BY MaxReqIsNat DEF BeginWrite, NewReq, osd_vars, IInv, TypeOK, Requests
<1>2. reached[n] = {}
  <2>1. req_id \in Nat
    BY MaxReqIsNat DEF IInv, TypeOK
  <2>2. FutureReqsUntouched /\ n > req_id
    BY <2>1 DEF IInv
  <2> QED BY <1>1, <2>2 DEF FutureReqsUntouched
<1>3. \A r \in Requests : Wrote(r)' = Wrote(r)
  BY <1>1 DEF Wrote
<1>4. OsdTypeOK'
  BY <1>1 DEF OsdTypeOK
<1>5. OnePlace' /\ WrittenOnce'
  BY <1>1, <1>3 DEF OnePlace, WrittenOnce
<1>6. LogOrder'
  <2> SUFFICES ASSUME NEW r \in Requests, NEW q \in Requests, NEW o \in OSDs,
                      <<q, o>> \in known'[r]
               PROVE  /\ o \in acked[q]
                      /\ \A i, j \in 1 .. Len(log[o]) :
                           log[o][i].req = r /\ log[o][j].req = q => j < i
    BY <1>1 DEF LogOrder
  <2>1. CASE r = n
    <3>1. o \in acked[q]
      BY <1>1, <2>1 DEF OsdTypeOK
    <3>2. o \notin Wrote(n)
      BY <1>1, <1>2 DEF OnePlace
    <3> QED BY <2>1, <3>1, <3>2 DEF Wrote
  <2>2. CASE r # n
    BY <1>1, <2>2 DEF LogOrder, OsdTypeOK
  <2> QED BY <2>1, <2>2
<1> QED BY <1>4, <1>5, <1>6

\* An OSD gets a request it was never sent before.
LEMMA SendToOsdInv ==
  ASSUME CInv, NEW w \in Writers, SendToOsd(w), IInv'
  PROVE  CInv'
<1> USE DEF CInv
<1> DEFINE r == req[w]
           o == next_osd[w]
<1>1. r \in Requests /\ o \in OSDs /\ o \notin reached[r]
  BY OsdCountIsNat DEF SendToOsd, SendReqToOsd, IInv, TypeOK, OneOwner, SendLoopExact, OSDs
<1>2. /\ reached' = [reached EXCEPT ![r] = @ \cup {o}]
      /\ requests' = requests \cup {<<r, o>>}
      /\ UNCHANGED <<acked, written, acks, log, known>>
  BY DEF SendToOsd, SendReqToOsd
<1>3. \A q \in Requests : Wrote(q)' = Wrote(q)
  BY <1>2 DEF Wrote
<1>4. OsdTypeOK'
  <2>1. requests \cup {<<r, o>>} \subseteq Requests \X OSDs
    BY <1>1 DEF OsdTypeOK
  <2> QED BY <1>2, <2>1 DEF OsdTypeOK
<1>5. reached \in [Requests -> SUBSET OSDs]
  BY DEF IInv, TypeOK, QW!TypeOK
<1>6. OnePlace'
  <2> SUFFICES ASSUME NEW q \in Requests, NEW p \in OSDs
               PROVE  /\ <<q, p>> \in requests' => p \in reached'[q] /\ p \notin Wrote(q)
                      /\ <<q, p>> \in written =>
                           p \in Wrote(q) /\ acks[q][p] = 0 /\ p \notin acked[q]
                      /\ acks[q][p] > 0 =>
                           acks[q][p] = 1 /\ p \in Wrote(q) /\ p \notin acked[q]
                      /\ p \in acked[q] => p \in Wrote(q)
                      /\ p \in Wrote(q) => p \in reached'[q]
    BY <1>2, <1>3 DEF OnePlace
  <2>1. reached[q] \subseteq reached'[q] /\ o \in reached'[r]
    BY <1>1, <1>2, <1>5
  <2> QED BY <1>1, <1>2, <2>1 DEF OnePlace
<1>7. WrittenOnce' /\ LogOrder'
  BY <1>2 DEF WrittenOnce, LogOrder
<1> QED BY <1>4, <1>6, <1>7

\* The other steps of the callers concern no OSD.
LEMMA GoesOnInv ==
  ASSUME CInv, NEW w \in Writers, WriterGoesOn(w) \/ WakeSpuriously(w), IInv'
  PROVE  CInv'
<1> USE DEF CInv
<1>1. UNCHANGED <<reached, acked, requests, written, acks, log, known>>
  BY DEF WriterGoesOn, WakeSpuriously, osd_vars, AddReqToWaitList, SendReqFails, SendLoopEnds,
         RemoveReqFromWaitList, ReqFinished, CondWait, RecheckFails, SpuriousWakeup
<1>2. \A q \in Requests : Wrote(q)' = Wrote(q)
  BY <1>1 DEF Wrote
<1>3. OsdTypeOK' /\ WrittenOnce'
  BY <1>1 DEF OsdTypeOK, WrittenOnce
<1>4. OnePlace'
  BY <1>1, <1>2 DEF OnePlace
<1>5. LogOrder'
  BY <1>1 DEF LogOrder
<1> QED BY <1>3, <1>4, <1>5

\* An ack moves from the network to the client.
LEMMA RecvAckInv ==
  ASSUME CInv, NEW r \in Requests, NEW o \in OSDs, RecvAck(r, o), IInv'
  PROVE  CInv'
<1> USE DEF CInv
<1>1. /\ acks[r][o] = 1 /\ o \in Wrote(r)
      /\ acked' = [acked EXCEPT ![r] = @ \cup {o}]
      /\ acks' = [acks EXCEPT ![r][o] = @ - 1]
      /\ UNCHANGED <<reached, requests, written, log, known>>
  BY DEF RecvAck, DoObjectWriteAck, AckFound, AckNotFound, OnePlace
<1>2. \A q \in Requests : Wrote(q)' = Wrote(q)
  BY <1>1 DEF Wrote
<1>3. acked \in [Requests -> SUBSET OSDs]
  BY DEF IInv, TypeOK, QW!TypeOK
<1>4. \A q \in Requests, p \in OSDs :
        /\ acks'[q][p] = IF q = r /\ p = o THEN 0 ELSE acks[q][p]
        /\ p \in acked'[q] <=> p \in acked[q] \/ (q = r /\ p = o)
  BY <1>1, <1>3 DEF OsdTypeOK
<1>5. OsdTypeOK'
  <2>1. acks' \in [Requests -> [OSDs -> Nat]]
    BY <1>1 DEF OsdTypeOK
  <2> QED BY <1>1, <2>1 DEF OsdTypeOK
<1>6. OnePlace'
  <2> SUFFICES ASSUME NEW q \in Requests, NEW p \in OSDs
               PROVE  /\ <<q, p>> \in requests => p \in reached[q] /\ p \notin Wrote(q)
                      /\ <<q, p>> \in written =>
                           p \in Wrote(q) /\ acks'[q][p] = 0 /\ p \notin acked'[q]
                      /\ acks'[q][p] > 0 =>
                           acks'[q][p] = 1 /\ p \in Wrote(q) /\ p \notin acked'[q]
                      /\ p \in acked'[q] => p \in Wrote(q)
                      /\ p \in Wrote(q) => p \in reached[q]
    BY <1>1, <1>2, ZenonT(40) DEF OnePlace
  <2> QED BY <1>1, <1>4 DEF OnePlace
<1>7. WrittenOnce' /\ LogOrder'
  BY <1>1, <1>4 DEF WrittenOnce, LogOrder
<1> QED BY <1>5, <1>6, <1>7

(***************************************************************************)
(* The steps of the OSDs, and failures.                                    *)
(***************************************************************************)

LEMMA IoWriteInv ==
  ASSUME CInv, NEW r \in Requests, NEW o \in OSDs, NEW whole \in Outcomes(o),
         IoWriteObject(r, o, whole), IInv'
  PROVE  /\ CInv'
         /\ o \in reached[r] /\ o \notin Wrote(r)
         /\ \A q \in Requests : Wrote(q)' = IF q = r THEN Wrote(q) \cup {o} ELSE Wrote(q)
<1> USE DEF CInv
<1> DEFINE e == [req |-> r, whole |-> whole]
           L == log[o]
<1>1. /\ <<r, o>> \in requests
      /\ requests' = requests \ {<<r, o>>}
      /\ written' = written \cup {<<r, o>>}
      /\ log' = [log EXCEPT ![o] = Append(@, e)]
      /\ UNCHANGED <<reached, acked, acks, known>>
  BY DEF IoWriteObject, vars
<1>2. whole \in BOOLEAN
  BY DEF Outcomes
<1>3. /\ L \in Seq([req : Requests, whole : BOOLEAN])
      /\ e \in [req : Requests, whole : BOOLEAN]
  BY <1>2 DEF OsdTypeOK
<1>4. o \in reached[r] /\ o \notin Wrote(r)
  BY <1>1 DEF OnePlace
<1>5. /\ Len(L) \in Nat
      /\ log'[o] = Append(L, e)
      /\ Append(L, e) \in Seq([req : Requests, whole : BOOLEAN])
      /\ Len(log'[o]) = Len(L) + 1
      /\ log'[o][Len(L) + 1] = e
      /\ \A i \in 1 .. Len(L) : log'[o][i] = L[i]
      /\ \A p \in OSDs : p # o => log'[p] = log[p]
  BY <1>1, <1>3, AppendProperties, LenProperties DEF OsdTypeOK
<1>6. \A q \in Requests : Wrote(q)' = IF q = r THEN Wrote(q) \cup {o} ELSE Wrote(q)
  <2> SUFFICES ASSUME NEW q \in Requests, NEW p \in OSDs
               PROVE  (\E k \in 1 .. Len(log'[p]) : log'[p][k].req = q)
                         <=> (\E k \in 1 .. Len(log[p]) : log[p][k].req = q) \/ (q = r /\ p = o)
    BY DEF Wrote
  <2>1. CASE p # o
    BY <1>5, <2>1
  <2>2. CASE p = o
    <3>1. ASSUME NEW k \in 1 .. Len(log'[o]), log'[o][k].req = q
          PROVE  (\E l \in 1 .. Len(L) : L[l].req = q) \/ q = r
      <4>1. CASE k = Len(L) + 1
        BY <1>5, <3>1, <4>1
      <4>2. CASE k \in 1 .. Len(L)
        BY <1>5, <3>1, <4>2
      <4>3. k = Len(L) + 1 \/ k \in 1 .. Len(L)
        BY <1>5
      <4> QED BY <4>1, <4>2, <4>3
    <3>2. ASSUME NEW k \in 1 .. Len(L), L[k].req = q
          PROVE  k \in 1 .. Len(log'[o]) /\ log'[o][k].req = q
      BY <1>5, <3>2
    <3>3. Len(L) + 1 \in 1 .. Len(log'[o]) /\ log'[o][Len(L) + 1].req = r
      BY <1>5
    <3> QED BY <2>2, <3>1, <3>2, <3>3
  <2> QED BY <2>1, <2>2
<1>7. OsdTypeOK'
  <2>1. log' \in [OSDs -> Seq([req : Requests, whole : BOOLEAN])]
    BY <1>1, <1>5 DEF OsdTypeOK
  <2> QED BY <1>1, <2>1 DEF OsdTypeOK
<1>8. acks[r][o] = 0 /\ o \notin acked[r]
  <2>1. acks[r][o] \in Nat
    BY DEF OsdTypeOK
  <2>2. ~(acks[r][o] > 0) /\ o \notin acked[r]
    BY <1>4 DEF OnePlace
  <2> QED BY <2>1, <2>2
<1>9. OnePlace'
  <2> SUFFICES ASSUME NEW q \in Requests, NEW p \in OSDs
               PROVE  /\ <<q, p>> \in requests' => p \in reached[q] /\ p \notin Wrote(q)'
                      /\ <<q, p>> \in written' =>
                           p \in Wrote(q)' /\ acks[q][p] = 0 /\ p \notin acked[q]
                      /\ acks[q][p] > 0 =>
                           acks[q][p] = 1 /\ p \in Wrote(q)' /\ p \notin acked[q]
                      /\ p \in acked[q] => p \in Wrote(q)'
                      /\ p \in Wrote(q)' => p \in reached[q]
    BY <1>1 DEF OnePlace
  <2> QED BY <1>1, <1>4, <1>6, <1>8 DEF OnePlace
\* Nobody wrote r at o before.
<1>10. \A i \in 1 .. Len(L) : L[i].req # r
  BY <1>4 DEF Wrote
<1>11. WrittenOnce'
  <2> SUFFICES ASSUME NEW p \in OSDs, NEW i \in 1 .. Len(log'[p]), NEW j \in 1 .. Len(log'[p]),
                      log'[p][i].req = log'[p][j].req
               PROVE  i = j
    BY DEF WrittenOnce
  <2>1. CASE p # o
    BY <1>5, <2>1 DEF WrittenOnce
  <2>2. CASE p = o
    <3>1. /\ i \in 1 .. Len(L) \/ i = Len(L) + 1
          /\ j \in 1 .. Len(L) \/ j = Len(L) + 1
      BY <1>5, <2>2
    <3>2. \A k \in 1 .. Len(L) : log'[o][k].req # r /\ log'[o][k].req = L[k].req
      BY <1>5, <1>10
    <3>3. log'[o][Len(L) + 1].req = r
      BY <1>5
    <3>4. \A k, l \in 1 .. Len(L) : L[k].req = L[l].req => k = l
      BY DEF WrittenOnce
    <3> QED BY <2>2, <3>1, <3>2, <3>3, <3>4
  <2> QED BY <2>1, <2>2
<1>12. LogOrder'
  <2> SUFFICES ASSUME NEW s \in Requests, NEW q \in Requests, NEW p \in OSDs,
                      <<q, p>> \in known[s],
                      NEW i \in 1 .. Len(log'[p]), NEW j \in 1 .. Len(log'[p]),
                      log'[p][i].req = s, log'[p][j].req = q
               PROVE  j < i
    BY <1>1 DEF LogOrder
  <2>1. CASE p # o
    BY <1>5, <2>1 DEF LogOrder
  <2>2. CASE p = o
    <3>1. q # r
      BY <1>8, <2>2 DEF LogOrder
    <3>2. j \in 1 .. Len(L) /\ L[j].req = q
      <4>1. log'[o][Len(L) + 1].req = r
        BY <1>5
      <4>2. j = Len(L) + 1 \/ j \in 1 .. Len(L)
        BY <1>5, <2>2
      <4>3. j # Len(L) + 1
        BY <2>2, <3>1, <4>1
      <4> QED BY <1>5, <2>2, <4>2, <4>3
    <3>3. CASE i = Len(L) + 1
      BY <1>5, <3>2, <3>3
    <3>4. CASE i \in 1 .. Len(L)
      <4>1. L[i].req = s
        BY <1>5, <2>2, <3>4
      <4>2. \A k, l \in 1 .. Len(L) : L[k].req = s /\ L[l].req = q => l < k
        BY <2>2 DEF LogOrder
      <4> QED BY <3>2, <3>4, <4>1, <4>2
    <3>5. i = Len(L) + 1 \/ i \in 1 .. Len(L)
      BY <1>5, <2>2
    <3> QED BY <3>3, <3>4, <3>5
  <2> QED BY <2>1, <2>2
<1> QED BY <1>4, <1>6, <1>7, <1>9, <1>11, <1>12

\* What the OSDs send, and what is lost.
LEMMA TransitInv ==
  ASSUME CInv, NEW r \in Requests, NEW o \in OSDs,
         SendAck(r, o) \/ SendAckFails(r, o) \/ LoseRequest(r, o) \/ LoseAck(r, o),
         IInv'
  PROVE  CInv'
<1> USE DEF CInv
<1>1. /\ requests' \subseteq requests /\ written' \subseteq written
      /\ UNCHANGED <<reached, acked, log, known>>
  BY DEF SendAck, SendAckFails, LoseRequest, LoseAck, vars
<1>2. \/ UNCHANGED acks
      \/ acks[r][o] = 1 /\ acks' = [acks EXCEPT ![r][o] = 0]
      \/ /\ acks[r][o] = 0 /\ acks' = [acks EXCEPT ![r][o] = 1]
         /\ <<r, o>> \in written /\ <<r, o>> \notin written'
  BY DEF SendAck, SendAckFails, LoseRequest, LoseAck, OnePlace, OsdTypeOK
<1>3. \A q \in Requests : Wrote(q)' = Wrote(q)
  BY <1>1 DEF Wrote
<1>4. OsdTypeOK'
  <2>1. ASSUME NEW n \in Nat PROVE [acks EXCEPT ![r][o] = n] \in [Requests -> [OSDs -> Nat]]
    BY DEF OsdTypeOK
  <2>2. acks' = acks \/ acks' = [acks EXCEPT ![r][o] = 0] \/ acks' = [acks EXCEPT ![r][o] = 1]
    BY <1>2
  <2>3. [acks EXCEPT ![r][o] = 0] \in [Requests -> [OSDs -> Nat]]
    BY <2>1
  <2>4. [acks EXCEPT ![r][o] = 1] \in [Requests -> [OSDs -> Nat]]
    BY <2>1
  <2>5. acks' \in [Requests -> [OSDs -> Nat]]
    BY <2>2, <2>3, <2>4 DEF OsdTypeOK
  <2> QED BY <1>1, <2>5 DEF OsdTypeOK
<1>5. OnePlace'
  <2> SUFFICES ASSUME NEW q \in Requests, NEW p \in OSDs
               PROVE  /\ <<q, p>> \in requests' => p \in reached[q] /\ p \notin Wrote(q)
                      /\ <<q, p>> \in written' =>
                           p \in Wrote(q) /\ acks'[q][p] = 0 /\ p \notin acked[q]
                      /\ acks'[q][p] > 0 =>
                           acks'[q][p] = 1 /\ p \in Wrote(q) /\ p \notin acked[q]
                      /\ p \in acked[q] => p \in Wrote(q)
                      /\ p \in Wrote(q) => p \in reached[q]
    BY <1>1, <1>3 DEF OnePlace
  <2>1. acks'[q][p] = IF q = r /\ p = o THEN acks'[r][o] ELSE acks[q][p]
    BY <1>2 DEF OsdTypeOK
  <2>2. CASE UNCHANGED acks
    BY <1>1, <2>2 DEF OnePlace
  <2>3. CASE acks[r][o] = 1 /\ acks' = [acks EXCEPT ![r][o] = 0]
    <3>1. acks'[r][o] = 0
      BY <2>3 DEF OsdTypeOK
    <3> QED BY <1>1, <2>1, <3>1 DEF OnePlace
  <2>4. CASE /\ acks[r][o] = 0 /\ acks' = [acks EXCEPT ![r][o] = 1]
             /\ <<r, o>> \in written /\ <<r, o>> \notin written'
    <3>1. acks'[r][o] = 1
      BY <2>4 DEF OsdTypeOK
    <3> QED BY <1>1, <2>1, <2>4, <3>1 DEF OnePlace
  <2> QED BY <1>2, <2>2, <2>3, <2>4
<1>6. WrittenOnce' /\ LogOrder'
  BY <1>1 DEF WrittenOnce, LogOrder
<1> QED BY <1>4, <1>5, <1>6

LEMMA CrashInv ==
  ASSUME CInv, NEW o \in OSDs, CrashAndRestart(o), IInv'
  PROVE  CInv'
<1> USE DEF CInv
<1>1. /\ requests' \subseteq requests /\ written' \subseteq written
      /\ UNCHANGED <<reached, acked, acks, log, known>>
  BY DEF CrashAndRestart, vars
<1>2. \A q \in Requests : Wrote(q)' = Wrote(q)
  BY <1>1 DEF Wrote
<1>3. OsdTypeOK' /\ WrittenOnce'
  BY <1>1 DEF OsdTypeOK, WrittenOnce
<1>5. LogOrder'
  BY <1>1 DEF LogOrder
<1>4. OnePlace'
  BY <1>1, <1>2 DEF OnePlace
<1> QED BY <1>3, <1>4, <1>5

LEMMA ClusterStepInv == CInv /\ [ClusterNext]_cluster_vars => CInv'
<1> SUFFICES ASSUME CInv, [ClusterNext]_cluster_vars PROVE CInv'
  OBVIOUS
<1>1. IInv'
  BY ClusterStep, StepInv DEF CInv
<1>2. CASE UNCHANGED cluster_vars
  <2>1. UNCHANGED <<reached, acked, requests, written, acks, log, known>>
    BY <1>2 DEF cluster_vars, vars, osd_vars
  <2>2. \A q \in Requests : Wrote(q)' = Wrote(q)
    BY <2>1 DEF Wrote
  <2>3. OsdTypeOK' /\ WrittenOnce'
    BY <2>1 DEF CInv, OsdTypeOK, WrittenOnce
  <2>4. OnePlace'
    BY <2>1, <2>2 DEF CInv, OnePlace
  <2>5. LogOrder'
    BY <2>1 DEF CInv, LogOrder
  <2> QED BY <1>1, <2>3, <2>4, <2>5 DEF CInv
<1>3. ASSUME ClientNext PROVE CInv'
  BY <1>1, <1>3, BeginInv, SendToOsdInv, GoesOnInv, RecvAckInv DEF ClientNext
<1>4. ASSUME OsdNext \/ FaultNext PROVE CInv'
  BY <1>1, <1>4, IoWriteInv, TransitInv, CrashInv DEF OsdNext, FaultNext
<1> QED BY <1>2, <1>3, <1>4 DEF ClusterNext

THEOREM ClusterInvariance == ClusterSpec => []CInv
BY ClusterInitInv, ClusterStepInv, PTL DEF ClusterSpec

(***************************************************************************)
(* What follows.                                                           *)
(***************************************************************************)

\* In the cluster the client is what Client says of it, whatever the OSDs do:
\* every theorem about Client is one about the cluster.
THEOREM ClusterHoldsClient == ClusterSpec => Spec
<1>1. ClusterInit => Init
  BY DEF ClusterInit
<1> QED BY <1>1, ClusterStep, PTL DEF ClusterSpec, Spec

\* Every variable keeps its type.
THEOREM ClusterTypeCorrect == ClusterSpec => []ClusterTypeOK
<1>1. CInv => ClusterTypeOK
  BY DEF CInv, IInv, OsdTypeOK, ClusterTypeOK
<1> QED BY <1>1, ClusterInvariance, PTL

\* No ack comes twice, or to a client that did not ask.
THEOREM AcksExpected == ClusterSpec => []AcksAreExpected
<1>1. CInv => AcksAreExpected
  BY DEF CInv, OnePlace, AcksAreExpected
<1> QED BY <1>1, ClusterInvariance, PTL

\* Writes that were acknowledged before another was begun stay before it.
THEOREM LaterWritesLater == ClusterSpec => []LaterWritesComeLater
<1>1. CInv => LaterWritesComeLater
  <2> SUFFICES ASSUME CInv, NEW r \in Requests, NEW q \in Requests, NEW o \in OSDs,
                      <<q, o>> \in known[r], o \in Wrote(r)
               PROVE  o \in Wrote(q) /\ Position(o, q) < Position(o, r)
    BY DEF LaterWritesComeLater
  <2>1. o \in Wrote(q)
    BY DEF CInv, LogOrder, OnePlace
  <2>2. /\ Position(o, q) \in 1 .. Len(log[o]) /\ log[o][Position(o, q)].req = q
        /\ Position(o, r) \in 1 .. Len(log[o]) /\ log[o][Position(o, r)].req = r
    BY <2>1 DEF Wrote, Position
  <2> QED BY <2>1, <2>2 DEF CInv, LogOrder
<1> QED BY <1>1, ClusterInvariance, PTL

(***************************************************************************)
(* The second of two writes stays.                                         *)
(***************************************************************************)

KnownOf(r, q) == {o \in OSDs : <<q, o>> \in known[r]}

\* Of a write that had returned CCEPH_OK a majority of acks is known.
KnownMajority ==
  \A r, q \in Requests : KnownOf(r, q) # {} => QW!Majority(KnownOf(r, q))

LEMMA KnownMajorityStep ==
  CInv /\ KnownMajority /\ [ClusterNext]_cluster_vars => KnownMajority'
<1> SUFFICES ASSUME CInv, KnownMajority, [ClusterNext]_cluster_vars PROVE KnownMajority'
  OBVIOUS
<1>1. CASE UNCHANGED known
  BY <1>1 DEF KnownMajority, KnownOf
<1>2. ASSUME NEW w \in Writers, BeginWrite(w) PROVE KnownMajority'
  <2> SUFFICES ASSUME NEW r \in Requests, NEW q \in Requests, KnownOf(r, q)' # {}
               PROVE  QW!Majority(KnownOf(r, q)')
    BY DEF KnownMajority, QW!Majority
  <2> DEFINE new == {p \in Requests \X OSDs : result[p[1]] = "OK" /\ p[2] \in acked[p[1]]}
  <2>1. known' = [known EXCEPT ![req_id'] = new]
    BY <1>2 DEF BeginWrite
  <2>2. CASE r # req_id'
    <3>1. KnownOf(r, q)' = KnownOf(r, q)
      BY <2>1, <2>2 DEF KnownOf, CInv, OsdTypeOK
    <3> QED BY <3>1 DEF KnownMajority
  <2>3. CASE r = req_id'
    <3>1. known'[r] = new
      BY <2>1, <2>3 DEF CInv, OsdTypeOK
    <3>2. acked[q] \subseteq OSDs
      BY DEF CInv, IInv, TypeOK, QW!TypeOK
    <3>3. KnownOf(r, q)' = IF result[q] = "OK" THEN acked[q] ELSE {}
      BY <3>1, <3>2 DEF KnownOf
    <3>4. QW!Majority(acked[q])
      BY <3>3 DEF CInv, IInv, OkMeansMajority, QW!OkMeansMajority
    <3> QED BY <3>3, <3>4
  <2> QED BY <2>2, <2>3
<1>3. UNCHANGED known \/ \E w \in Writers : BeginWrite(w)
  BY DEF ClusterNext, ClientNext, OsdNext, FaultNext, SendToOsd, WriterGoesOn, WakeSpuriously,
         RecvAck, IoWriteObject, SendAck, SendAckFails, LoseRequest, LoseAck,
         CrashAndRestart, cluster_vars
<1> QED BY <1>1, <1>2, <1>3

\* Of two writes the second, begun after the first had returned CCEPH_OK, is the
\* last in the log of an OSD that acknowledged both, when it has returned
\* CCEPH_OK; there is such an OSD because two majorities have a common member.
THEOREM SecondWriteSurvives == ClusterSpec => []SecondWriteStays
<1>1. CInv /\ KnownMajority => SecondWriteStays
  <2> SUFFICES ASSUME CInv, KnownMajority, NEW q \in Requests, NEW r \in Requests,
                      req_id = 2, q # r, result[q] = "OK", result[r] = "OK",
                      KnownOf(r, q) # {}, AllWhole
               PROVE  \E o \in OSDs : Holds(o, r)
    BY DEF SecondWriteStays, KnownOf
  <2>1. acked[r] \in SUBSET OSDs /\ KnownOf(r, q) \in SUBSET OSDs
    BY DEF KnownOf, CInv, IInv, TypeOK, QW!TypeOK
  <2>2. QW!Majority(acked[r]) /\ QW!Majority(KnownOf(r, q))
    BY DEF KnownMajority, CInv, IInv, OkMeansMajority, QW!OkMeansMajority
  <2>3. acked[r] \cap KnownOf(r, q) # {}
    <3>1. /\ Cardinality(acked[r]) > OsdCount \div 2
          /\ Cardinality(KnownOf(r, q)) > OsdCount \div 2
      BY <2>2, MajorityIsEnough DEF Enough
    <3>2. Cardinality(acked[r]) \in Nat /\ Cardinality(KnownOf(r, q)) \in Nat
      BY <2>1, OsdSubset
    <3>3. Cardinality(acked[r]) + Cardinality(KnownOf(r, q)) > OsdCount
      BY <3>1, <3>2, OsdCountIsNat
    <3> QED BY <2>1, <3>3, OSDsCard, FS_MajoritiesIntersect
  <2>4. PICK o \in OSDs : o \in acked[r] /\ <<q, o>> \in known[r]
    BY <2>1, <2>3 DEF KnownOf
  <2>5. o \in Wrote(r)
    BY <2>4 DEF CInv, OnePlace
  <2>6. PICK i \in 1 .. Len(log[o]) : log[o][i].req = r
    BY <2>5 DEF Wrote
  <2>7. log[o] \in Seq([req : Requests, whole : BOOLEAN])
    BY DEF CInv, OsdTypeOK
  <2>8. log[o] # << >> /\ Len(log[o]) \in 1 .. Len(log[o])
    BY <2>6, <2>7
  <2> DEFINE last == log[o][Len(log[o])]
  <2>9. last \in [req : Requests, whole : BOOLEAN]
    <3>1. \A S : \A s \in Seq(S) : \A k \in 1 .. Len(s) : s[k] \in S
      OBVIOUS
    <3> QED BY <2>7, <2>8, <3>1, Zenon
  <2>10. last.req = q \/ last.req = r
    <3>1. o \in Wrote(last.req)
      BY <2>8 DEF Wrote
    <3>2. reached[last.req] # {}
      BY <2>9, <3>1 DEF CInv, OnePlace
    <3>3. \A x \in Requests : reached[x] # {} \/ result[x] = "OK" => x \in 1 .. 2
      BY DEF CInv, IInv, FutureReqsUntouched, Requests
    <3> QED BY <2>9, <3>2, <3>3
  <2>11. last.req # q
    <3> SUFFICES ASSUME last.req = q PROVE FALSE
      OBVIOUS
    <3>1. Len(log[o]) < i
      BY <2>4, <2>6, <2>8 DEF CInv, LogOrder
    <3> QED BY <2>6, <2>7, <3>1
  <2>12. last = [req |-> r, whole |-> TRUE]
    BY <2>8, <2>9, <2>10, <2>11 DEF AllWhole
  <2> QED BY <2>8, <2>12 DEF Holds, Last
<1>2. ClusterInit => KnownMajority
  BY DEF ClusterInit, KnownMajority, KnownOf
<1> QED BY <1>1, <1>2, KnownMajorityStep, ClusterInvariance, PTL DEF ClusterSpec

(***************************************************************************)
(* The cluster implements QuorumWrite on the disks of the OSDs.            *)
(***************************************************************************)

\* A majority of acks is a majority of writes.
LEMMA AckedMajorityWrote ==
  ASSUME CInv, NEW r \in Requests, QW!Majority(acked[r])
  PROVE  OnDisk!Majority(Wrote(r))
<1>1. acked[r] \subseteq Wrote(r) /\ Wrote(r) \in SUBSET OSDs
  BY DEF CInv, OnePlace, IInv, TypeOK, QW!TypeOK, Wrote
<1>2. Cardinality(acked[r]) <= Cardinality(Wrote(r))
  BY <1>1, OsdSubset, FS_Subset
<1>3. Enough(Cardinality(acked[r]))
  BY MajorityIsEnough
<1>4. Cardinality(acked[r]) \in Nat /\ Cardinality(Wrote(r)) \in Nat
  BY <1>1, OsdSubset
<1>5. Enough(Cardinality(Wrote(r)))
  BY <1>2, <1>3, <1>4, OsdCountIsNat DEF Enough
<1>6. OnDisk!Cardinality(Wrote(r)) = Cardinality(Wrote(r)) /\ OnDisk!Cardinality(OSDs) = OsdCount
  BY OSDsCard DEF OnDisk!Cardinality, Cardinality
<1> QED BY <1>5, <1>6 DEF OnDisk!Majority, Enough

\* Whatever happens on its way, a write that returns CCEPH_OK has been tried on
\* the disks of a majority.
THEOREM ClusterRefinement == ClusterSpec => WritesComeBeforeOk
<1>1. ClusterInit => OnDisk!Init
  <2> SUFFICES ASSUME ClusterInit PROVE OnDisk!Init
    OBVIOUS
  <2>1. \A r \in Requests : Wrote(r) = {}
    BY DEF ClusterInit, Wrote
  <2> QED BY <2>1 DEF ClusterInit, Init, QW!Init, OnDisk!Init
<1>2. CInv /\ CInv' /\ [ClusterNext]_cluster_vars => [OnDisk!Next]_(OnDisk!vars)
  <2> SUFFICES ASSUME CInv, CInv', [ClusterNext]_cluster_vars
               PROVE  [OnDisk!Next]_(OnDisk!vars)
    OBVIOUS
  <2>1. CASE UNCHANGED log
    <3>1. \A r \in Requests : Wrote(r)' = Wrote(r)
      BY <2>1 DEF Wrote
    <3>2. [r \in Requests |-> Wrote(r)]' = [r \in Requests |-> Wrote(r)]
      BY <3>1
    <3>3. [QW!Next]_(QW!vars)
      BY ClusterStep, StepRefines DEF CInv
    <3>4. ASSUME NEW r \in Requests, QW!Begin(r) PROVE OnDisk!Begin(r)
      BY <3>2, <3>4 DEF QW!Begin, OnDisk!Begin
    <3>5. ASSUME NEW r \in Requests, QW!Succeed(r) PROVE OnDisk!Succeed(r)
      <4>1. OnDisk!Majority(Wrote(r))
        BY <3>5, AckedMajorityWrote DEF QW!Succeed
      <4> QED BY <3>2, <3>5, <4>1 DEF QW!Succeed, OnDisk!Succeed
    <3>6. ASSUME NEW r \in Requests, QW!Fail(r) PROVE OnDisk!Fail(r)
      BY <3>2, <3>6 DEF QW!Fail, OnDisk!Fail, QW!Majority, OnDisk!Majority,
                        QW!Cardinality, OnDisk!Cardinality
    <3>7. ASSUME NEW r \in Requests, NEW o \in OSDs, QW!Reach(r, o) PROVE OnDisk!Reach(r, o)
      BY <3>2, <3>7 DEF QW!Reach, OnDisk!Reach
    <3>8. ASSUME NEW r \in Requests, NEW o \in OSDs, QW!Ack(r, o) PROVE UNCHANGED OnDisk!vars
      BY <3>2, <3>8 DEF QW!Ack, OnDisk!vars
    <3>9. CASE UNCHANGED QW!vars
      BY <3>2, <3>9 DEF QW!vars, OnDisk!vars
    <3> QED BY <3>3, <3>4, <3>5, <3>6, <3>7, <3>8, <3>9 DEF QW!Next, OnDisk!Next
  <2>2. ASSUME NEW r \in Requests, NEW o \in OSDs, NEW whole \in Outcomes(o),
               IoWriteObject(r, o, whole)
        PROVE  OnDisk!Ack(r, o)
    <3>1. /\ o \in reached[r] /\ o \notin Wrote(r)
          /\ \A q \in Requests : Wrote(q)' = IF q = r THEN Wrote(q) \cup {o} ELSE Wrote(q)
      BY <2>2, IoWriteInv DEF CInv
    <3>2. [q \in Requests |-> Wrote(q)]'
             = [[q \in Requests |-> Wrote(q)] EXCEPT ![r] = @ \cup {o}]
      BY <3>1
    <3>3. UNCHANGED <<result, reached>>
      BY <2>2 DEF IoWriteObject, vars
    <3> QED BY <3>1, <3>2, <3>3 DEF OnDisk!Ack
  <2>3. \/ UNCHANGED log
        \/ \E r \in Requests, o \in OSDs : \E whole \in Outcomes(o) : IoWriteObject(r, o, whole)
    BY DEF ClusterNext, ClientNext, OsdNext, FaultNext, BeginWrite, SendToOsd, WriterGoesOn,
           WakeSpuriously, RecvAck, SendAck, SendAckFails, LoseRequest, LoseAck,
           CrashAndRestart, cluster_vars, osd_vars
  <2> QED BY <2>1, <2>2, <2>3 DEF OnDisk!Next
<1> QED BY <1>1, <1>2, ClusterInvariance, PTL
        DEF ClusterSpec, WritesComeBeforeOk, OnDisk!Spec
=============================================================================
