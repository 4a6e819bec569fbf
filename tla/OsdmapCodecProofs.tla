------------------------- MODULE OsdmapCodecProofs -------------------------
(***************************************************************************)
(* A buffer keeps what is appended to it, and its readers read it in order,*)
(* whatever the length of its nodes, of what is appended and of the reads, *)
(* and wherever an append finds no memory.                                 *)
(*                                                                         *)
(* A map that was encoded without a failed append is decoded as it was, by *)
(* a reader that stands where it begins: for any maps, any other bytes in  *)
(* the buffer, and nodes of any length.                                    *)
(***************************************************************************)
EXTENDS OsdmapCodec, SequenceTheorems, TLAPS

\* The calls of users, whatever they append and read.
BufferStep == \/ \E bytes \in Seq(Byte) \ {<< >>} : AppendCall(bytes)
              \/ \E n \in Nat \ {0} : Read(n)
              \/ FlatEmpty \/ FlatFails \/ Flat \/ NewReader
              \/ Turn

BufferSpec == Init /\ [][BufferStep]_vars

\* The chunks and lengths of Buffer are some.
LEMMA SpecIsBufferSpec == Spec => BufferSpec
<1>1. [Next]_vars => [BufferStep]_vars
  BY ChunksAssumption, ReadsAssumption DEF Next, BufferStep
<1> QED BY <1>1, PTL DEF Spec, BufferSpec

\* Where in the buffer the bytes of node i begin.
Pos(i) == NODE_LENGTH * (i - 1)

\* The nodes follow each other.
LEMMA PosFacts ==
  /\ Pos(1) = 0
  /\ \A i \in Int : Pos(i) \in Int /\ Pos(i + 1) = Pos(i) + NODE_LENGTH
  /\ \A i, k \in Int : i <= k => Pos(i) <= Pos(k)
<1>1. NODE_LENGTH \in Nat /\ NODE_LENGTH > 0
  BY NodeLengthAssumption
<1>2. Pos(1) = 0
  BY <1>1 DEF Pos
<1>3. ASSUME NEW i \in Int PROVE Pos(i) \in Int /\ Pos(i + 1) = Pos(i) + NODE_LENGTH
  BY <1>1 DEF Pos
<1>4. ASSUME NEW i \in Int, NEW k \in Int, i <= k PROVE Pos(i) <= Pos(k)
  <2>1. NODE_LENGTH * (k - i) >= 0
    BY <1>1, <1>4
  <2>2. NODE_LENGTH * (k - 1) = NODE_LENGTH * (i - 1) + NODE_LENGTH * (k - i)
    BY <1>1
  <2> QED BY <1>1, <2>1, <2>2 DEF Pos
<1> QED BY <1>2, <1>3, <1>4

----------------------------------------------------------------------------
\* What makes the properties inductive.

\* ChainIsExact by positions, and how far the last node is filled: only a new
\* buffer has an empty node.
ChainByPos ==
  /\ length = Pos(Len(data) + 1)
  /\ offset = Len(appended)
  /\ offset = Pos(Tail_) + used[Tail_]
  /\ used[Tail_] = 0 => Tail_ = 1
  /\ \A i \in Nodes : i # Tail_ => used[i] = NODE_LENGTH
  /\ \A i \in Nodes : \A j \in 1 .. used[i] : data[i][j] = appended[Pos(i) + j]

\* A call has something to do, and has not returned.
CallsInProgress ==
  /\ pc = "append" => left # << >>
  /\ pc = "read" => wanted > 0
  /\ pc = "flat" => node # NULL /\ flat = SubSeq(appended, 1, Pos(node))
  /\ pc \in {"append", "flat", "read"} => ret = "none"

\* A reader that has not come to its end stands before a byte, unless there
\* is none.
ReaderInPlace ==
  /\ Len(consumed) <= Len(appended)
  /\ rnode # NULL => /\ Len(consumed) = Pos(rnode) + rptr
                     /\ rptr < used[rnode] \/ (offset = 0 /\ rptr = 0)

BInv == TypeOK /\ ChainByPos /\ CallsInProgress /\ ReaderInPlace
        /\ ReadsInOrder /\ AbortsOnlyWhenEmpty

\* The types of the parts of the state, apart.
LEMMA Types ==
  ASSUME TypeOK
  PROVE  /\ Len(data) \in Nat /\ Len(data) > 0 /\ Len(used) = Len(data)
         /\ \A i \in Nodes : used[i] \in 0 .. NODE_LENGTH
         /\ \A i \in Nodes : data[i] \in [1 .. NODE_LENGTH -> Byte \cup {Unset}]
         /\ Len(appended) \in Nat /\ Len(left) \in Nat /\ Len(consumed) \in Nat
         /\ NODE_LENGTH \in Nat /\ NODE_LENGTH > 0
<1>1. \A S : \A s \in Seq(S) : Len(s) \in Nat /\ \A k \in 1 .. Len(s) : s[k] \in S
  OBVIOUS
<1>2. Len(data) \in Nat /\ Len(used) = Len(data) /\ Len(data) > 0
  BY <1>1 DEF TypeOK
<1>3. \A i \in Nodes : used[i] \in 0 .. NODE_LENGTH
  BY <1>1, <1>2 DEF TypeOK, Nodes
<1>4. \A i \in Nodes : data[i] \in [1 .. NODE_LENGTH -> Byte \cup {Unset}]
  BY <1>1 DEF TypeOK, Nodes
<1>5. Len(appended) \in Nat /\ Len(left) \in Nat /\ Len(consumed) \in Nat
  BY <1>1 DEF TypeOK
<1> QED BY <1>2, <1>3, <1>4, <1>5, NodeLengthAssumption

\* The chain by positions is what buffer.c:128 asserts.
LEMMA ChainLemma == ASSUME TypeOK, ChainByPos PROVE ChainIsExact
<1>1. length = NODE_LENGTH * Len(data)
  <2>1. Len(data) + 1 - 1 = Len(data)
    BY Types
  <2> QED BY <2>1 DEF ChainByPos, Pos
<1>2. offset <= length
  <2>1. Tail_ \in Nodes /\ Tail_ \in Int
    BY Types DEF Nodes, Tail_
  <2>2. used[Tail_] <= NODE_LENGTH /\ used[Tail_] \in Int
    BY <2>1, Types
  <2>3. Pos(Tail_ + 1) = Pos(Tail_) + NODE_LENGTH /\ Pos(Tail_) \in Int
    BY <2>1, PosFacts
  <2>4. offset = Pos(Tail_) + used[Tail_] /\ length = Pos(Tail_ + 1)
    BY DEF ChainByPos, Tail_
  <2> QED BY <2>2, <2>3, <2>4, Types
<1>3. \A i \in Nodes : \A j \in 1 .. used[i] : data[i][j] = appended[NODE_LENGTH * (i - 1) + j]
  BY DEF ChainByPos, Pos
<1> QED BY <1>1, <1>2, <1>3 DEF ChainIsExact, ChainByPos

\* What is in a node is what was appended at its place.
LEMMA NodeContent ==
  ASSUME TypeOK, ChainByPos, NEW i \in Nodes
  PROVE  /\ Pos(i) \in Nat /\ used[i] \in Nat
         /\ Pos(i) + used[i] <= Len(appended)
         /\ i # Tail_ => Pos(i + 1) = Pos(i) + used[i]
         /\ i = Tail_ => Pos(i) + used[i] = Len(appended)
<1>1. i \in Nat /\ i >= 1 /\ i <= Tail_ /\ Tail_ \in Nat /\ Tail_ \in Nodes
  BY Types DEF Nodes, Tail_
<1>2. used[i] \in Nat /\ used[i] <= NODE_LENGTH /\ used[Tail_] \in Nat
  BY <1>1, Types
<1>3. Pos(i) \in Nat
  BY <1>1, PosFacts
<1>4. CASE i = Tail_
  BY <1>1, <1>2, <1>3, <1>4 DEF ChainByPos
<1>5. CASE i # Tail_
  <2>1. used[i] = NODE_LENGTH /\ Pos(i + 1) = Pos(i) + used[i]
    BY <1>1, <1>5, PosFacts DEF ChainByPos
  <2>2. Pos(i + 1) <= Pos(Tail_) /\ Pos(Tail_) \in Int
    BY <1>1, <1>5, PosFacts
  <2> QED BY <1>1, <1>2, <1>3, <1>5, <2>1, <2>2 DEF ChainByPos
<1> QED BY <1>4, <1>5

\* A new buffer and its reader are in order.
LEMMA BInvInit == Init => BInv
<1> SUFFICES ASSUME Init PROVE BInv
  OBVIOUS
<1>1. NODE_LENGTH \in Nat /\ NODE_LENGTH > 0
  BY NodeLengthAssumption
<1>2. NewNode \in [1 .. NODE_LENGTH -> Byte \cup {Unset}]
  BY DEF NewNode
<1>3. /\ Len(data) = 1 /\ Len(used) = 1 /\ used[1] = 0
      /\ data \in Seq([1 .. NODE_LENGTH -> Byte \cup {Unset}])
      /\ used \in Seq(0 .. NODE_LENGTH)
  BY <1>1, <1>2 DEF Init
<1>4. TypeOK
  BY <1>1, <1>3 DEF Init, TypeOK, Nodes, NULL
<1>5. ChainByPos
  <2>1. length = Pos(Len(data) + 1)
    BY <1>1, <1>3, PosFacts DEF Init
  <2>2. Tail_ = 1 /\ Nodes = {1}
    BY <1>3 DEF Tail_, Nodes
  <2> QED BY <1>3, <2>1, <2>2, PosFacts DEF Init, ChainByPos
<1>6. CallsInProgress /\ AbortsOnlyWhenEmpty
  BY DEF Init, CallsInProgress, AbortsOnlyWhenEmpty
<1>7. ReaderInPlace /\ ReadsInOrder
  BY PosFacts DEF Init, ReaderInPlace, ReadsInOrder
<1> QED BY <1>4, <1>5, <1>6, <1>7 DEF BInv

----------------------------------------------------------------------------
\* The steps.

\* A prefix of what is appended stays a prefix.
LEMMA PrefixStays ==
  ASSUME NEW s \in Seq(Byte), NEW t \in Seq(Byte), NEW n \in 0 .. Len(s)
  PROVE  SubSeq(s \o t, 1, n) = SubSeq(s, 1, n)
<1>1. CASE n = 0
  BY <1>1
<1>2. CASE n # 0
  BY <1>2, SubSeqOfConcat1
<1> QED BY <1>1, <1>2

\* What an append takes from its bytes in a turn.
LEMMA Taken ==
  ASSUME NEW s \in Seq(Byte), NEW n \in 1 .. Len(s)
  PROVE  /\ SubSeq(s, 1, n) \in Seq(Byte) /\ Len(SubSeq(s, 1, n)) = n
         /\ \A k \in 1 .. n : SubSeq(s, 1, n)[k] = s[k] /\ s[k] \in Byte
         /\ SubSeq(s, n + 1, Len(s)) \in Seq(Byte)
         /\ n # Len(s) => SubSeq(s, n + 1, Len(s)) # << >>
<1>1. \A k \in 1 .. Len(s) : s[k] \in Byte
  BY ElementOfSeq
<1>2. Len(s) \in Nat /\ n \in Nat /\ n <= Len(s)
  OBVIOUS
<1>3. /\ SubSeq(s, 1, n) \in Seq(Byte)
      /\ Len(SubSeq(s, 1, n)) = IF 1 <= n THEN n - 1 + 1 ELSE 0
      /\ \A k \in 1 .. n - 1 + 1 : SubSeq(s, 1, n)[k] = s[1 + k - 1]
  BY <1>1, <1>2, SubSeqProperties
<1>4. /\ SubSeq(s, n + 1, Len(s)) \in Seq(Byte)
      /\ Len(SubSeq(s, n + 1, Len(s))) = IF n + 1 <= Len(s) THEN Len(s) - (n + 1) + 1 ELSE 0
  BY <1>1, <1>2, SubSeqProperties
<1>5. n # Len(s) => SubSeq(s, n + 1, Len(s)) # << >>
  <2>1. \A x \in Seq(Byte) : Len(x) > 0 => x # << >>
    OBVIOUS
  <2>2. n # Len(s) => Len(SubSeq(s, n + 1, Len(s))) > 0
    BY <1>2, <1>4
  <2> QED BY <1>4, <2>1, <2>2
<1> QED BY <1>1, <1>2, <1>3, <1>4, <1>5

\* Steps that leave the chain alone.
LEMMA ChainUnchanged ==
  ASSUME ChainByPos, UNCHANGED buffer_vars
  PROVE  ChainByPos'
BY DEF ChainByPos, buffer_vars, Nodes, Tail_, Pos

Content == [1 .. NODE_LENGTH -> Byte \cup {Unset}]

\* What a copy into a node writes, and what it leaves.
LEMMA CopiedFacts ==
  ASSUME NODE_LENGTH \in Nat, left \in Seq(Byte), NEW n \in 1 .. Len(left),
         NEW d \in Seq(Content), NEW i \in 1 .. Len(d),
         NEW u \in Nat, u + n <= NODE_LENGTH
  PROVE  /\ Copied(i, u, n, d) \in Seq(Content)
         /\ Len(Copied(i, u, n, d)) = Len(d)
         /\ \A k \in 1 .. Len(d) : k # i => Copied(i, u, n, d)[k] = d[k]
         /\ \A j \in 1 .. u : Copied(i, u, n, d)[i][j] = d[i][j]
         /\ \A j \in u + 1 .. u + n : Copied(i, u, n, d)[i][j] = left[j - u]
<1> DEFINE new == [j \in 1 .. NODE_LENGTH |->
                     IF j \in u + 1 .. u + n THEN left[j - u] ELSE d[i][j]]
<1>1. \A k \in 1 .. n : left[k] \in Byte
  BY ElementOfSeq
<1>2. d[i] \in Content
  BY ElementOfSeq
<1>3. new \in Content
  <2> SUFFICES ASSUME NEW j \in 1 .. NODE_LENGTH
               PROVE  (IF j \in u + 1 .. u + n THEN left[j - u] ELSE d[i][j])
                        \in Byte \cup {Unset}
    BY DEF Content
  <2>1. CASE j \in u + 1 .. u + n
    <3>1. j - u \in 1 .. n
      BY <2>1
    <3> QED BY <1>1, <2>1, <3>1
  <2>2. CASE j \notin u + 1 .. u + n
    BY <1>2, <2>2 DEF Content
  <2> QED BY <2>1, <2>2
<1>4. Copied(i, u, n, d) = [d EXCEPT ![i] = new]
  BY DEF Copied
<1> HIDE DEF new
<1>5. /\ Copied(i, u, n, d) \in Seq(Content)
      /\ Len(Copied(i, u, n, d)) = Len(d)
      /\ \A k \in 1 .. Len(d) : Copied(i, u, n, d)[k] = IF k = i THEN new ELSE d[k]
  BY <1>3, <1>4, ExceptSeq
<1>6. \A j \in 1 .. u : new[j] = d[i][j]
  BY DEF new
<1>7. \A j \in u + 1 .. u + n : new[j] = left[j - u]
  BY DEF new
<1> QED BY <1>5, <1>6, <1>7

\* Bytes appended behind the others, and all that a turn of an append leaves to
\* the buffer's node.
LEMMA AdvanceKeeps ==
  ASSUME BInv, pc = "append", NEW n \in 1 .. Len(left), Advance(n)
  PROVE  /\ appended' \in Seq(Byte) /\ left' \in Seq(Byte)
         /\ offset' = Len(appended') /\ offset' \in Nat /\ Len(appended') = Len(appended) + n
         /\ \A k \in 1 .. Len(appended) : appended'[k] = appended[k]
         /\ \A k \in 1 .. n : appended'[Len(appended) + k] = left[k]
         /\ UNCHANGED <<node, flat, reader_vars, wanted>>
         /\ pc' \in {"idle", "append"} /\ ret' \in {"none", "OK"}
         /\ CallsInProgress' /\ ReadsInOrder' /\ AbortsOnlyWhenEmpty'
<1> DEFINE t == SubSeq(left, 1, n)
<1>1. appended \in Seq(Byte) /\ left \in Seq(Byte) /\ consumed \in Seq(Byte)
      /\ offset = Len(appended)
  BY DEF BInv, TypeOK, ChainByPos
<1>2. /\ t \in Seq(Byte) /\ Len(t) = n /\ \A k \in 1 .. n : t[k] = left[k]
      /\ SubSeq(left, n + 1, Len(left)) \in Seq(Byte)
      /\ n # Len(left) => SubSeq(left, n + 1, Len(left)) # << >>
  BY <1>1, Taken
<1>3. /\ appended' = appended \o t /\ left' = SubSeq(left, n + 1, Len(left))
      /\ offset' = offset + n /\ UNCHANGED <<node, flat, reader_vars, wanted>>
      /\ IF n = Len(left) THEN pc' = "idle" /\ ret' = "OK" ELSE UNCHANGED <<pc, ret>>
  BY DEF Advance, Returns
<1> HIDE DEF t
<1>4. /\ appended' \in Seq(Byte)
      /\ Len(appended') = Len(appended) + n
      /\ \A k \in 1 .. Len(appended) + n :
           appended'[k] = IF k <= Len(appended) THEN appended[k] ELSE t[k - Len(appended)]
  <2>1. /\ appended \o t \in Seq(Byte)
        /\ Len(appended \o t) = Len(appended) + Len(t)
        /\ \A k \in 1 .. Len(appended) + Len(t) :
             (appended \o t)[k] = IF k <= Len(appended) THEN appended[k]
                                   ELSE t[k - Len(appended)]
    BY <1>1, <1>2, ConcatProperties
  <2> QED BY <1>2, <1>3, <2>1
<1>5. Len(appended) \in Nat /\ n \in Nat /\ n >= 1
  BY <1>1
<1>6. \A k \in 1 .. Len(appended) : appended'[k] = appended[k]
  BY <1>4, <1>5
<1>7. \A k \in 1 .. n : appended'[Len(appended) + k] = left[k]
  BY <1>2, <1>4, <1>5
<1>8. ret = "none"
  BY DEF BInv, CallsInProgress
<1>9. CallsInProgress'
  BY <1>2, <1>3, <1>8 DEF CallsInProgress
<1>10. ReadsInOrder'
  <2>1. Len(consumed) \in 0 .. Len(appended) /\ consumed = SubSeq(appended, 1, Len(consumed))
    BY <1>1 DEF BInv, ReaderInPlace, ReadsInOrder
  <2>2. SubSeq(appended \o t, 1, Len(consumed)) = SubSeq(appended, 1, Len(consumed))
    BY <1>1, <1>2, <2>1, PrefixStays
  <2> QED BY <1>3, <2>1, <2>2 DEF ReadsInOrder, reader_vars
<1>11. AbortsOnlyWhenEmpty'
  BY <1>3 DEF AbortsOnlyWhenEmpty
<1>12. left' \in Seq(Byte) /\ offset' = Len(appended') /\ offset' \in Nat
  BY <1>1, <1>2, <1>3, <1>4, <1>5
<1>13. pc' \in {"idle", "append"} /\ ret' \in {"none", "OK"}
  BY <1>3, <1>8
<1> QED BY <1>3, <1>4, <1>6, <1>7, <1>9, <1>10, <1>11, <1>12, <1>13

LEMMA CopyToNodeKeeps == BInv /\ CopyToNode => BInv'
<1> SUFFICES ASSUME BInv, CopyToNode PROVE BInv'
  OBVIOUS
<1> DEFINE T == Len(data)
           n == MinOf(Len(left), NODE_LENGTH - used[T])
<1>1. /\ TypeOK /\ ChainByPos /\ T \in Nat /\ T >= 1 /\ T \in Nodes /\ Nodes = 1 .. T
      /\ Len(used) = T /\ used[T] \in Nat /\ used[T] <= NODE_LENGTH
      /\ NODE_LENGTH \in Nat /\ left \in Seq(Byte) /\ left # << >> /\ Len(left) \in Nat
      /\ data \in Seq(Content) /\ used \in Seq(0 .. NODE_LENGTH)
  <2>1. TypeOK /\ ChainByPos /\ CallsInProgress /\ pc = "append"
    BY DEF BInv, CopyToNode
  <2>2. T \in Nat /\ T >= 1 /\ Len(used) = T /\ NODE_LENGTH \in Nat /\ Len(left) \in Nat
    BY <2>1, Types
  <2>3. T \in Nodes /\ Nodes = 1 .. T
    BY <2>2 DEF Nodes
  <2>4. used[T] \in 0 .. NODE_LENGTH
    BY <2>1, <2>3, Types
  <2> QED BY <2>1, <2>2, <2>3, <2>4 DEF TypeOK, Content, CallsInProgress
<1>2. /\ pc = "append" /\ used[T] # NODE_LENGTH /\ Advance(n) /\ length' = length
      /\ data' = Copied(T, used[T], n, data) /\ used' = [used EXCEPT ![T] = used[T] + n]
  BY DEF CopyToNode, Full, Tail_
<1>3. n \in 1 .. Len(left) /\ n \in Nat /\ used[T] + n <= NODE_LENGTH
  <2>1. Len(left) > 0
    BY <1>1
  <2> QED BY <1>1, <1>2, <2>1 DEF MinOf
<1> HIDE DEF n
<1>4. /\ data' \in Seq(Content) /\ Len(data') = T
      /\ \A k \in 1 .. T : k # T => data'[k] = data[k]
      /\ \A j \in 1 .. used[T] : data'[T][j] = data[T][j]
      /\ \A j \in used[T] + 1 .. used[T] + n : data'[T][j] = left[j - used[T]]
  <2>1. T \in 1 .. Len(data)
    BY <1>1
  <2>2. /\ Copied(T, used[T], n, data) \in Seq(Content)
        /\ Len(Copied(T, used[T], n, data)) = Len(data)
        /\ \A k \in 1 .. Len(data) : k # T => Copied(T, used[T], n, data)[k] = data[k]
        /\ \A j \in 1 .. used[T] : Copied(T, used[T], n, data)[T][j] = data[T][j]
        /\ \A j \in used[T] + 1 .. used[T] + n :
             Copied(T, used[T], n, data)[T][j] = left[j - used[T]]
    BY <1>1, <1>3, <2>1, CopiedFacts, ZenonT(40)
  <2> QED BY <1>2, <2>2
<1>5. /\ used' \in Seq(0 .. NODE_LENGTH) /\ Len(used') = T
      /\ \A k \in 1 .. T : used'[k] = IF k = T THEN used[T] + n ELSE used[k]
  <2>1. used[T] + n \in 0 .. NODE_LENGTH
    BY <1>1, <1>3
  <2> QED BY <1>1, <1>2, <2>1, ExceptSeq
<1>6. /\ appended' \in Seq(Byte) /\ left' \in Seq(Byte)
      /\ offset' = Len(appended') /\ offset' \in Nat /\ Len(appended') = Len(appended) + n
      /\ \A k \in 1 .. Len(appended) : appended'[k] = appended[k]
      /\ \A k \in 1 .. n : appended'[Len(appended) + k] = left[k]
      /\ UNCHANGED <<node, flat, reader_vars, wanted>>
      /\ pc' \in {"idle", "append"} /\ ret' \in {"none", "OK"}
      /\ CallsInProgress' /\ ReadsInOrder' /\ AbortsOnlyWhenEmpty'
  BY <1>2, <1>3, AdvanceKeeps
<1>7. TypeOK'
  BY <1>1, <1>2, <1>4, <1>5, <1>6 DEF TypeOK, Content, Nodes, reader_vars
<1>8. ChainByPos'
  <2>1. length' = Pos(Len(data') + 1)
    BY <1>1, <1>2, <1>4 DEF ChainByPos
  <2>2. offset' = Pos(T) + used'[T]
    <3>1. Len(appended) = Pos(T) + used[T] /\ Pos(T) \in Int
      BY <1>1, PosFacts DEF ChainByPos, Tail_
    <3>2. used'[T] = used[T] + n /\ offset' = Len(appended) + n
      BY <1>1, <1>5, <1>6
    <3> QED BY <1>1, <1>3, <3>1, <3>2
  <2>3. used'[T] # 0
    BY <1>1, <1>3, <1>5
  <2>4. \A i \in 1 .. T : i # T => used'[i] = NODE_LENGTH
    BY <1>1, <1>5 DEF ChainByPos, Tail_
  <2>5. ASSUME NEW i \in 1 .. T, NEW j \in 1 .. used'[i]
        PROVE  data'[i][j] = appended'[Pos(i) + j]
    <3>1. /\ Pos(i) \in Nat /\ used[i] \in Nat /\ Pos(i) + used[i] <= Len(appended)
          /\ i = T => Pos(i) + used[i] = Len(appended)
      BY <1>1, NodeContent DEF Tail_
    <3>2. \A k \in 1 .. used[i] : data[i][k] = appended[Pos(i) + k]
      BY <1>1 DEF ChainByPos
    <3>3. used'[i] = (IF i = T THEN used[T] + n ELSE used[i]) /\ j \in Nat /\ j >= 1
      <4>1. used'[i] = IF i = T THEN used[T] + n ELSE used[i]
        BY <1>5
      <4>2. used'[i] \in Nat
        BY <1>1, <1>3, <3>1, <4>1
      <4> QED BY <4>1, <4>2
    <3>4. Len(appended) \in Nat
      BY <1>1, Types
    <3>5. ASSUME j <= used[i] PROVE data'[i][j] = appended'[Pos(i) + j]
      <4>1. j \in 1 .. used[i] /\ Pos(i) + j \in 1 .. Len(appended)
        BY <3>1, <3>5, <3>3, <3>4
      <4>2. data'[i][j] = data[i][j]
        BY <1>1, <1>4, <4>1
      <4> QED BY <1>6, <3>2, <4>1, <4>2
    <3>6. ASSUME ~(j <= used[i]) PROVE data'[i][j] = appended'[Pos(i) + j]
      <4>1. i = T
        BY <3>1, <3>6, <3>3
      <4>2. j \in used[T] + 1 .. used[T] + n /\ j - used[T] \in 1 .. n
        BY <1>1, <1>3, <3>6, <3>3, <4>1
      <4>3. Pos(i) + j = Len(appended) + (j - used[T])
        <5>1. Len(appended) = Pos(i) + used[T]
          BY <3>1, <4>1
        <5> QED BY <1>1, <3>1, <3>3, <5>1
      <4> QED BY <1>4, <1>6, <4>1, <4>2, <4>3
    <3> QED BY <3>5, <3>6
  <2> QED BY <1>4, <1>6, <2>1, <2>2, <2>3, <2>4, <2>5 DEF ChainByPos, Tail_, Nodes, Pos
<1>9. ReaderInPlace'
  <2>1. Len(consumed') <= Len(appended')
    BY <1>1, <1>3, <1>6, Types DEF BInv, ReaderInPlace, reader_vars
  <2>2. ASSUME rnode' # NULL
        PROVE  /\ Len(consumed') = Pos(rnode') + rptr'
               /\ rptr' < used'[rnode']
    <3>1. rnode \in Nodes /\ rptr \in Nat
      BY <1>1, <1>6, <2>2 DEF TypeOK, reader_vars
    <3>2. Len(consumed) = Pos(rnode) + rptr /\ (rptr < used[rnode] \/ (offset = 0 /\ rptr = 0))
      BY <1>6, <2>2 DEF BInv, ReaderInPlace, reader_vars
    <3>3. used[rnode] \in Nat /\ (offset = 0 => rnode = T)
      <4>1. Pos(rnode) \in Nat /\ used[rnode] \in Nat /\ Pos(rnode) + used[rnode] <= offset
            /\ (rnode # T => Pos(rnode + 1) = Pos(rnode) + used[rnode])
        BY <1>1, <3>1, NodeContent DEF ChainByPos, Tail_
      <4>2. rnode # T => used[rnode] = NODE_LENGTH
        BY <1>1, <3>1 DEF ChainByPos, Tail_
      <4>3. NODE_LENGTH > 0
        BY NodeLengthAssumption
      <4> QED BY <1>1, <4>1, <4>2, <4>3
    <3>4. rptr < used'[rnode]
      BY <1>1, <1>3, <1>5, <3>1, <3>2, <3>3
    <3> QED BY <1>6, <3>2, <3>4 DEF reader_vars
  <2> QED BY <2>1, <2>2 DEF ReaderInPlace, Pos
<1> QED BY <1>6, <1>7, <1>8, <1>9 DEF BInv

LEMMA CopyToNewNodeKeeps == BInv /\ CopyToNewNode => BInv'
<1> SUFFICES ASSUME BInv, CopyToNewNode PROVE BInv'
  OBVIOUS
<1> DEFINE T == Len(data)
           n == MinOf(Len(left), NODE_LENGTH)
           d == Append(data, NewNode)
<1>1. /\ TypeOK /\ ChainByPos /\ T \in Nat /\ T >= 1 /\ T \in Nodes /\ Nodes = 1 .. T
      /\ Len(used) = T
      /\ NODE_LENGTH \in Nat /\ NODE_LENGTH > 0 /\ left \in Seq(Byte) /\ left # << >>
      /\ data \in Seq(Content) /\ used \in Seq(0 .. NODE_LENGTH)
      /\ Len(left) \in Nat
  <2>1. TypeOK /\ ChainByPos /\ CallsInProgress /\ pc = "append"
    BY DEF BInv, CopyToNewNode
  <2>2. T \in Nat /\ T >= 1 /\ Len(used) = T /\ NODE_LENGTH \in Nat /\ NODE_LENGTH > 0
        /\ Len(left) \in Nat
    BY <2>1, Types
  <2>3. T \in Nodes /\ Nodes = 1 .. T
    BY <2>2 DEF Nodes
  <2> QED BY <2>1, <2>2, <2>3 DEF TypeOK, Content, CallsInProgress
<1>2. /\ pc = "append" /\ used[T] = NODE_LENGTH /\ Advance(n)
      /\ length' = length + NODE_LENGTH
      /\ data' = Copied(T + 1, 0, n, d) /\ used' = Append(used, n)
  BY DEF CopyToNewNode, Full, Tail_
<1>3. n \in 1 .. Len(left) /\ n \in Nat /\ n <= NODE_LENGTH
  <2>1. Len(left) > 0
    BY <1>1
  <2> QED BY <1>1, <2>1 DEF MinOf
<1>4. d \in Seq(Content) /\ Len(d) = T + 1 /\ \A k \in 1 .. T : d[k] = data[k]
  <2>1. NewNode \in Content
    BY DEF NewNode, Content
  <2> QED BY <1>1, <2>1, AppendProperties
<1> HIDE DEF n, d
<1>5. /\ data' \in Seq(Content) /\ Len(data') = T + 1
      /\ \A k \in 1 .. T : data'[k] = data[k]
      /\ \A j \in 1 .. n : data'[T + 1][j] = left[j]
  <2> DEFINE u == 0
             i == T + 1
  <2>1. i \in 1 .. Len(d) /\ u + n <= NODE_LENGTH /\ u \in Nat
    BY <1>1, <1>3, <1>4
  <2> HIDE DEF u, i
  <2>2. /\ Copied(i, u, n, d) \in Seq(Content)
        /\ Len(Copied(i, u, n, d)) = Len(d)
        /\ \A k \in 1 .. Len(d) : k # i => Copied(i, u, n, d)[k] = d[k]
        /\ \A j \in u + 1 .. u + n : Copied(i, u, n, d)[i][j] = left[j - u]
    BY <1>1, <1>3, <1>4, <2>1, CopiedFacts
  <2>3. \A j \in 1 .. n : Copied(i, u, n, d)[i][j] = left[j]
    BY <1>3, <2>2 DEF u
  <2>4. \A k \in 1 .. T : k \in 1 .. Len(d) /\ k # i
    BY <1>1, <1>4 DEF i
  <2> QED BY <1>2, <1>4, <2>2, <2>3, <2>4 DEF u, i
<1>6. /\ used' \in Seq(0 .. NODE_LENGTH) /\ Len(used') = T + 1
      /\ \A k \in 1 .. T : used'[k] = used[k]
      /\ used'[T + 1] = n
  <2>1. n \in 0 .. NODE_LENGTH
    BY <1>1, <1>3
  <2> QED BY <1>1, <1>2, <2>1, AppendProperties
<1>7. /\ appended' \in Seq(Byte) /\ left' \in Seq(Byte)
      /\ offset' = Len(appended') /\ offset' \in Nat /\ Len(appended') = Len(appended) + n
      /\ \A k \in 1 .. Len(appended) : appended'[k] = appended[k]
      /\ \A k \in 1 .. n : appended'[Len(appended) + k] = left[k]
      /\ UNCHANGED <<node, flat, reader_vars, wanted>>
      /\ pc' \in {"idle", "append"} /\ ret' \in {"none", "OK"}
      /\ CallsInProgress' /\ ReadsInOrder' /\ AbortsOnlyWhenEmpty'
  BY <1>2, <1>3, AdvanceKeeps
<1>8. \A k \in 1 .. T : k \in 1 .. T + 1
  BY <1>1
<1>9. TypeOK'
  <2>1. node' \in (1 .. T + 1) \cup {NULL} /\ rnode' \in (1 .. T + 1) \cup {NULL}
    BY <1>1, <1>7, <1>8 DEF TypeOK, reader_vars
  <2>2. Len(data') > 0 /\ length' \in Nat
    BY <1>1, <1>2, <1>5 DEF TypeOK
  <2> QED BY <1>1, <1>5, <1>6, <1>7, <2>1, <2>2
          DEF TypeOK, Content, Nodes, reader_vars
<1>10. Len(appended) \in Nat /\ Len(appended) = Pos(T + 1)
       /\ Pos(T + 1) \in Int /\ Pos(T + 2) = Pos(T + 1) + NODE_LENGTH
  <2>1. Pos(T + 1) = Pos(T) + NODE_LENGTH /\ Pos(T + 1) \in Int
    BY <1>1, PosFacts
  <2>2. Pos((T + 1) + 1) = Pos(T + 1) + NODE_LENGTH /\ T + 2 = (T + 1) + 1
    BY <1>1, PosFacts
  <2>3. Len(appended) = Pos(T) + used[T] /\ Len(appended) \in Nat
    BY <1>1, Types DEF ChainByPos, Tail_
  <2> QED BY <1>2, <2>1, <2>2, <2>3
<1>11. ChainByPos'
  <2>1. length' = Pos(Len(data') + 1)
    <3>1. length = Pos(T + 1)
      BY <1>1 DEF ChainByPos
    <3>2. Len(data') + 1 = T + 2
      BY <1>1, <1>5
    <3> QED BY <1>2, <1>10, <3>1, <3>2
  <2>2. offset' = Pos(T + 1) + used'[T + 1] /\ used'[T + 1] # 0
    BY <1>3, <1>6, <1>7, <1>10
  <2>3. \A i \in 1 .. T + 1 : i # T + 1 => used'[i] = NODE_LENGTH
    <3>1. \A i \in 1 .. T : used[i] = NODE_LENGTH
      BY <1>1, <1>2 DEF ChainByPos, Tail_
    <3>2. \A i \in 1 .. T : used'[i] = NODE_LENGTH
      BY <1>6, <3>1
    <3>3. \A i \in 1 .. T + 1 : i # T + 1 => i \in 1 .. T
      BY <1>1
    <3> QED BY <3>2, <3>3
  <2>4. ASSUME NEW i \in 1 .. T, NEW j \in 1 .. used'[i]
        PROVE  data'[i][j] = appended'[Pos(i) + j]
    <3>1. /\ Pos(i) \in Nat /\ used[i] \in Nat /\ Pos(i) + used[i] <= Len(appended)
          /\ used'[i] = used[i]
      BY <1>1, <1>6, NodeContent
    <3>2. \A k \in 1 .. used[i] : data[i][k] = appended[Pos(i) + k]
      BY <1>1 DEF ChainByPos
    <3>3. j \in 1 .. used[i] /\ Pos(i) + j \in 1 .. Len(appended)
      BY <1>10, <3>1
    <3> QED BY <1>5, <1>7, <3>2, <3>3
  <2>5. \A j \in 1 .. used'[T + 1] : data'[T + 1][j] = appended'[Pos(T + 1) + j]
    BY <1>5, <1>6, <1>7, <1>10
  <2>6. \A i \in 1 .. T + 1 : i \in 1 .. T \/ i = T + 1
    BY <1>1
  <2> QED BY <1>5, <1>7, <2>1, <2>2, <2>3, <2>4, <2>5, <2>6 DEF ChainByPos, Tail_, Nodes, Pos
<1>12. ReaderInPlace'
  <2>1. Len(consumed') <= Len(appended')
    BY <1>1, <1>3, <1>7, Types DEF BInv, ReaderInPlace, reader_vars
  <2>2. ASSUME rnode' # NULL
        PROVE  /\ Len(consumed') = Pos(rnode') + rptr'
               /\ rptr' < used'[rnode']
    <3>1. rnode \in 1 .. T
      BY <1>1, <1>7, <2>2 DEF TypeOK, reader_vars
    <3>2. Len(consumed) = Pos(rnode) + rptr /\ (rptr < used[rnode] \/ (offset = 0 /\ rptr = 0))
      BY <1>7, <2>2 DEF BInv, ReaderInPlace, reader_vars
    <3>3. used[rnode] = NODE_LENGTH
      BY <1>1, <1>2, <3>1 DEF ChainByPos, Tail_
    <3> QED BY <1>1, <1>6, <1>7, <3>1, <3>2, <3>3 DEF reader_vars
  <2> QED BY <2>1, <2>2 DEF ReaderInPlace, Pos
<1> QED BY <1>7, <1>9, <1>11, <1>12 DEF BInv

\* What a reader has read, and where it is, when neither chain nor reader change.
LEMMA ReaderUnchanged ==
  ASSUME ReaderInPlace, ReadsInOrder, UNCHANGED buffer_vars, UNCHANGED reader_vars
  PROVE  ReaderInPlace' /\ ReadsInOrder'
BY DEF ReaderInPlace, ReadsInOrder, buffer_vars, reader_vars, Pos

\* The calls begin and end.
LEMMA CallsKeep ==
  BInv /\ (\/ \E bytes \in Seq(Byte) \ {<< >>} : AppendCall(bytes)
           \/ \E n \in Nat \ {0} : Read(n)
           \/ NewNodeFails \/ FlatEmpty \/ FlatFails \/ Flat \/ ReadAtEnd \/ ReadAborts)
  => BInv'
<1> SUFFICES ASSUME BInv,
                    \/ \E bytes \in Seq(Byte) \ {<< >>} : AppendCall(bytes)
                    \/ \E n \in Nat \ {0} : Read(n)
                    \/ NewNodeFails \/ FlatEmpty \/ FlatFails \/ Flat
                    \/ ReadAtEnd \/ ReadAborts
             PROVE BInv'
  OBVIOUS
<1>1. UNCHANGED buffer_vars /\ UNCHANGED reader_vars
  BY DEF AppendCall, Read, NewNodeFails, FlatEmpty, FlatFails, Flat, ReadAtEnd, ReadAborts
<1>2. ChainByPos' /\ ReaderInPlace' /\ ReadsInOrder'
  BY <1>1, ChainUnchanged, ReaderUnchanged DEF BInv
<1>3. Len(data) >= 1 /\ Len(data) \in Nat /\ NULL \in Nodes \cup {NULL} /\ 1 \in Nodes
  BY Types DEF BInv, Nodes
<1>4. TypeOK'
  <2>1. left' \in Seq(Byte)
    <3>1. left' \in Seq(Byte) \/ left' = left \/ left' = << >>
      BY DEF AppendCall, Read, NewNodeFails, FlatEmpty, FlatFails, Flat, ReadAtEnd, ReadAborts
    <3>2. left \in Seq(Byte) /\ << >> \in Seq(Byte)
      BY DEF BInv, TypeOK
    <3> QED BY <3>1, <3>2
  <2>2. wanted' \in Nat
    BY DEF BInv, TypeOK, AppendCall, Read, NewNodeFails, FlatEmpty, FlatFails, Flat, ReadAtEnd,
           ReadAborts
  <2>3. flat' \in Seq(Byte) /\ node' \in Nodes \cup {NULL}
    <3>1. (flat' = flat \/ flat' = << >>) /\ (node' = node \/ node' = 1)
      BY DEF AppendCall, Read, NewNodeFails, FlatEmpty, FlatFails, Flat, ReadAtEnd, ReadAborts
    <3>2. flat \in Seq(Byte) /\ << >> \in Seq(Byte) /\ node \in Nodes \cup {NULL}
      BY DEF BInv, TypeOK
    <3> QED BY <1>3, <3>1, <3>2
  <2>4. /\ pc' \in {"idle", "append", "flat", "read", "aborted"}
        /\ ret' \in {"none", "OK", "NO_ENOUGH_MEM", "BUFFER_END"}
    BY DEF BInv, TypeOK, AppendCall, Read, NewNodeFails, FlatEmpty, FlatFails, Flat, ReadAtEnd,
           ReadAborts, Calls, Returns
  <2> QED BY <1>1, <2>1, <2>2, <2>3, <2>4
          DEF BInv, TypeOK, buffer_vars, reader_vars, Nodes
<1>5. CallsInProgress'
  <2>1. \A n \in Nat \ {0} : n > 0
    OBVIOUS
  <2>2. SubSeq(appended', 1, Pos(1)) = << >>
    BY PosFacts
  <2>3. CASE Flat
    <3>1. pc' = "flat" /\ ret' = "none" /\ node' = 1 /\ flat' = << >>
      BY <2>3 DEF Flat, Calls
    <3>2. 1 # NULL
      BY DEF NULL
    <3>3. flat' = SubSeq(appended', 1, Pos(node)')
      BY <2>2, <3>1 DEF Pos
    <3> QED BY <3>1, <3>2, <3>3 DEF CallsInProgress
  <2>4. CASE \/ \E bytes \in Seq(Byte) \ {<< >>} : AppendCall(bytes)
             \/ \E n \in Nat \ {0} : Read(n)
             \/ NewNodeFails \/ FlatEmpty \/ FlatFails
             \/ ReadAtEnd \/ ReadAborts
    BY <2>1, <2>4
       DEF BInv, CallsInProgress, AppendCall, Read, NewNodeFails, FlatEmpty, FlatFails,
           ReadAtEnd, ReadAborts, Calls, Returns
  <2> QED BY <2>3, <2>4
<1>6. AbortsOnlyWhenEmpty'
  <2>1. CASE ReadAborts
    <3>1. rnode # NULL /\ ReadLength <= 0 /\ wanted > 0 /\ wanted \in Nat
      BY <2>1 DEF ReadAborts, BInv, CallsInProgress, TypeOK
    <3>2. rnode \in Nodes /\ rptr \in Nat
      BY <3>1 DEF BInv, TypeOK
    <3>3. used[rnode] \in Nat
      BY <3>2, NodeContent DEF BInv
    <3>4. ~(rptr < used[rnode])
      BY <3>1, <3>2, <3>3 DEF ReadLength, MinOf
    <3> QED BY <1>1, <3>1, <3>4 DEF BInv, ReaderInPlace, AbortsOnlyWhenEmpty, buffer_vars
  <2>2. CASE ~ReadAborts
    BY <1>1, <2>2
       DEF BInv, AbortsOnlyWhenEmpty, AppendCall, Read, NewNodeFails, FlatEmpty, FlatFails, Flat,
           ReadAtEnd, Calls, Returns, buffer_vars
  <2> QED BY <2>1, <2>2
<1> QED BY <1>2, <1>4, <1>5, <1>6 DEF BInv

\* A new reader begins at the first byte.
LEMMA NewReaderKeeps == BInv /\ NewReader => BInv'
<1> SUFFICES ASSUME BInv, NewReader PROVE BInv'
  OBVIOUS
<1>1. ChainByPos'
  BY ChainUnchanged DEF BInv, NewReader
<1>2. Len(data) >= 1 /\ Len(data) \in Nat /\ 1 \in Nodes /\ Len(data) \in Nodes
  BY Types DEF BInv, Nodes
<1>3. TypeOK'
  BY <1>2, NodeLengthAssumption DEF BInv, TypeOK, NewReader, buffer_vars, Nodes
<1>4. CallsInProgress' /\ AbortsOnlyWhenEmpty'
  BY DEF BInv, CallsInProgress, AbortsOnlyWhenEmpty, NewReader, buffer_vars, Pos
<1>5. ReadsInOrder'
  BY DEF ReadsInOrder, NewReader
<1>6. ReaderInPlace'
  <2>1. used[1] \in Nat /\ (1 # Tail_ => used[1] = NODE_LENGTH)
    BY <1>2, NodeContent DEF BInv, ChainByPos
  <2>2. 0 < used[1] \/ offset = 0
    <3>1. 1 = Tail_ => offset = Pos(1) + used[1]
      BY DEF BInv, ChainByPos
    <3>2. 1 # Tail_ => used[1] = NODE_LENGTH
      BY <2>1
    <3>3. Pos(1) = 0 /\ NODE_LENGTH > 0 /\ NODE_LENGTH \in Nat
      BY PosFacts, NodeLengthAssumption
    <3> QED BY <2>1, <3>1, <3>2, <3>3
  <2>3. Len(appended) \in Nat
    BY Types DEF BInv
  <2> QED BY <2>2, <2>3, PosFacts DEF ReaderInPlace, NewReader, buffer_vars, Pos
<1> QED BY <1>1, <1>3, <1>4, <1>5, <1>6 DEF BInv

\* The next n bytes of a node continue what was read up to them.
LEMMA PieceOfNode ==
  ASSUME TypeOK, ChainByPos, NEW i \in Nodes,
         NEW p \in Nat, NEW n \in Nat, p + n <= used[i]
  PROVE  /\ Pos(i) + p + n \in 0 .. Len(appended)
         /\ SubSeq(appended, 1, Pos(i) + p) \o SubSeq(data[i], p + 1, p + n)
              = SubSeq(appended, 1, Pos(i) + p + n)
<1> DEFINE a == Pos(i) + p
           fromNode == SubSeq(data[i], p + 1, p + n)
           fromAll  == SubSeq(appended, a + 1, a + n)
<1>1. /\ Pos(i) \in Nat /\ used[i] \in Nat /\ Len(appended) \in Nat
      /\ Pos(i) + used[i] <= Len(appended) /\ appended \in Seq(Byte)
  BY NodeContent, Types DEF TypeOK
<1>2. a \in Nat /\ a + n <= Len(appended) /\ a + n = Pos(i) + p + n
  BY <1>1
<1>3. \A k \in p + 1 .. p + n : data[i][k] = appended[Pos(i) + k] /\ data[i][k] \in Byte
  <2> SUFFICES ASSUME NEW k \in p + 1 .. p + n
               PROVE  data[i][k] = appended[Pos(i) + k] /\ data[i][k] \in Byte
    OBVIOUS
  <2>1. k \in 1 .. used[i] /\ Pos(i) + k \in 1 .. Len(appended)
    BY <1>1
  <2> QED BY <1>1, <2>1, ElementOfSeq DEF ChainByPos
<1>4. \A k \in a + 1 .. a + n : appended[k] \in Byte
  <2> SUFFICES ASSUME NEW k \in a + 1 .. a + n PROVE appended[k] \in Byte
    OBVIOUS
  <2>1. k \in 1 .. Len(appended)
    BY <1>1, <1>2
  <2> QED BY <1>1, <2>1, ElementOfSeq
<1>5. /\ fromNode \in Seq(Byte) /\ Len(fromNode) = n
      /\ \A k \in 1 .. n : fromNode[k] = data[i][p + k]
  <2>1. /\ fromNode \in Seq(Byte)
        /\ Len(fromNode) = IF p + 1 <= p + n THEN (p + n) - (p + 1) + 1 ELSE 0
        /\ \A k \in 1 .. (p + n) - (p + 1) + 1 : fromNode[k] = data[i][(p + 1) + k - 1]
    BY <1>3, SubSeqProperties
  <2> HIDE DEF fromNode
  <2> QED BY <2>1
<1>6. /\ fromAll \in Seq(Byte) /\ Len(fromAll) = n
      /\ \A k \in 1 .. n : fromAll[k] = appended[a + k]
  <2> HIDE DEF a
  <2>1. /\ fromAll \in Seq(Byte)
        /\ Len(fromAll) = IF a + 1 <= a + n THEN (a + n) - (a + 1) + 1 ELSE 0
        /\ \A k \in 1 .. (a + n) - (a + 1) + 1 : fromAll[k] = appended[(a + 1) + k - 1]
    BY <1>2, <1>4, SubSeqProperties
  <2> HIDE DEF fromAll
  <2> QED BY <1>2, <2>1
<1>7. fromNode = fromAll
  <2>1. \A k \in 1 .. n : data[i][p + k] = appended[a + k]
    <3> SUFFICES ASSUME NEW k \in 1 .. n PROVE data[i][p + k] = appended[a + k]
      OBVIOUS
    <3>1. p + k \in p + 1 .. p + n /\ Pos(i) + (p + k) = a + k
      BY <1>1
    <3> QED BY <1>3, <3>1
  <2> HIDE DEF fromNode, fromAll, a
  <2> QED BY <1>5, <1>6, <2>1, SeqEqual
<1>8. SubSeq(appended, 1, a) \o fromAll = SubSeq(appended, 1, a + n)
  <2>1. 1 \in 1 .. Len(appended) + 1 /\ a \in 1 - 1 .. Len(appended) /\ a + n \in a .. Len(appended)
    BY <1>1, <1>2
  <2> HIDE DEF a
  <2> QED BY <1>1, <2>1, ConcatAdjacentSubSeq
<1>9. Pos(i) + p + n \in 0 .. Len(appended)
  BY <1>1
<1> QED BY <1>2, <1>7, <1>8, <1>9

\* A turn of cceph_buffer_flat copies the next node.
LEMMA FlatNodeKeeps ==
  ASSUME BInv, FlatNode
  PROVE  /\ BInv'
         /\ pc' = "idle" => flat' = appended
<1> DEFINE next == flat \o SubSeq(data[node], 1, used[node])
<1>1. /\ TypeOK /\ ChainByPos /\ pc = "flat" /\ node # NULL /\ node \in Nodes
      /\ flat = SubSeq(appended, 1, Pos(node)) /\ appended \in Seq(Byte)
  BY DEF BInv, CallsInProgress, FlatNode, TypeOK
<1>2. Len(data) \in Nat /\ node \in Nat /\ node >= 1 /\ node <= Tail_ /\ Tail_ = Len(data)
  BY <1>1, Types DEF Nodes, Tail_
<1>3. /\ Pos(node) \in Nat /\ used[node] \in Nat
      /\ node # Tail_ => Pos(node + 1) = Pos(node) + used[node]
      /\ node = Tail_ => Pos(node) + used[node] = Len(appended)
  BY <1>1, NodeContent
<1>4. /\ Pos(node) + used[node] \in 0 .. Len(appended)
      /\ next = SubSeq(appended, 1, Pos(node) + used[node])
  <2> DEFINE p == 0
             u == used[node]
  <2>1. p \in Nat /\ u \in Nat /\ p + u <= used[node]
    BY <1>3
  <2>2. Pos(node) + p = Pos(node) /\ Pos(node) + p + u = Pos(node) + used[node]
        /\ p + 1 = 1 /\ p + u = used[node]
    BY <1>3
  <2> HIDE DEF p, u
  <2>3. /\ Pos(node) + p + u \in 0 .. Len(appended)
        /\ SubSeq(appended, 1, Pos(node) + p) \o SubSeq(data[node], p + 1, p + u)
             = SubSeq(appended, 1, Pos(node) + p + u)
    BY <1>1, <2>1, PieceOfNode
  <2> QED BY <1>1, <2>2, <2>3
<1>5. next \in Seq(Byte)
  <2> DEFINE m == Pos(node) + used[node]
  <2>1. m \in Int /\ m <= Len(appended) /\ Len(appended) \in Nat
    BY <1>1, <1>4, Types
  <2>2. \A k \in 1 .. m : appended[k] \in Byte
    BY <1>1, <2>1, ElementOfSeq
  <2> HIDE DEF m
  <2>3. SubSeq(appended, 1, m) \in Seq(Byte)
    BY <2>1, <2>2, SubSeqProperties
  <2> QED BY <1>4, <2>3 DEF m
<1>6. /\ flat' = next /\ UNCHANGED <<buffer_vars, left, reader_vars, wanted>>
      /\ \/ node < Tail_ /\ node' = node + 1 /\ UNCHANGED <<pc, ret>>
         \/ ~(node < Tail_) /\ node' = NULL /\ pc' = "idle" /\ ret' = "OK"
  BY DEF FlatNode, Returns
<1> HIDE DEF next
<1>7. pc' = "idle" => flat' = appended
  <2> SUFFICES ASSUME pc' = "idle" PROVE flat' = appended
    OBVIOUS
  <2>1. node = Tail_
    BY <1>1, <1>2, <1>6
  <2> QED BY <1>1, <1>3, <1>4, <1>6, <2>1, SubSeqFull
<1>8. TypeOK'
  <2>1. node' \in Nodes \cup {NULL}
    BY <1>2, <1>6 DEF Nodes
  <2>2. /\ pc' \in {"idle", "append", "flat", "read", "aborted"}
        /\ ret' \in {"none", "OK", "NO_ENOUGH_MEM", "BUFFER_END"}
    BY <1>1, <1>6 DEF TypeOK
  <2> QED BY <1>1, <1>5, <1>6, <2>1, <2>2 DEF TypeOK, buffer_vars, reader_vars, Nodes
<1>9. CallsInProgress'
  <2>1. CASE node < Tail_
    <3>1. node' = node + 1 /\ pc' = "flat" /\ UNCHANGED <<ret, appended>>
      BY <1>1, <1>6, <2>1 DEF buffer_vars
    <3>2. ret = "none"
      BY <1>1 DEF BInv, CallsInProgress
    <3>3. node' # NULL
      BY <1>2, <3>1 DEF NULL
    <3>4. Pos(node') = Pos(node) + used[node]
      BY <1>2, <1>3, <2>1, <3>1
    <3>5. flat' = SubSeq(appended', 1, Pos(node)')
      BY <1>4, <1>6, <3>1, <3>4 DEF Pos
    <3> QED BY <3>1, <3>2, <3>3, <3>5 DEF CallsInProgress
  <2>2. CASE ~(node < Tail_)
    BY <1>6, <2>2 DEF CallsInProgress
  <2> QED BY <2>1, <2>2
<1>10. ChainByPos' /\ ReaderInPlace' /\ ReadsInOrder'
  BY <1>6, ChainUnchanged, ReaderUnchanged DEF BInv
<1>11. AbortsOnlyWhenEmpty'
  BY <1>1, <1>6 DEF AbortsOnlyWhenEmpty
<1> QED BY <1>7, <1>8, <1>9, <1>10, <1>11 DEF BInv

\* A turn of cceph_buffer_reader_read takes the next bytes, and ends the read
\* early only at the end of the buffer.
LEMMA ReadNodeKeeps ==
  ASSUME BInv, ReadNode
  PROVE  /\ BInv'
         /\ ret' = "BUFFER_END" \/ rnode' = NULL => consumed' = appended
         /\ \E n \in 1 .. wanted :
              /\ Len(consumed') = Len(consumed) + n
              /\ \/ n < wanted /\ wanted' = wanted - n /\ UNCHANGED <<pc, ret>>
                 \/ n = wanted /\ pc' = "idle" /\ ret' = "OK"
                 \/ n < wanted /\ pc' = "idle" /\ ret' = "BUFFER_END"
         /\ UNCHANGED <<buffer_vars, left>>
<1> DEFINE n == ReadLength
           piece == SubSeq(data[rnode], rptr + 1, rptr + n)
<1>1. /\ TypeOK /\ ChainByPos /\ pc = "read" /\ rnode # NULL /\ rnode \in Nodes /\ n > 0
      /\ rptr \in Nat /\ wanted \in Nat /\ ret = "none" /\ appended \in Seq(Byte)
      /\ consumed = SubSeq(appended, 1, Len(consumed))
      /\ Len(consumed) = Pos(rnode) + rptr
  BY DEF BInv, CallsInProgress, ReaderInPlace, ReadsInOrder, ReadNode, ReadTurn, TypeOK
<1>2. /\ Len(data) \in Nat /\ Tail_ = Len(data) /\ rnode \in Nat /\ rnode >= 1
      /\ rnode <= Tail_ /\ Nodes = 1 .. Tail_ /\ Len(appended) \in Nat
  BY <1>1, Types DEF Nodes, Tail_
<1>3. /\ Pos(rnode) \in Nat /\ used[rnode] \in Nat
      /\ rnode # Tail_ => Pos(rnode + 1) = Pos(rnode) + used[rnode]
      /\ rnode = Tail_ => Pos(rnode) + used[rnode] = Len(appended)
  BY <1>1, NodeContent
<1>4. n \in Nat /\ n <= wanted /\ rptr + n <= used[rnode]
  BY <1>1, <1>3 DEF ReadLength, MinOf
<1>5. /\ Pos(rnode) + rptr + n \in 0 .. Len(appended)
      /\ consumed \o piece = SubSeq(appended, 1, Pos(rnode) + rptr + n)
  <2> HIDE DEF n
  <2>1. /\ Pos(rnode) + rptr + n \in 0 .. Len(appended)
        /\ SubSeq(appended, 1, Pos(rnode) + rptr) \o SubSeq(data[rnode], rptr + 1, rptr + n)
             = SubSeq(appended, 1, Pos(rnode) + rptr + n)
    BY <1>1, <1>4, PieceOfNode
  <2> QED BY <1>1, <2>1, Zenon
<1>6. /\ consumed' = consumed \o piece
      /\ UNCHANGED <<buffer_vars, left, node, flat>>
      /\ rnode' = NextNode /\ rptr' = NextPtr
      /\ \/ /\ NextNode = NULL \/ wanted = n
            /\ wanted' = 0 /\ pc' = "idle" /\ ret' = (IF wanted = n THEN "OK" ELSE "BUFFER_END")
         \/ /\ ~(NextNode = NULL \/ wanted = n)
            /\ wanted' = wanted - n /\ UNCHANGED <<pc, ret>>
  BY DEF ReadNode, ReadTurn, Returns
<1>7. \/ ~AtNodeEnd /\ NextNode = rnode /\ NextPtr = rptr + n /\ rptr + n < used[rnode]
      \/ AtNodeEnd /\ rnode < Tail_ /\ NextNode = rnode + 1 /\ NextPtr = 0
         /\ rptr + n = used[rnode]
      \/ AtNodeEnd /\ rnode = Tail_ /\ NextNode = NULL /\ NextPtr = 0
         /\ rptr + n = used[rnode]
  <2>1. AtNodeEnd <=> rptr + n = used[rnode]
    BY DEF AtNodeEnd
  <2>2. NextPtr = IF AtNodeEnd THEN 0 ELSE rptr + n
    BY DEF NextPtr
  <2> HIDE DEF n
  <2>3. rptr + n = used[rnode] \/ rptr + n < used[rnode]
    BY <1>1, <1>3, <1>4
  <2>4. rnode = Tail_ \/ rnode < Tail_
    BY <1>2
  <2> QED BY <1>2, <2>1, <2>2, <2>3, <2>4 DEF NextNode
<1> DEFINE m == Pos(rnode) + rptr + n
<1> HIDE DEF n, piece
<1>8. /\ consumed' = SubSeq(appended, 1, m) /\ m \in 0 .. Len(appended) /\ m \in Int
      /\ consumed' \in Seq(Byte) /\ Len(consumed') = m
  <2>1. consumed' = SubSeq(appended, 1, m) /\ m \in 0 .. Len(appended) /\ m \in Int
    BY <1>5, <1>6
  <2> HIDE DEF m
  <2>2. \A k \in 1 .. m : appended[k] \in Byte
    BY <1>1, <1>2, <2>1, ElementOfSeq
  <2>3. /\ SubSeq(appended, 1, m) \in Seq(Byte)
        /\ Len(SubSeq(appended, 1, m)) = IF 1 <= m THEN m - 1 + 1 ELSE 0
    BY <2>1, <2>2, SubSeqProperties
  <2>4. m >= 0
    BY <2>1
  <2>5. Len(SubSeq(appended, 1, m)) = m
    BY <2>1, <2>3, <2>4
  <2> QED BY <2>1, <2>3, <2>5
<1>9. ret' = "BUFFER_END" \/ rnode' = NULL => consumed' = appended
  <2> SUFFICES ASSUME ret' = "BUFFER_END" \/ rnode' = NULL PROVE consumed' = appended
    OBVIOUS
  <2>1. NextNode = NULL
    BY <1>1, <1>6
  <2>2. rnode = Tail_ /\ rptr + n = used[rnode]
    BY <1>2, <1>7, <2>1 DEF NULL
  <2>3. m = Len(appended)
    BY <1>1, <1>3, <1>4, <2>2
  <2> QED BY <1>1, <1>8, <2>3, SubSeqFull
<1>10. TypeOK'
  <2>1. rnode' \in Nodes \cup {NULL}
    BY <1>2, <1>6, <1>7
  <2>2. rptr' \in 0 .. NODE_LENGTH
    <3>1. used[rnode] <= NODE_LENGTH /\ NODE_LENGTH \in Nat
      BY <1>1, Types
    <3> QED BY <1>1, <1>3, <1>4, <1>6, <1>7, <3>1
  <2>3. wanted' \in Nat /\ pc' \in {"idle", "read"} /\ ret' \in {"none", "OK", "BUFFER_END"}
    BY <1>1, <1>4, <1>6
  <2> QED BY <1>1, <1>6, <1>8, <2>1, <2>2, <2>3 DEF TypeOK, buffer_vars, Nodes
<1>11. ChainByPos'
  BY <1>6, ChainUnchanged DEF BInv
<1>12. CallsInProgress' /\ AbortsOnlyWhenEmpty'
  BY <1>1, <1>4, <1>6 DEF CallsInProgress, AbortsOnlyWhenEmpty
<1>13. ReadsInOrder'
  BY <1>6, <1>8 DEF ReadsInOrder, buffer_vars
<1>14. ReaderInPlace'
  <2>1. Len(consumed') <= Len(appended')
    BY <1>2, <1>6, <1>8 DEF buffer_vars
  <2>2. ASSUME rnode' # NULL
        PROVE  Len(consumed') = Pos(rnode') + rptr' /\ rptr' < used[rnode']
    <3>1. CASE ~AtNodeEnd
      <4>1. rnode' = rnode /\ rptr' = rptr + n /\ rptr + n < used[rnode]
        BY <1>6, <1>7, <3>1
      <4>2. m = Pos(rnode) + (rptr + n)
        BY <1>1, <1>3, <1>4
      <4> QED BY <1>8, <4>1, <4>2
    <3>2. CASE AtNodeEnd
      <4>1. rnode < Tail_ /\ rnode' = rnode + 1 /\ rptr' = 0 /\ rptr + n = used[rnode]
        BY <1>6, <1>7, <2>2, <3>2
      <4>2. Pos(rnode + 1) = m
        BY <1>1, <1>2, <1>3, <1>4, <4>1
      <4>3. rnode + 1 \in Nodes /\ rnode + 1 # 1
        BY <1>2, <4>1
      <4>4. used[rnode + 1] \in Nat /\ used[rnode + 1] # 0
        <5>1. used[rnode + 1] \in Nat
          BY <1>1, <4>3, NodeContent
        <5> QED BY <1>1, <4>3, <5>1, NodeLengthAssumption DEF ChainByPos
      <4> QED BY <1>8, <4>1, <4>2, <4>4
    <3> QED BY <3>1, <3>2
  <2> QED BY <1>6, <2>1, <2>2 DEF ReaderInPlace, Pos, buffer_vars
<1>15. /\ n \in 1 .. wanted /\ Len(consumed') = Len(consumed) + n
       /\ \/ n < wanted /\ wanted' = wanted - n /\ UNCHANGED <<pc, ret>>
          \/ n = wanted /\ pc' = "idle" /\ ret' = "OK"
          \/ n < wanted /\ pc' = "idle" /\ ret' = "BUFFER_END"
  <2>1. n \in 1 .. wanted
    BY <1>1, <1>4
  <2>2. Len(consumed') = Len(consumed) + n
    BY <1>1, <1>3, <1>4, <1>8
  <2>3. n = wanted \/ n < wanted
    BY <2>1, <1>1
  <2> QED BY <1>1, <1>6, <2>1, <2>2, <2>3
<1> QED BY <1>6, <1>9, <1>10, <1>11, <1>12, <1>13, <1>14, <1>15 DEF BInv

----------------------------------------------------------------------------
\* Every step of a call keeps the buffer in order.
LEMMA BInvNext == BInv /\ [BufferStep]_vars => BInv'
<1>1. CASE UNCHANGED vars
  <2> SUFFICES ASSUME BInv, UNCHANGED vars PROVE BInv'
    BY <1>1
  <2>1. UNCHANGED buffer_vars /\ UNCHANGED reader_vars
    BY DEF vars
  <2>2. TypeOK' /\ CallsInProgress' /\ AbortsOnlyWhenEmpty'
    BY DEF BInv, vars, TypeOK, Nodes, CallsInProgress, AbortsOnlyWhenEmpty, buffer_vars,
           reader_vars, Pos
  <2> QED BY <2>1, <2>2, ChainUnchanged, ReaderUnchanged DEF BInv
<1>2. CASE BufferStep
  BY <1>2, CopyToNodeKeeps, CopyToNewNodeKeeps, CallsKeep, NewReaderKeeps, FlatNodeKeeps,
     ReadNodeKeeps DEF BufferStep, Turn
<1> QED BY <1>1, <1>2

LEMMA BInvariance == BufferSpec => []BInv
BY BInvInit, BInvNext, PTL DEF BufferSpec

\* cceph_buffer_append, _flat and _reader_read keep the types of the chain.
THEOREM TypeCorrect == BufferSpec => []TypeOK
<1>1. BInv => TypeOK
  BY DEF BInv
<1> QED BY <1>1, BInvariance, PTL

\* The assert of buffer.c:128 holds after every append, and the chain holds
\* just what was copied.
THEOREM ChainExact == BufferSpec => []ChainIsExact
<1>1. BInv => ChainIsExact
  BY ChainLemma DEF BInv
<1> QED BY <1>1, BInvariance, PTL

\* A reader gets every byte once and in order.
THEOREM ReadInOrder == BufferSpec => []ReadsInOrder
<1>1. BInv => ReadsInOrder
  BY DEF BInv
<1> QED BY <1>1, BInvariance, PTL

\* The assert of buffer.c:217 fails only for a buffer with nothing in it.
THEOREM AbortOnlyEmpty == BufferSpec => []AbortsOnlyWhenEmpty
<1>1. BInv => AbortsOnlyWhenEmpty
  BY DEF BInv
<1> QED BY <1>1, BInvariance, PTL

\* A flattened buffer is all that was appended, in order.
THEOREM FlatIsAll == BufferSpec => FlatCopiesAll
<1>1. BInv /\ [BufferStep]_vars
        => [(flat' # flat \/ pc = "flat") /\ pc' = "idle" /\ ret' = "OK" => flat' = appended]_vars
  <2> SUFFICES ASSUME BInv, BufferStep, flat' # flat \/ pc = "flat", pc' = "idle", ret' = "OK"
               PROVE  flat' = appended
    OBVIOUS
  <2>1. CASE FlatEmpty
    <3>1. appended \in Seq(Byte) /\ Len(appended) = 0 /\ flat' = << >>
      BY <2>1 DEF FlatEmpty, BInv, TypeOK, ChainByPos
    <3> QED BY <3>1, EmptySeq
  <2>2. CASE FlatNode
    BY <2>2, FlatNodeKeeps
  <2>3. ~FlatEmpty /\ ~FlatNode => flat' = flat /\ pc # "flat"
    BY DEF BufferStep, Turn, AppendCall, Read, FlatFails, Flat, NewReader, CopyToNode, CopyToNewNode,
           NewNodeFails, ReadAtEnd, ReadAborts, ReadNode, ReadTurn, Advance, Calls, Returns
  <2> QED BY <2>1, <2>2, <2>3
<1> QED BY <1>1, BInvariance, PTL DEF BufferSpec, FlatCopiesAll

\* CCEPH_ERR_BUFFER_END is the end.
THEOREM EndMeansEnd == BufferSpec => EndIsTheEnd
<1>1. BInv /\ [BufferStep]_vars
        => [pc = "read" /\ ret' = "BUFFER_END" => rnode = NULL \/ consumed' = appended]_vars
  <2> SUFFICES ASSUME BInv, BufferStep, pc = "read", ret' = "BUFFER_END", rnode # NULL
               PROVE  consumed' = appended
    OBVIOUS
  <2>1. ret = "none"
    BY DEF BInv, CallsInProgress
  <2>2. ReadNode
    BY <2>1 DEF BufferStep, Turn, AppendCall, Read, FlatEmpty, FlatFails, Flat, FlatNode, NewReader,
                CopyToNode, CopyToNewNode, NewNodeFails, ReadAtEnd, ReadAborts, Advance, Calls,
                Returns
  <2> QED BY <2>2, ReadNodeKeeps
<1> QED BY <1>1, BInvariance, PTL DEF BufferSpec, EndIsTheEnd

----------------------------------------------------------------------------
\* The codec.

Bytes == Seq(Byte)

\* How many fields a map has, and how long the field behind the first f is.
FieldCount(m) == 4 + 2 * Len(m.osds)
FieldLen(f)   == IF f = 0 \/ (f >= 4 /\ f % 2 = 0) THEN 1 ELSE 2

\* Where in the encoded map the field behind the first f begins.
At(f) == IF f = 0 THEN 0 ELSE IF f <= 4 THEN 2 * f - 1 ELSE f + 3 + (f - 4) \div 2

LEMMA AtFacts ==
  /\ At(0) = 0
  /\ \A f \in Nat : /\ At(f) \in Nat /\ FieldLen(f) \in 1 .. 2
                    /\ At(f + 1) = At(f) + FieldLen(f)
  /\ \A f, g \in Nat : f < g => At(f) + FieldLen(f) <= At(g)
<1>1. \A f \in Nat : At(f) \in Nat /\ FieldLen(f) \in 1 .. 2
  BY DEF At, FieldLen
<1>2. \A f \in Nat : At(f + 1) = At(f) + FieldLen(f)
  BY DEF At, FieldLen
<1>3. \A f, g \in Nat : f < g => At(f) + FieldLen(f) <= At(g)
  BY DEF At, FieldLen
<1> QED BY <1>1, <1>2, <1>3 DEF At

----------------------------------------------------------------------------
\* What the fields are.

LEMMA IntBytesFacts ==
  /\ Version \in Bytes /\ Len(Version) = 1
  /\ \A v \in IntValues : /\ IntBytes(v) \in Bytes /\ Len(IntBytes(v)) = 2
                          /\ IntOf(IntBytes(v)) = v
<1>1. 0 \in Byte /\ 1 \in Byte
  BY BitsAssumption
<1>2. Version \in Bytes /\ Len(Version) = 1
  BY <1>1 DEF Version, Bytes
<1>3. ASSUME NEW v \in IntValues
      PROVE  IntBytes(v) \in Bytes /\ Len(IntBytes(v)) = 2 /\ IntOf(IntBytes(v)) = v
  <2>1. v \in {0, 1, 2, 3}
    BY DEF IntValues
  <2>2. v % 2 \in {0, 1} /\ v \div 2 \in {0, 1} /\ (v % 2) + 2 * (v \div 2) = v
    BY <2>1
  <2>3. v % 2 \in Byte /\ v \div 2 \in Byte
    BY <1>1, <2>2
  <2> QED BY <2>2, <2>3 DEF IntBytes, IntOf, Bytes
<1> QED BY <1>2, <1>3

LEMMA MapFacts ==
  ASSUME NEW m \in Maps
  PROVE  /\ m.epoch \in IntValues /\ m.pg_count \in IntValues /\ m.osds \in Seq(IntValues)
         /\ Len(m.osds) \in IntValues
         /\ FieldCount(m) \in Nat /\ FieldCount(m) >= 4
         /\ \A i \in 1 .. Len(m.osds) : m.osds[i] \in IntValues
<1>1. m.epoch \in IntValues /\ m.pg_count \in IntValues /\ m.osds \in Seq(IntValues)
      /\ Len(m.osds) \in IntValues
  BY MapsAssumption
<1>2. \A i \in 1 .. Len(m.osds) : m.osds[i] \in IntValues
  BY <1>1, ElementOfSeq
<1> QED BY <1>1, <1>2 DEF FieldCount, IntValues

\* The integer in the field behind the first f, which is not a version.
IntAt(m, f) == CASE f = 1 -> m.epoch
                 [] f = 2 -> m.pg_count
                 [] f = 3 -> Len(m.osds)
                 [] OTHER -> m.osds[(f - 3) \div 2]

LEMMA EncodedFacts ==
  ASSUME NEW m \in Maps
  PROVE  /\ Encoded(m) \in Seq(Bytes \ {<< >>})
         /\ Len(Encoded(m)) = FieldCount(m)
         /\ \A f \in 0 .. FieldCount(m) - 1 :
              /\ Encoded(m)[f + 1] \in Bytes
              /\ Len(Encoded(m)[f + 1]) = FieldLen(f)
              /\ FieldLen(f) = 1 => Encoded(m)[f + 1] = Version
              /\ FieldLen(f) = 2 => /\ IntAt(m, f) \in IntValues
                                    /\ Encoded(m)[f + 1] = IntBytes(IntAt(m, f))
<1> DEFINE F   == Bytes \ {<< >>}
           fst == <<Version, IntBytes(m.epoch), IntBytes(m.pg_count), IntBytes(Len(m.osds))>>
           k   == 2 * Len(m.osds)
           osd(f) == EncodedOsd(m.osds[(f + 1) \div 2])[IF f % 2 = 1 THEN 1 ELSE 2]
           snd == [f \in 1 .. k |-> osd(f)]
<1>1. Version \in F /\ \A v \in IntValues : IntBytes(v) \in F
  BY IntBytesFacts DEF Version, IntBytes
<1>2. fst \in Seq(F) /\ Len(fst) = 4
  BY <1>1, MapFacts
<1>3. k \in Nat
  BY MapFacts DEF IntValues
<1>4. \A f \in 1 .. k : osd(f) = (IF f % 2 = 1 THEN Version ELSE IntBytes(m.osds[(f + 1) \div 2]))
                        /\ (f + 1) \div 2 \in 1 .. Len(m.osds)
  <2> SUFFICES ASSUME NEW f \in 1 .. k
               PROVE  osd(f) = (IF f % 2 = 1 THEN Version ELSE IntBytes(m.osds[(f + 1) \div 2]))
                      /\ (f + 1) \div 2 \in 1 .. Len(m.osds)
    OBVIOUS
  <2>1. (f + 1) \div 2 \in 1 .. Len(m.osds)
    BY MapFacts DEF IntValues
  <2>2. \A x : EncodedOsd(x)[1] = Version /\ EncodedOsd(x)[2] = IntBytes(x)
    BY DEF EncodedOsd
  <2> QED BY <2>1, <2>2
<1>5. \A f \in 1 .. k : osd(f) \in F
  BY <1>1, <1>4, MapFacts
<1>6. snd \in Seq(F) /\ Len(snd) = k /\ \A f \in 1 .. k : snd[f] = osd(f)
  <2> HIDE DEF k, osd
  <2> QED BY <1>3, <1>5
<1>7. Encoded(m) = fst \o snd
  BY DEF Encoded
<1> HIDE DEF fst, snd, osd
<1>8. /\ Encoded(m) \in Seq(F) /\ Len(Encoded(m)) = 4 + k
      /\ \A f \in 1 .. 4 + k : Encoded(m)[f] = IF f <= 4 THEN fst[f] ELSE snd[f - 4]
  <2> HIDE DEF F, k
  <2>1. /\ fst \o snd \in Seq(F) /\ Len(fst \o snd) = Len(fst) + Len(snd)
        /\ \A f \in 1 .. Len(fst) + Len(snd) :
             (fst \o snd)[f] = IF f <= Len(fst) THEN fst[f] ELSE snd[f - Len(fst)]
    BY <1>2, <1>6, ConcatProperties
  <2> QED BY <1>2, <1>6, <1>7, <2>1
<1>9. ASSUME NEW f \in 0 .. FieldCount(m) - 1
      PROVE  /\ Encoded(m)[f + 1] = IF FieldLen(f) = 1 THEN Version ELSE IntBytes(IntAt(m, f))
             /\ FieldLen(f) = 2 => IntAt(m, f) \in IntValues
  <2>1. CASE f <= 3
    <3>1. Encoded(m)[f + 1] = fst[f + 1]
      BY <1>3, <1>8, <2>1
    <3>2. f \in {0, 1, 2, 3}
      BY <2>1
    <3> QED BY <3>1, <3>2, MapFacts DEF fst, FieldLen, IntAt
  <2>2. CASE f >= 4
    <3>1. f + 1 \in 1 .. 4 + k /\ f - 3 \in 1 .. k /\ ~(f + 1 <= 4) /\ f + 1 - 4 = f - 3
      BY <1>3, <2>2 DEF FieldCount
    <3>2. Encoded(m)[f + 1] = osd(f - 3)
      BY <1>6, <1>8, <3>1
    <3>3. f - 3 + 1 = f - 2 /\ ((f - 3) % 2 = 1 <=> f % 2 = 0)
      BY <2>2
    <3>4. (f - 3) % 2 # 1 => (f - 2) \div 2 = (f - 3) \div 2
      BY <2>2
    <3>5. f - 3 \in 1 .. k /\ osd(f - 3) = IF (f - 3) % 2 = 1 THEN Version
                                            ELSE IntBytes(m.osds[(f - 2) \div 2])
      BY <1>4, <3>1, <3>3
    <3>6. (f - 2) \div 2 \in 1 .. Len(m.osds)
      BY <1>4, <3>1, <3>3
    <3>7. FieldLen(f) = 1 <=> f % 2 = 0
      BY <2>2 DEF FieldLen
    <3>8. IntAt(m, f) = m.osds[(f - 3) \div 2]
      BY <2>2 DEF IntAt
    <3>9. FieldLen(f) # 1 => IntAt(m, f) = m.osds[(f - 2) \div 2]
      BY <3>3, <3>4, <3>7, <3>8
    <3>10. FieldLen(f) = 2 => IntAt(m, f) \in IntValues
      BY <3>6, <3>9, MapFacts
    <3> QED BY <3>2, <3>3, <3>5, <3>7, <3>9, <3>10
  <2> QED BY <2>1, <2>2
<1>10. ASSUME NEW f \in 0 .. FieldCount(m) - 1
       PROVE  Encoded(m)[f + 1] \in Bytes /\ Len(Encoded(m)[f + 1]) = FieldLen(f)
  <2>1. f \in Nat /\ FieldLen(f) \in {1, 2}
    BY MapFacts, AtFacts
  <2> QED BY <1>9, <2>1, IntBytesFacts
<1>11. Len(Encoded(m)) = FieldCount(m)
  BY <1>8 DEF FieldCount
<1> QED BY <1>8, <1>9, <1>10, <1>11


----------------------------------------------------------------------------
\* Encoding and decoding are uses of the buffer.

TodoOK == todo \in Seq(Bytes \ {<< >>})

LEMMA TodoInvariance == CodecSpec => []TodoOK
<1>1. CodecInit => TodoOK
  BY DEF CodecInit, TodoOK
<1>2. TodoOK /\ [CodecNext]_<<vars, codec_vars>> => TodoOK'
  <2> SUFFICES ASSUME TodoOK, [CodecNext]_<<vars, codec_vars>> PROVE TodoOK'
    OBVIOUS
  <2>1. CASE \E m \in Maps : EncodeOsdmap(m)
    BY <2>1, EncodedFacts DEF EncodeOsdmap, TodoOK
  <2>2. CASE EncodeField
    BY <2>2, HeadTailProperties DEF EncodeField, TodoOK
  <2>3. ASSUME UNCHANGED todo PROVE TodoOK'
    BY <2>3 DEF TodoOK
  <2>4. (\E m \in Maps : EncodeOsdmap(m)) \/ EncodeField \/ UNCHANGED todo
    BY DEF CodecNext, EncodeReturns, DecodeOsdmap, DecodeAsk, DecodeVersion, DecodeInt,
           DecodeOsdCount, Takes, DecodeReturns, UsersCall, CallGoesOn, codec_vars
  <2> QED BY <2>1, <2>2, <2>3, <2>4
<1> QED BY <1>1, <1>2, PTL DEF CodecSpec

LEMMA CodecIsBufferStep ==
  TodoOK /\ [CodecNext]_<<vars, codec_vars>> => [BufferStep]_vars
<1> SUFFICES ASSUME TodoOK, CodecNext PROVE BufferStep \/ UNCHANGED vars
  OBVIOUS
<1>1. CASE EncodeField
  <2>1. Head(todo) \in Bytes \ {<< >>} /\ AppendCall(Head(todo))
    BY <1>1, HeadTailProperties DEF EncodeField, TodoOK
  <2> QED BY <2>1 DEF BufferStep, Bytes
<1>2. CASE DecodeAsk
  BY <1>2 DEF DecodeAsk, BufferStep
<1>3. CASE UsersCall
  BY <1>3, ChunksAssumption, ReadsAssumption DEF UsersCall, BufferStep
<1>4. CASE CallGoesOn
  BY <1>4 DEF CallGoesOn, BufferStep
<1>5. EncodeField \/ DecodeAsk \/ UsersCall \/ CallGoesOn \/ UNCHANGED vars
  BY DEF CodecNext, EncodeOsdmap, EncodeReturns, DecodeOsdmap, DecodeVersion, DecodeInt,
         DecodeOsdCount, Takes, DecodeReturns
<1> QED BY <1>1, <1>2, <1>3, <1>4, <1>5

\* cceph_encode_osdmap and cceph_decode_osdmap (common/osdmap.c) touch the
\* buffer by its operations only: what holds of a buffer holds under them.
THEOREM CodecHoldsBuffer == CodecSpec => BufferSpec
<1>1. CodecInit => Init
  BY DEF CodecInit
<1> QED BY <1>1, TodoInvariance, CodecIsBufferStep, PTL DEF CodecSpec, BufferSpec

----------------------------------------------------------------------------
\* The first n fields of m are in s, from the place p on.
Holds(s, p, m, n) ==
  /\ p + At(n) <= Len(s)
  /\ \A f \in 0 .. n - 1 : \A j \in 1 .. FieldLen(f) : s[p + At(f) + j] = Encoded(m)[f + 1][j]

LEMMA Within ==
  ASSUME NEW p \in Nat, NEW a \in Nat, NEW z \in Nat, NEW l \in Nat, NEW j \in Nat, NEW e \in Nat,
         j >= 1, j <= l, a + l <= z, p + z <= e
  PROVE  p + a + j \in 1 .. e
OBVIOUS

\* They are in what continues s, too.
LEMMA HoldsLonger ==
  ASSUME NEW s \in Bytes, NEW t \in Bytes, NEW p \in Nat, NEW m, NEW n \in Nat,
         Holds(s, p, m, n), Len(s) <= Len(t), \A k \in 1 .. Len(s) : t[k] = s[k]
  PROVE  Holds(t, p, m, n)
<1>1. Len(s) \in Nat /\ Len(t) \in Nat /\ At(n) \in Nat
  BY LenProperties, AtFacts DEF Bytes
<1>2. ASSUME NEW f \in 0 .. n - 1, NEW j \in 1 .. FieldLen(f)
      PROVE  t[p + At(f) + j] = Encoded(m)[f + 1][j]
  <2>1. f \in Nat /\ f < n /\ At(f) \in Nat /\ FieldLen(f) \in 1 .. 2
        /\ At(f) + FieldLen(f) <= At(n)
    BY AtFacts
  <2>2. p + At(f) + j \in 1 .. Len(s)
    <3>1. p + At(n) <= Len(s)
      BY DEF Holds
    <3>2. j \in Nat /\ j >= 1 /\ j <= FieldLen(f) /\ FieldLen(f) \in Nat
      BY <2>1
    <3> QED BY <1>1, <2>1, <3>1, <3>2, Within
  <2> QED BY <2>2 DEF Holds
<1> QED BY <1>1, <1>2 DEF Holds

\* The next field follows them.
LEMMA HoldsNext ==
  ASSUME NEW s \in Bytes, NEW p \in Nat, NEW m \in Maps, NEW n \in Nat,
         Holds(s, p, m, n), Len(s) = p + At(n), n < FieldCount(m)
  PROVE  /\ Holds(s \o Encoded(m)[n + 1], p, m, n + 1)
         /\ Len(s \o Encoded(m)[n + 1]) = p + At(n + 1)
<1> DEFINE e == Encoded(m)[n + 1]
           t == s \o e
<1>1. e \in Bytes /\ Len(e) = FieldLen(n)
  BY EncodedFacts, MapFacts
<1>2. /\ t \in Bytes /\ Len(t) = Len(s) + FieldLen(n)
      /\ \A k \in 1 .. Len(s) + FieldLen(n) : t[k] = IF k <= Len(s) THEN s[k] ELSE e[k - Len(s)]
  <2> HIDE DEF e
  <2> QED BY <1>1, ConcatProperties DEF Bytes
<1>3. At(n) \in Nat /\ FieldLen(n) \in Nat /\ At(n + 1) = At(n) + FieldLen(n) /\ Len(s) \in Nat
  <2>1. At(n) \in Nat /\ FieldLen(n) \in 1 .. 2 /\ At(n + 1) = At(n) + FieldLen(n)
    BY AtFacts
  <2> QED BY <2>1
<1> HIDE DEF t
<1>4. Holds(t, p, m, n)
  <2>1. Len(s) <= Len(t) /\ \A k \in 1 .. Len(s) : t[k] = s[k]
    <3> HIDE DEF e
    <3> QED BY <1>2, <1>3
  <2> QED BY <1>2, <2>1, HoldsLonger
<1>5. \A j \in 1 .. FieldLen(n) : t[p + At(n) + j] = e[j]
  <2> HIDE DEF e
  <2> SUFFICES ASSUME NEW j \in 1 .. FieldLen(n) PROVE t[p + At(n) + j] = e[j]
    OBVIOUS
  <2> DEFINE k == p + At(n) + j
  <2>1. k \in 1 .. Len(s) + FieldLen(n) /\ ~(k <= Len(s)) /\ k - Len(s) = j
    <3>1. Len(s) \in Nat /\ FieldLen(n) \in Nat /\ k = Len(s) + j
      BY <1>3
    <3>2. j \in Nat /\ j >= 1 /\ j <= FieldLen(n)
      BY <3>1
    <3> HIDE DEF k
    <3> QED BY <3>1, <3>2
  <2> HIDE DEF k
  <2>2. t[k] = e[k - Len(s)]
    BY <1>2, <2>1
  <2> QED BY <2>1, <2>2 DEF k
<1>6. Holds(t, p, m, n + 1)
  <2>1. \A f \in 0 .. (n + 1) - 1 : f \in 0 .. n - 1 \/ f = n
    OBVIOUS
  <2>2. ASSUME NEW f \in 0 .. (n + 1) - 1, NEW j \in 1 .. FieldLen(f)
        PROVE  t[p + At(f) + j] = Encoded(m)[f + 1][j]
    BY <1>4, <1>5, <2>1 DEF Holds
  <2> QED BY <1>2, <1>3, <2>2 DEF Holds
<1> QED BY <1>2, <1>3, <1>6 DEF t

\* What was read last, where a field ends, is the field.
LEMMA FieldRead ==
  ASSUME appended \in Bytes, consumed \in Bytes, ReadsInOrder, Len(consumed) <= Len(appended),
         NEW p \in Nat, NEW m \in Maps, NEW f \in 0 .. FieldCount(m) - 1,
         Holds(appended, p, m, FieldCount(m)), Len(consumed) = p + At(f + 1)
  PROVE  LastRead(FieldLen(f)) = Encoded(m)[f + 1]
<1> DEFINE n == FieldLen(f)
           c == Len(consumed)
<1>1. f \in Nat /\ At(f) \in Nat /\ n \in 1 .. 2 /\ At(f + 1) = At(f) + n
  BY AtFacts, MapFacts
<1>2. c \in Nat /\ c = p + At(f) + n
  BY <1>1
<1>3. \A k \in 1 .. c : consumed[k] = appended[k] /\ appended[k] \in Byte
  <2>1. \A k \in 1 .. c : appended[k] \in Byte
    BY <1>2, ElementOfSeq, LenProperties DEF Bytes
  <2>2. consumed = SubSeq(appended, 1, c)
    BY DEF ReadsInOrder
  <2>3. \A k \in 1 .. c - 1 + 1 : SubSeq(appended, 1, c)[k] = appended[1 + k - 1]
    <3> HIDE DEF c
    <3> QED BY <1>2, <2>1, SubSeqProperties
  <2> QED BY <1>2, <2>1, <2>2, <2>3
<1> HIDE DEF n, c
<1>4. c - n + 1 \in Int /\ c \in Int /\ \A k \in c - n + 1 .. c : consumed[k] \in Byte
  <2>1. c - n \in Nat /\ n \in Nat
    BY <1>1, <1>2
  <2>2. \A k \in c - n + 1 .. c : k \in 1 .. c
    BY <1>2, <2>1
  <2>3. \A k \in 1 .. c : consumed[k] \in Byte
    BY <1>3
  <2>4. \A k \in c - n + 1 .. c : consumed[k] \in Byte
    BY <2>2, <2>3
  <2>5. c - n + 1 \in Int /\ c \in Int
    BY <1>2, <2>1
  <2> QED BY <2>4, <2>5
<1>5. /\ SubSeq(consumed, c - n + 1, c) \in Seq(Byte)
      /\ Len(SubSeq(consumed, c - n + 1, c)) = n
      /\ \A j \in 1 .. n : SubSeq(consumed, c - n + 1, c)[j] = consumed[c - n + j]
  <2>1. /\ SubSeq(consumed, c - n + 1, c) \in Seq(Byte)
        /\ Len(SubSeq(consumed, c - n + 1, c)) = IF c - n + 1 <= c THEN c - (c - n + 1) + 1 ELSE 0
        /\ \A j \in 1 .. c - (c - n + 1) + 1 :
             SubSeq(consumed, c - n + 1, c)[j] = consumed[(c - n + 1) + j - 1]
    <3> DEFINE b == c - n + 1
    <3> HIDE DEF b
    <3>1. b \in Int /\ c \in Int /\ \A k \in b .. c : consumed[k] \in Byte
      BY <1>4 DEF b
    <3>2. /\ SubSeq(consumed, b, c) \in Seq(Byte)
          /\ Len(SubSeq(consumed, b, c)) = IF b <= c THEN c - b + 1 ELSE 0
          /\ \A j \in 1 .. c - b + 1 : SubSeq(consumed, b, c)[j] = consumed[b + j - 1]
      BY <3>1, SubSeqProperties
    <3> QED BY <3>2 DEF b
  <2>2. c - (c - n + 1) + 1 = n /\ c - n + 1 <= c
    BY <1>1, <1>2
  <2>3. \A j \in 1 .. n : (c - n + 1) + j - 1 = c - n + j
    BY <1>1, <1>2
  <2> QED BY <2>1, <2>2, <2>3
<1>6. \A j \in 1 .. n : consumed[c - n + j] = Encoded(m)[f + 1][j]
  <2> SUFFICES ASSUME NEW j \in 1 .. n PROVE consumed[c - n + j] = Encoded(m)[f + 1][j]
    OBVIOUS
  <2>1. c - n + j = p + At(f) + j /\ c - n + j \in 1 .. c
    <3>1. j \in Nat /\ j >= 1 /\ j <= n /\ n \in Nat /\ At(f) \in Nat
      BY <1>1
    <3>2. c - n = p + At(f) /\ c \in Nat
      BY <1>2, <3>1
    <3> QED BY <3>1, <3>2
  <2>2. appended[p + At(f) + j] = Encoded(m)[f + 1][j]
    BY DEF Holds, n
  <2> QED BY <1>3, <2>1, <2>2
<1>7. Encoded(m)[f + 1] \in Seq(Byte) /\ Len(Encoded(m)[f + 1]) = n
  BY EncodedFacts DEF n, Bytes
<1>8. SubSeq(consumed, c - n + 1, c) = Encoded(m)[f + 1]
  <2> DEFINE last == SubSeq(consumed, c - n + 1, c)
             e    == Encoded(m)[f + 1]
  <2>1. last \in Seq(Byte) /\ e \in Seq(Byte) /\ Len(last) = Len(e)
    BY <1>5, <1>7
  <2>2. \A j \in 1 .. Len(last) : last[j] = e[j]
    BY <1>5, <1>6
  <2> HIDE DEF last, e
  <2>3. last = e
    BY <2>1, <2>2, SeqEqual
  <2> QED BY <2>3 DEF last, e
<1> QED BY <1>8 DEF LastRead, n, c

----------------------------------------------------------------------------
\* What makes the round trip inductive.

Results == [epoch : IntValues, pg_count : IntValues, osds : Seq(IntValues)]

CodecTypes ==
  /\ encoding \in BOOLEAN /\ lost \in BOOLEAN
  /\ TodoOK
  /\ start = Ended \/ (start \in Nat /\ map \in Maps)
  /\ decoding \in {"no", "ask", "take", "ended", "aborted"}
  /\ fields \in Nat
  /\ osd_count \in IntValues
  /\ result \in Results

\* No call of the codec runs beside another one, of it or of the buffer.
OneAtATime ==
  /\ encoding => decoding = "no" /\ start # Ended /\ pc \in {"idle", "append"}
  /\ ~encoding => todo = << >>
  /\ pc # "append" => left = << >>
  /\ decoding \in {"ask", "ended", "aborted"} => pc = "idle"
  /\ decoding = "take" => pc \in {"idle", "read", "aborted"}

\* What is in the buffer, or in the append that is running.
Coming == appended \o left

Sent == FieldCount(map) - Len(todo)

\* The fields that were sent are in place, and those that were not follow.
EncodedSoFar ==
  start # Ended /\ ~lost =>
    /\ Len(todo) <= FieldCount(map)
    /\ \A i \in 1 .. Len(todo) : todo[i] = Encoded(map)[Sent + i]
    /\ encoding => Holds(Coming, start, map, Sent) /\ Len(Coming) = start + At(Sent)
    /\ ~encoding => Holds(appended, start, map, FieldCount(map))

\* A read that returned CCEPH_OK has read a field, at least.
ReadEnough ==
  decoding = "take" =>
    /\ pc = "read" => Len(consumed) + wanted >= FieldLen(fields)
    /\ pc = "idle" /\ ret = "OK" => Len(consumed) >= FieldLen(fields)

\* The reader is where the fields it has read end, and the result agrees.
ResultSoFar ==
  /\ fields > 1 => result.epoch = map.epoch
  /\ fields > 2 => result.pg_count = map.pg_count
  /\ fields > 3 => osd_count = Len(map.osds)
  /\ Len(result.osds) = IF fields < 4 THEN 0 ELSE (fields - 4) \div 2
  /\ \A i \in 1 .. Len(result.osds) : result.osds[i] = map.osds[i]

Decodes == decoding # "no" /\ from = start /\ start # Ended /\ ~lost

DecodedSoFar ==
  Decodes =>
    /\ decoding # "aborted"
    /\ rnode = NULL => Len(consumed) = Len(appended)
    /\ decoding \in {"ask", "take"} => fields < FieldCount(map)
    /\ decoding = "ask" => Len(consumed) = start + At(fields)
    /\ decoding = "take" /\ pc = "read" => Len(consumed) + wanted = start + At(fields + 1)
    /\ decoding = "take" /\ pc = "idle" => ret = "OK" /\ Len(consumed) = start + At(fields + 1)
    /\ decoding = "ended" => fields = FieldCount(map)
    /\ ResultSoFar

CodecInv == CodecTypes /\ OneAtATime /\ EncodedSoFar /\ ReadEnough /\ DecodedSoFar

LEMMA CodecInvInit == CodecInit => CodecInv
<1> SUFFICES ASSUME CodecInit PROVE CodecInv
  OBVIOUS
<1>1. CodecTypes
  <2>1. NoMap \in Results
    BY DEF NoMap, Results, IntValues
  <2>2. 0 \in IntValues /\ << >> \in Seq(Bytes \ {<< >>})
    BY DEF IntValues
  <2> QED BY <2>1, <2>2 DEF CodecInit, CodecTypes, TodoOK
<1>2. OneAtATime
  BY DEF CodecInit, Init, OneAtATime
<1>3. EncodedSoFar /\ ReadEnough /\ DecodedSoFar
  BY DEF CodecInit, EncodedSoFar, ReadEnough, DecodedSoFar, Decodes
<1> QED BY <1>1, <1>2, <1>3 DEF CodecInv

\* A step that leaves what was sent alone.
LEMMA EncodedStays ==
  ASSUME EncodedSoFar, UNCHANGED <<appended, encoding, todo, map, start>>,
         lost => lost', encoding => left' = left \/ lost'
  PROVE  EncodedSoFar'
BY DEF EncodedSoFar, Sent, Coming

\* The types of the buffer that the codec looks at.
LEMMA BufferTypes ==
  ASSUME BInv
  PROVE  /\ appended \in Bytes /\ left \in Bytes /\ consumed \in Bytes
         /\ Len(appended) \in Nat /\ Len(left) \in Nat /\ Len(consumed) \in Nat
         /\ Len(consumed) <= Len(appended) /\ ReadsInOrder /\ offset = Len(appended)
         /\ wanted \in Nat
<1>1. appended \in Bytes /\ left \in Bytes /\ consumed \in Bytes /\ wanted \in Nat
  BY DEF BInv, TypeOK, Bytes
<1> QED BY <1>1, Types DEF BInv, ReaderInPlace, ChainByPos

----------------------------------------------------------------------------
\* cceph_encode_osdmap

LEMMA EncodeBegins ==
  ASSUME BInv, CodecInv, NEW m \in Maps, EncodeOsdmap(m)
  PROVE  CodecInv'
<1>1. /\ pc = "idle" /\ ~encoding /\ decoding = "no" /\ left = << >>
      /\ encoding' = TRUE /\ todo' = Encoded(m) /\ map' = m /\ start' = offset /\ lost' = FALSE
      /\ UNCHANGED <<vars, decoding, result, osd_count, fields, from>>
      /\ UNCHANGED <<appended, left, pc, rnode, consumed, wanted, ret>>
  BY DEF EncodeOsdmap, Idle, CodecInv, OneAtATime, vars, buffer_vars, reader_vars
<1>2. offset \in Nat /\ offset = Len(appended) /\ offset # Ended
  BY BufferTypes DEF Ended
<1>3. CodecTypes' /\ OneAtATime'
  BY <1>1, <1>2, EncodedFacts DEF CodecInv, CodecTypes, OneAtATime, TodoOK
<1>4. EncodedSoFar'
  <2>1. Len(todo') = FieldCount(m) /\ FieldCount(m) \in Nat
    BY <1>1, EncodedFacts, MapFacts
  <2>2. Sent' = 0
    BY <1>1, <2>1 DEF Sent
  <2>3. Coming' = appended
    BY <1>1, BufferTypes, ConcatEmptySeq DEF Coming, Bytes
  <2>4. Holds(appended, start', map', 0) /\ Len(appended) = start' + At(0)
    <3>1. At(0) = 0 /\ 0 .. 0 - 1 = {} /\ Len(appended) = start' + 0
      BY <1>1, <1>2, AtFacts
    <3> QED BY <1>2, <3>1 DEF Holds
  <2>5. \A i \in 1 .. Len(todo') : 0 + i = i
    OBVIOUS
  <2> QED BY <1>1, <2>1, <2>2, <2>3, <2>4, <2>5 DEF EncodedSoFar
<1>5. ReadEnough' /\ DecodedSoFar'
  BY <1>1 DEF ReadEnough, DecodedSoFar, Decodes
<1> QED BY <1>3, <1>4, <1>5 DEF CodecInv

LEMMA FieldIsSent ==
  ASSUME BInv, CodecInv, EncodeField
  PROVE  CodecInv'
<1>1. /\ encoding /\ todo # << >> /\ todo' = Tail(todo) /\ decoding = "no" /\ start # Ended
      /\ pc = "idle" /\ left = << >> /\ pc' = "append" /\ left' = Head(todo)
      /\ UNCHANGED <<appended, consumed, rnode, wanted>>
      /\ UNCHANGED <<encoding, map, start, lost, decoding, result, osd_count, fields, from>>
  BY DEF EncodeField, AppendCall, Calls, CodecInv, OneAtATime, buffer_vars, reader_vars
<1>2. /\ todo \in Seq(Bytes \ {<< >>}) /\ start \in Nat /\ map \in Maps
  BY <1>1 DEF CodecInv, CodecTypes, TodoOK
<1>3. /\ Head(todo) = todo[1] /\ Tail(todo) \in Seq(Bytes \ {<< >>})
      /\ Len(Tail(todo)) = Len(todo) - 1 /\ Len(todo) \in Nat /\ Len(todo) >= 1
      /\ \A i \in 1 .. Len(Tail(todo)) : Tail(todo)[i] = todo[i + 1]
  <2>1. Len(todo) \in Nat /\ Len(todo) >= 1
    BY <1>1, <1>2, EmptySeq
  <2>2. Head(todo) = todo[1]
    BY <1>1, <1>2
  <2> QED BY <1>1, <1>2, <2>1, <2>2, HeadTailProperties
<1>4. CodecTypes' /\ OneAtATime'
  BY <1>1, <1>2, <1>3 DEF CodecInv, CodecTypes, OneAtATime, TodoOK
<1>5. EncodedSoFar'
  <2> SUFFICES ASSUME ~lost PROVE EncodedSoFar'
    BY <1>1 DEF EncodedSoFar
  <2>1. /\ Len(todo) <= FieldCount(map) /\ \A i \in 1 .. Len(todo) : todo[i] = Encoded(map)[Sent + i]
        /\ Holds(Coming, start, map, Sent) /\ Len(Coming) = start + At(Sent)
    BY <1>1 DEF CodecInv, EncodedSoFar
  <2>2. Coming = appended /\ appended \in Bytes
    BY <1>1, BufferTypes, ConcatEmptySeq DEF Coming, Bytes
  <2>3. Sent \in Nat /\ Sent < FieldCount(map) /\ Sent' = Sent + 1
    BY <1>1, <1>2, <1>3, <2>1, MapFacts DEF Sent
  <2>4. Head(todo) = Encoded(map)[Sent + 1]
    BY <1>3, <2>1
  <2>5. Coming' = appended \o Encoded(map)[Sent + 1]
    BY <1>1, <2>4 DEF Coming
  <2>6. Holds(Coming', start, map, Sent + 1) /\ Len(Coming') = start + At(Sent + 1)
    BY <1>2, <2>1, <2>2, <2>3, <2>5, HoldsNext
  <2>7. \A i \in 1 .. Len(Tail(todo)) : Tail(todo)[i] = Encoded(map)[Sent + 1 + i]
    <3> SUFFICES ASSUME NEW i \in 1 .. Len(Tail(todo))
                 PROVE  Tail(todo)[i] = Encoded(map)[Sent + 1 + i]
      OBVIOUS
    <3>1. i + 1 \in 1 .. Len(todo) /\ Sent + (i + 1) = Sent + 1 + i
      BY <1>3, <2>3
    <3> QED BY <1>3, <2>1, <3>1
  <2>8. Len(Tail(todo)) <= FieldCount(map)
    BY <1>2, <1>3, <2>1, MapFacts
  <2> QED BY <1>1, <2>3, <2>6, <2>7, <2>8 DEF EncodedSoFar
<1>6. ReadEnough' /\ DecodedSoFar'
  BY <1>1 DEF ReadEnough, DecodedSoFar, Decodes
<1> QED BY <1>4, <1>5, <1>6 DEF CodecInv

LEMMA EncodeEnds ==
  ASSUME BInv, CodecInv, EncodeReturns
  PROVE  CodecInv'
<1>1. /\ pc = "idle" /\ encoding /\ todo = << >> /\ encoding' = FALSE /\ decoding = "no"
      /\ left = << >> /\ start # Ended
      /\ UNCHANGED <<vars, todo, map, start, lost, decoding, result, osd_count, fields, from>>
      /\ UNCHANGED <<pc, left, appended>>
  BY DEF EncodeReturns, CodecInv, OneAtATime, vars, buffer_vars
<1>2. CodecTypes' /\ OneAtATime'
  BY <1>1 DEF CodecInv, CodecTypes, OneAtATime, TodoOK
<1>3. EncodedSoFar'
  <2>1. map \in Maps /\ Len(todo) = 0
    BY <1>1 DEF CodecInv, CodecTypes
  <2>2. Sent = FieldCount(map)
    BY <2>1, MapFacts DEF Sent
  <2>3. Coming = appended
    BY <1>1, BufferTypes, ConcatEmptySeq DEF Coming, Bytes
  <2> QED BY <1>1, <2>2, <2>3 DEF CodecInv, EncodedSoFar, Sent
<1>4. ReadEnough' /\ DecodedSoFar'
  BY <1>1 DEF ReadEnough, DecodedSoFar, Decodes
<1> QED BY <1>2, <1>3, <1>4 DEF CodecInv

----------------------------------------------------------------------------
\* cceph_decode_osdmap

\* What is known of a decoder that began where the map does.
LEMMA DecodesFacts ==
  ASSUME BInv, CodecInv, Decodes
  PROVE  /\ map \in Maps /\ start \in Nat /\ ~encoding
         /\ FieldCount(map) \in Nat /\ FieldCount(map) >= 4
         /\ Holds(appended, start, map, FieldCount(map))
         /\ fields < FieldCount(map) =>
              /\ fields \in 0 .. FieldCount(map) - 1
              /\ At(fields) \in Nat /\ FieldLen(fields) \in 1 .. 2
              /\ At(fields + 1) = At(fields) + FieldLen(fields)
              /\ start + At(fields + 1) <= Len(appended)
<1>1. map \in Maps /\ start \in Nat /\ ~encoding /\ fields \in Nat
  BY DEF CodecInv, CodecTypes, Decodes, OneAtATime
<1>2. FieldCount(map) \in Nat /\ FieldCount(map) >= 4
  BY <1>1, MapFacts
<1>3. Holds(appended, start, map, FieldCount(map))
  BY <1>1 DEF CodecInv, EncodedSoFar, Decodes
<1>4. ASSUME fields < FieldCount(map)
      PROVE  /\ fields \in 0 .. FieldCount(map) - 1
             /\ At(fields) \in Nat /\ FieldLen(fields) \in 1 .. 2
             /\ At(fields + 1) = At(fields) + FieldLen(fields)
             /\ start + At(fields + 1) <= Len(appended)
  <2>1. At(fields) \in Nat /\ FieldLen(fields) \in 1 .. 2
        /\ At(fields + 1) = At(fields) + FieldLen(fields)
    BY <1>1, AtFacts
  <2>2. At(fields + 1) <= At(FieldCount(map))
    <3>1. CASE fields + 1 = FieldCount(map)
      <4>1. At(fields + 1) = At(FieldCount(map))
        BY <3>1
      <4>2. At(FieldCount(map)) \in Nat
        BY <1>2, AtFacts
      <4> QED BY <4>1, <4>2
    <3>2. CASE fields + 1 < FieldCount(map)
      <4>1. /\ fields + 1 \in Nat /\ At(fields + 1) \in Nat /\ FieldLen(fields + 1) \in 1 .. 2
            /\ At(fields + 1) + FieldLen(fields + 1) <= At(FieldCount(map))
            /\ At(FieldCount(map)) \in Nat
        BY <1>1, <1>2, <3>2, AtFacts
      <4> QED BY <4>1
    <3> QED BY <1>1, <1>2, <1>4, <3>1, <3>2
  <2>3. start + At(FieldCount(map)) <= Len(appended) /\ At(FieldCount(map)) \in Nat
    BY <1>2, <1>3, AtFacts DEF Holds
  <2>4. At(fields + 1) \in Nat /\ Len(appended) \in Nat
    BY <1>1, <2>1, BufferTypes
  <2> QED BY <1>1, <1>2, <1>4, <2>1, <2>2, <2>3, <2>4
<1> QED BY <1>1, <1>2, <1>3, <1>4

LEMMA DecodeBegins ==
  ASSUME BInv, CodecInv, DecodeOsdmap
  PROVE  CodecInv'
<1>1. /\ pc = "idle" /\ ~encoding /\ decoding = "no" /\ left = << >>
      /\ start = Len(consumed) /\ decoding' = "ask" /\ result' = NoMap /\ fields' = 0
      /\ from' = (IF rnode = NULL THEN Ended ELSE Len(consumed))
      /\ UNCHANGED <<encoding, todo, map, start, lost, osd_count>>
      /\ UNCHANGED <<appended, left, pc, rnode, consumed, wanted, ret>>
  BY DEF DecodeOsdmap, Idle, CodecInv, OneAtATime, vars, buffer_vars, reader_vars
<1>2. CodecTypes'
  <2>1. NoMap \in Results
    BY DEF NoMap, Results, IntValues
  <2> QED BY <1>1, <2>1 DEF CodecInv, CodecTypes, TodoOK
<1>3. OneAtATime' /\ ReadEnough'
  BY <1>1 DEF CodecInv, OneAtATime, ReadEnough
<1>4. EncodedSoFar'
  BY <1>1, EncodedStays DEF CodecInv
<1>5. DecodedSoFar'
  <2> SUFFICES ASSUME Decodes' PROVE DecodedSoFar'
    BY DEF DecodedSoFar
  <2>1. rnode # NULL /\ map \in Maps /\ Len(consumed) \in Nat
    BY <1>1, BufferTypes DEF Decodes, CodecInv, CodecTypes, Ended
  <2>2. fields' < FieldCount(map)'
    <3>1. FieldCount(map)' = FieldCount(map) /\ 0 < FieldCount(map)
      BY <1>1, <2>1, MapFacts DEF FieldCount
    <3> QED BY <1>1, <3>1
  <2>3. Len(consumed') = start' + At(fields)'
    BY <1>1, <2>1 DEF At
  <2>4. ResultSoFar'
    <3>1. Len(result'.osds) = 0
      BY <1>1 DEF NoMap
    <3> QED BY <1>1, <3>1 DEF ResultSoFar
  <2> QED BY <1>1, <2>1, <2>2, <2>3, <2>4 DEF DecodedSoFar
<1> QED BY <1>2, <1>3, <1>4, <1>5 DEF CodecInv

LEMMA FieldIsAsked ==
  ASSUME BInv, CodecInv, DecodeAsk
  PROVE  CodecInv'
<1>1. /\ decoding = "ask" /\ decoding' = "take" /\ pc = "idle" /\ pc' = "read" /\ left = << >>
      /\ wanted' = FieldLen(fields)
      /\ UNCHANGED <<encoding, todo, map, start, lost, result, osd_count, fields, from>>
      /\ UNCHANGED <<appended, left, rnode, consumed>>
  BY DEF DecodeAsk, Read, Calls, AtVersion, FieldLen, CodecInv, OneAtATime, buffer_vars, reader_vars
<1>2. fields \in Nat /\ FieldLen(fields) \in 1 .. 2
  BY AtFacts DEF CodecInv, CodecTypes
<1>3. CodecTypes' /\ OneAtATime'
  BY <1>1 DEF CodecInv, CodecTypes, OneAtATime, TodoOK
<1>4. EncodedSoFar'
  BY <1>1, EncodedStays DEF CodecInv
<1>5. ReadEnough'
  <2>1. FieldLen(fields)' = FieldLen(fields) /\ Len(consumed) \in Nat
    BY <1>1, BufferTypes DEF FieldLen
  <2>2. Len(consumed') + wanted' >= FieldLen(fields)
    BY <1>1, <1>2, <2>1
  <2> QED BY <1>1, <2>1, <2>2 DEF ReadEnough
<1>6. DecodedSoFar'
  <2> SUFFICES ASSUME Decodes PROVE DecodedSoFar'
    BY <1>1 DEF DecodedSoFar, Decodes
  <2>1. /\ rnode = NULL => Len(consumed) = Len(appended)
        /\ fields < FieldCount(map) /\ Len(consumed) = start + At(fields) /\ ResultSoFar
    BY <1>1 DEF CodecInv, DecodedSoFar
  <2>2. At(fields) \in Nat /\ At(fields + 1) = At(fields) + FieldLen(fields) /\ start \in Nat
    BY <2>1, DecodesFacts
  <2>3. Len(consumed) + wanted' = start + At(fields + 1)
    BY <1>1, <1>2, <2>1, <2>2
  <2>4. ResultSoFar'
    BY <1>1, <2>1 DEF ResultSoFar
  <2>5. FieldCount(map)' = FieldCount(map) /\ At(fields + 1)' = At(fields + 1)
    BY <1>1 DEF FieldCount, At
  <2> QED BY <1>1, <2>1, <2>3, <2>4, <2>5 DEF DecodedSoFar
<1> QED BY <1>3, <1>4, <1>5, <1>6 DEF CodecInv

\* What was read where a field of the map was to be read.
LEMMA FieldTaken ==
  ASSUME BInv, CodecInv, Decodes, decoding = "take", pc = "idle"
  PROVE  /\ ret = "OK" /\ fields < FieldCount(map) /\ ResultSoFar
         /\ FieldLen(fields) = 1 => LastRead(1) = Version
         /\ FieldLen(fields) = 2 => /\ IntAt(map, fields) \in IntValues
                                    /\ IntOf(LastRead(2)) = IntAt(map, fields)
<1>1. /\ ret = "OK" /\ fields < FieldCount(map) /\ ResultSoFar
      /\ Len(consumed) = start + At(fields + 1)
  BY DEF CodecInv, DecodedSoFar
<1>2. /\ map \in Maps /\ start \in Nat /\ fields \in 0 .. FieldCount(map) - 1
      /\ Holds(appended, start, map, FieldCount(map))
  BY <1>1, DecodesFacts
<1>3. LastRead(FieldLen(fields)) = Encoded(map)[fields + 1]
  BY <1>1, <1>2, BufferTypes, FieldRead
<1>4. /\ FieldLen(fields) = 1 => Encoded(map)[fields + 1] = Version
      /\ FieldLen(fields) = 2 => /\ IntAt(map, fields) \in IntValues
                                 /\ Encoded(map)[fields + 1] = IntBytes(IntAt(map, fields))
  BY <1>2, EncodedFacts
<1>5. FieldLen(fields) = 1 => LastRead(1) = Version
  BY <1>3, <1>4
<1>6. ASSUME FieldLen(fields) = 2
      PROVE  IntAt(map, fields) \in IntValues /\ IntOf(LastRead(2)) = IntAt(map, fields)
  <2>1. LastRead(2) = IntBytes(IntAt(map, fields)) /\ IntAt(map, fields) \in IntValues
    BY <1>3, <1>4, <1>6
  <2>2. IntOf(IntBytes(IntAt(map, fields))) = IntAt(map, fields)
    BY <2>1, IntBytesFacts
  <2> QED BY <2>1, <2>2
<1> QED BY <1>1, <1>5, <1>6

\* An integer that was read is one, wherever the reader was.
LEMMA ReadsAreInts ==
  ASSUME BInv, CodecInv, decoding = "take", pc = "idle", ~AtVersion
  PROVE  IntRead \subseteq IntValues
<1> SUFFICES ASSUME ret = "OK" PROVE IntOf(LastRead(2)) \in IntValues
  BY DEF IntRead
<1> DEFINE c == Len(consumed)
<1>1. c \in Nat /\ c >= 2 /\ consumed \in Bytes
  BY BufferTypes DEF CodecInv, ReadEnough, FieldLen, AtVersion
<1>2. consumed[c - 1] \in {0, 1} /\ consumed[c] \in {0, 1}
  <2>1. c - 1 \in 1 .. c /\ c \in 1 .. c
    BY <1>1
  <2>2. \A k \in 1 .. c : consumed[k] \in Byte
    BY <1>1, ElementOfSeq DEF Bytes
  <2> HIDE DEF c
  <2> QED BY <2>1, <2>2, BitsAssumption
<1>3. LastRead(2)[1] = consumed[c - 1] /\ LastRead(2)[2] = consumed[c]
  <2>1. LastRead(2) = SubSeq(consumed, c - 1, c)
    <3>1. c - 2 + 1 = c - 1
      BY <1>1
    <3> QED BY <3>1 DEF LastRead
  <2>2. \A k \in c - 1 .. c : consumed[k] \in Byte
    BY <1>1, <1>2, BitsAssumption
  <2>3. \A j \in 1 .. c - (c - 1) + 1 : SubSeq(consumed, c - 1, c)[j] = consumed[(c - 1) + j - 1]
    <3> HIDE DEF c
    <3> QED BY <1>1, <2>2, SubSeqProperties
  <2>4. SubSeq(consumed, c - 1, c)[1] = consumed[c - 1]
    <3>1. 1 \in 1 .. c - (c - 1) + 1 /\ (c - 1) + 1 - 1 = c - 1
      BY <1>1
    <3> HIDE DEF c
    <3> QED BY <2>3, <3>1
  <2>5. SubSeq(consumed, c - 1, c)[2] = consumed[c]
    <3>1. 2 \in 1 .. c - (c - 1) + 1 /\ (c - 1) + 2 - 1 = c
      BY <1>1
    <3> HIDE DEF c
    <3> QED BY <2>3, <3>1
  <2> QED BY <2>1, <2>4, <2>5
<1>4. IntOf(LastRead(2)) = consumed[c - 1] + 2 * consumed[c]
  BY <1>3 DEF IntOf
<1> QED BY <1>2, <1>4 DEF IntValues

\* The decoder takes a field from where no read is running.
LEMMA TakesKeeps ==
  ASSUME CodecInv, Takes, decoding' \in {"no", "ask", "ended", "aborted"},
         fields' \in Nat, osd_count' \in IntValues, result' \in Results
  PROVE  CodecTypes' /\ OneAtATime' /\ EncodedSoFar' /\ ReadEnough'
<1>1. /\ decoding = "take" /\ pc = "idle" /\ left = << >> /\ ~encoding
      /\ UNCHANGED <<encoding, todo, map, start, lost, from>>
      /\ UNCHANGED <<pc, appended, left>>
  BY DEF Takes, CodecInv, OneAtATime, vars, buffer_vars
<1>2. CodecTypes' /\ OneAtATime'
  BY <1>1 DEF CodecInv, CodecTypes, OneAtATime, TodoOK
<1>3. EncodedSoFar'
  BY <1>1, EncodedStays DEF CodecInv
<1> QED BY <1>1, <1>2, <1>3 DEF ReadEnough

LEMMA VersionTaken ==
  ASSUME BInv, CodecInv, DecodeVersion
  PROVE  CodecInv'
<1>1. /\ Takes /\ AtVersion /\ UNCHANGED <<result, osd_count>>
      /\ decoding = "take" /\ pc = "idle"
      /\ \/ /\ ret = "OK" /\ LastRead(1) = Version
            /\ fields' = fields + 1
            /\ decoding' = IF fields + 1 = 4 + 2 * osd_count THEN "ended" ELSE "ask"
         \/ /\ ~(ret = "OK" /\ LastRead(1) = Version)
            /\ decoding' = "aborted" /\ UNCHANGED fields
  BY DEF DecodeVersion, Takes, Continue
<1>2. fields \in Nat /\ osd_count \in IntValues /\ result \in Results
  BY DEF CodecInv, CodecTypes
<1>3. CodecTypes' /\ OneAtATime' /\ EncodedSoFar' /\ ReadEnough'
  <2>1. decoding' \in {"no", "ask", "ended", "aborted"} /\ fields' \in Nat
    BY <1>1, <1>2
  <2> QED BY <1>1, <1>2, <2>1, TakesKeeps
<1>4. DecodedSoFar'
  <2> SUFFICES ASSUME Decodes' PROVE DecodedSoFar'
    BY DEF DecodedSoFar
  <2>1. /\ Decodes /\ UNCHANGED <<start, map, appended, consumed, rnode>>
        /\ rnode = NULL => Len(consumed) = Len(appended)
        /\ Len(consumed) = start + At(fields + 1)
    <3>1. UNCHANGED <<start, map, appended, consumed, rnode, from, lost>>
      BY <1>1 DEF Takes, vars, buffer_vars, reader_vars
    <3>2. Decodes
      BY <1>1, <3>1 DEF Decodes
    <3> QED BY <1>1, <3>1, <3>2 DEF CodecInv, DecodedSoFar
  <2>2. FieldLen(fields) = 1
    BY <1>1 DEF AtVersion, FieldLen
  <2>3. ret = "OK" /\ LastRead(1) = Version /\ fields < FieldCount(map) /\ ResultSoFar
    BY <1>1, <2>1, <2>2, FieldTaken
  <2>4. /\ fields' = fields + 1
        /\ decoding' = IF fields + 1 = 4 + 2 * osd_count THEN "ended" ELSE "ask"
    BY <1>1, <2>3
  <2>5. /\ map \in Maps /\ FieldCount(map) \in Nat /\ FieldCount(map) >= 4
        /\ FieldCount(map)' = FieldCount(map)
    BY <2>1, DecodesFacts DEF FieldCount
  <2>6. fields = 0 \/ (fields >= 4 /\ fields % 2 = 0 /\ FieldCount(map) = 4 + 2 * osd_count)
    <3>1. fields > 3 => osd_count = Len(map.osds)
      BY <2>3 DEF ResultSoFar
    <3>2. fields > 3 => FieldCount(map) = 4 + 2 * osd_count
      BY <3>1 DEF FieldCount
    <3> QED BY <1>1, <1>2, <3>2 DEF AtVersion
  <2>7. /\ decoding' = "ask" => fields' < FieldCount(map)
        /\ decoding' = "ended" => fields' = FieldCount(map)
        /\ decoding' \in {"ask", "ended"}
    BY <1>2, <2>3, <2>4, <2>5, <2>6 DEF IntValues
  <2>8. ResultSoFar'
    <3>1. CASE fields = 0
      BY <1>1, <2>3, <2>4, <3>1 DEF ResultSoFar
    <3>2. CASE fields >= 4 /\ fields % 2 = 0
      <4>1. (fields + 1 - 4) \div 2 = (fields - 4) \div 2
        BY <1>2, <3>2
      <4> QED BY <1>1, <1>2, <2>1, <2>3, <2>4, <3>2, <4>1 DEF ResultSoFar
    <3> QED BY <2>6, <3>1, <3>2
  <2>9. Len(consumed') = start' + At(fields)'
    BY <2>1, <2>4 DEF At
  <2> QED BY <2>1, <2>5, <2>7, <2>8, <2>9 DEF DecodedSoFar
<1> QED BY <1>3, <1>4 DEF CodecInv

\* Where a decoder in place took a field, all but the result is as it should be.
LEMMA DecoderStays ==
  ASSUME BInv, CodecInv, Takes, Decodes'
  PROVE  /\ Decodes /\ UNCHANGED <<start, map, appended, consumed, rnode>>
         /\ rnode = NULL => Len(consumed) = Len(appended)
         /\ Len(consumed) = start + At(fields + 1)
         /\ map \in Maps /\ FieldCount(map) \in Nat /\ FieldCount(map) >= 4
         /\ FieldCount(map)' = FieldCount(map)
<1>1. /\ decoding = "take" /\ pc = "idle"
      /\ UNCHANGED <<start, map, appended, consumed, rnode, from, lost>>
  BY DEF Takes, vars, buffer_vars, reader_vars
<1>2. Decodes
  BY <1>1 DEF Decodes
<1> QED BY <1>1, <1>2, DecodesFacts DEF CodecInv, DecodedSoFar, FieldCount

LEMMA IntTaken ==
  ASSUME BInv, CodecInv, DecodeInt
  PROVE  CodecInv'
<1>1. PICK v \in IntRead :
        result' = CASE fields = 1 -> [result EXCEPT !.epoch = v]
                    [] fields = 2 -> [result EXCEPT !.pg_count = v]
                    [] OTHER      -> [result EXCEPT !.osds = Append(@, v)]
  BY DEF DecodeInt
<1>2. /\ Takes /\ ~AtVersion /\ fields # 3 /\ UNCHANGED osd_count
      /\ decoding = "take" /\ pc = "idle"
      /\ fields' = fields + 1
      /\ decoding' = IF fields + 1 = 4 + 2 * osd_count THEN "ended" ELSE "ask"
  BY DEF DecodeInt, Takes, Continue
<1>3. v \in IntValues /\ fields \in Nat /\ osd_count \in IntValues /\ result \in Results
  BY <1>2, ReadsAreInts DEF CodecInv, CodecTypes
<1>4. /\ Append(result.osds, v) \in Seq(IntValues)
      /\ Len(Append(result.osds, v)) = Len(result.osds) + 1
      /\ \A i \in 1 .. Len(result.osds) : Append(result.osds, v)[i] = result.osds[i]
      /\ Append(result.osds, v)[Len(result.osds) + 1] = v
  BY <1>3, AppendProperties DEF Results
<1>5. result' \in Results
  BY <1>1, <1>3, <1>4 DEF Results
<1>6. CodecTypes' /\ OneAtATime' /\ EncodedSoFar' /\ ReadEnough'
  <2>1. decoding' \in {"no", "ask", "ended", "aborted"} /\ fields' \in Nat
    BY <1>2, <1>3
  <2> QED BY <1>2, <1>3, <1>5, <2>1, TakesKeeps
<1>7. DecodedSoFar'
  <2> SUFFICES ASSUME Decodes' PROVE DecodedSoFar'
    BY DEF DecodedSoFar
  <2>1. /\ Decodes /\ UNCHANGED <<start, map, appended, consumed, rnode>>
        /\ rnode = NULL => Len(consumed) = Len(appended)
        /\ Len(consumed) = start + At(fields + 1)
        /\ map \in Maps /\ FieldCount(map) \in Nat /\ FieldCount(map) >= 4
        /\ FieldCount(map)' = FieldCount(map)
    BY <1>2, DecoderStays
  <2>2. FieldLen(fields) = 2
    BY <1>2 DEF AtVersion, FieldLen
  <2>3. /\ ret = "OK" /\ fields < FieldCount(map) /\ ResultSoFar
        /\ IntOf(LastRead(2)) = IntAt(map, fields)
    BY <1>2, <2>1, <2>2, FieldTaken
  <2>4. v = IntAt(map, fields)
    BY <1>1, <2>3 DEF IntRead
  <2>5. fields \in {1, 2} \/ (fields >= 5 /\ fields % 2 = 1)
    BY <1>2, <1>3 DEF AtVersion
  <2>6. fields >= 5 => FieldCount(map) = 4 + 2 * osd_count
    <3>1. fields > 3 => osd_count = Len(map.osds)
      BY <2>3 DEF ResultSoFar
    <3> QED BY <1>3, <3>1 DEF FieldCount
  <2>7. /\ decoding' = "ask" => fields' < FieldCount(map)
        /\ decoding' = "ended" => fields' = FieldCount(map)
        /\ decoding' \in {"ask", "ended"}
    BY <1>2, <1>3, <2>1, <2>3, <2>5, <2>6 DEF IntValues
  <2>8. ResultSoFar'
    <3>1. CASE fields = 1
      <4>1. result' = [result EXCEPT !.epoch = v] /\ v = map.epoch
        BY <1>1, <2>4, <3>1 DEF IntAt
      <4>2. result'.epoch = map.epoch /\ result'.osds = result.osds
        BY <1>3, <4>1 DEF Results
      <4> QED BY <1>2, <2>1, <2>3, <3>1, <4>2 DEF ResultSoFar
    <3>2. CASE fields = 2
      <4>1. result' = [result EXCEPT !.pg_count = v] /\ v = map.pg_count
        BY <1>1, <2>4, <3>2 DEF IntAt
      <4>2. /\ result'.epoch = result.epoch /\ result'.pg_count = map.pg_count
            /\ result'.osds = result.osds
        BY <1>3, <4>1 DEF Results
      <4> QED BY <1>2, <2>1, <2>3, <3>2, <4>2 DEF ResultSoFar
    <3>3. CASE fields >= 5 /\ fields % 2 = 1
      <4>1. result' = [result EXCEPT !.osds = Append(@, v)]
        BY <1>1, <3>3
      <4>2. /\ result'.epoch = result.epoch /\ result'.pg_count = result.pg_count
            /\ result'.osds = Append(result.osds, v)
        BY <1>3, <4>1 DEF Results
      <4>3. /\ Len(result.osds) = (fields - 4) \div 2
            /\ \A i \in 1 .. Len(result.osds) : result.osds[i] = map.osds[i]
            /\ result.epoch = map.epoch /\ result.pg_count = map.pg_count
            /\ osd_count = Len(map.osds)
        BY <1>3, <2>3, <3>3 DEF ResultSoFar
      <4>4. /\ (fields - 4) \div 2 + 1 = (fields - 3) \div 2
            /\ (fields + 1 - 4) \div 2 = (fields - 3) \div 2
        BY <1>3, <3>3
      <4>5. v = map.osds[(fields - 3) \div 2]
        BY <1>3, <2>4, <3>3 DEF IntAt
      <4>6. Len(result.osds) + 1 = (fields - 3) \div 2 /\ Len(result.osds) \in Nat
        BY <1>3, <3>3, <4>3, <4>4
      <4>7. \A i \in 1 .. Len(result.osds) + 1 : Append(result.osds, v)[i] = map.osds[i]
        <5> SUFFICES ASSUME NEW i \in 1 .. Len(result.osds) + 1
                     PROVE  Append(result.osds, v)[i] = map.osds[i]
          OBVIOUS
        <5>1. CASE i = Len(result.osds) + 1
          <6>1. Append(result.osds, v)[i] = v
            BY <1>4, <5>1
          <6> QED BY <4>5, <4>6, <5>1, <6>1
        <5>2. CASE i # Len(result.osds) + 1
          <6>1. i \in 1 .. Len(result.osds)
            BY <4>6, <5>2
          <6> QED BY <1>4, <4>3, <6>1
        <5> QED BY <5>1, <5>2
      <4>8. Len(result'.osds) = IF fields' < 4 THEN 0 ELSE (fields' - 4) \div 2
        BY <1>2, <1>3, <1>4, <3>3, <4>2, <4>4, <4>6
      <4>9. \A i \in 1 .. Len(result'.osds) : result'.osds[i] = map'.osds[i]
        BY <1>4, <2>1, <4>2, <4>7
      <4> QED BY <1>2, <2>1, <4>2, <4>3, <4>8, <4>9 DEF ResultSoFar
    <3> QED BY <2>5, <3>1, <3>2, <3>3
  <2>9. Len(consumed') = start' + At(fields)'
    BY <1>2, <2>1 DEF At
  <2> QED BY <2>1, <2>7, <2>8, <2>9 DEF DecodedSoFar
<1> QED BY <1>6, <1>7 DEF CodecInv

LEMMA OsdCountTaken ==
  ASSUME BInv, CodecInv, DecodeOsdCount
  PROVE  CodecInv'
<1>1. PICK v \in IntRead :
        /\ osd_count' = v
        /\ \/ Continue(v)
           \/ MallocMayFail /\ decoding' = "no" /\ UNCHANGED fields
  BY DEF DecodeOsdCount
<1>2. /\ Takes /\ fields = 3 /\ UNCHANGED result /\ ~AtVersion
      /\ decoding = "take" /\ pc = "idle"
      /\ \/ /\ fields' = 4
            /\ decoding' = IF 4 = 4 + 2 * v THEN "ended" ELSE "ask"
         \/ decoding' = "no" /\ fields' = 3
  BY <1>1 DEF DecodeOsdCount, Takes, Continue, AtVersion
<1>3. v \in IntValues /\ fields \in Nat /\ result \in Results
  BY <1>2, ReadsAreInts DEF CodecInv, CodecTypes
<1>4. CodecTypes' /\ OneAtATime' /\ EncodedSoFar' /\ ReadEnough'
  <2>1. decoding' \in {"no", "ask", "ended", "aborted"} /\ fields' \in Nat
    BY <1>2
  <2> QED BY <1>1, <1>2, <1>3, <2>1, TakesKeeps
<1>5. DecodedSoFar'
  <2> SUFFICES ASSUME Decodes' PROVE DecodedSoFar'
    BY DEF DecodedSoFar
  <2>1. /\ Decodes /\ UNCHANGED <<start, map, appended, consumed, rnode>>
        /\ rnode = NULL => Len(consumed) = Len(appended)
        /\ Len(consumed) = start + At(fields + 1)
        /\ map \in Maps /\ FieldCount(map) \in Nat /\ FieldCount(map) >= 4
        /\ FieldCount(map)' = FieldCount(map)
    BY <1>2, DecoderStays
  <2>2. FieldLen(fields) = 2
    BY <1>2 DEF FieldLen
  <2>3. /\ ret = "OK" /\ ResultSoFar
        /\ IntOf(LastRead(2)) = IntAt(map, fields)
    BY <1>2, <2>1, <2>2, FieldTaken
  <2>4. v = Len(map.osds)
    BY <1>1, <1>2, <2>3 DEF IntRead, IntAt
  <2>5. fields' = 4 /\ decoding' = IF 4 = 4 + 2 * v THEN "ended" ELSE "ask"
    BY <1>2 DEF Decodes
  <2>6. /\ decoding' = "ask" => fields' < FieldCount(map)
        /\ decoding' = "ended" => fields' = FieldCount(map)
        /\ decoding' \in {"ask", "ended"}
    BY <1>3, <2>4, <2>5 DEF IntValues, FieldCount
  <2>7. ResultSoFar'
    BY <1>1, <1>2, <2>1, <2>3, <2>4, <2>5 DEF ResultSoFar
  <2>8. Len(consumed') = start' + At(fields)'
    BY <1>2, <2>1, <2>5 DEF At
  <2> QED BY <2>1, <2>6, <2>7, <2>8 DEF DecodedSoFar
<1> QED BY <1>4, <1>5 DEF CodecInv

LEMMA DecodeEnds ==
  ASSUME BInv, CodecInv, DecodeReturns
  PROVE  CodecInv'
<1>1. /\ decoding = "ended" /\ decoding' = "no" /\ result' = NoMap /\ osd_count' = 0 /\ fields' = 0
      /\ pc = "idle" /\ left = << >> /\ ~encoding
      /\ UNCHANGED <<encoding, todo, map, start, lost, pc, left, appended>>
  BY DEF DecodeReturns, CodecInv, OneAtATime, vars, buffer_vars
<1>2. NoMap \in Results /\ 0 \in IntValues
  BY DEF NoMap, Results, IntValues
<1>3. CodecTypes' /\ OneAtATime'
  BY <1>1, <1>2 DEF CodecInv, CodecTypes, OneAtATime, TodoOK
<1>4. EncodedSoFar'
  BY <1>1, EncodedStays DEF CodecInv
<1> QED BY <1>1, <1>3, <1>4 DEF CodecInv, ReadEnough, DecodedSoFar, Decodes

LEMMA UsersCallKeeps ==
  ASSUME BInv, CodecInv, UsersCall
  PROVE  CodecInv'
<1>1. /\ pc = "idle" /\ ~encoding /\ decoding = "no" /\ UNCHANGED codec_vars
      /\ left = << >> /\ UNCHANGED appended
  BY DEF UsersCall, Idle, CodecInv, OneAtATime, AppendCall, Read, FlatEmpty, FlatFails, Flat,
         NewReader, buffer_vars
<1>2. UNCHANGED <<encoding, todo, map, start, lost, decoding, result, osd_count, fields, from>>
  BY <1>1 DEF codec_vars
<1>3. pc' # "append" => left' = << >>
  BY <1>1 DEF UsersCall, AppendCall, Read, FlatEmpty, FlatFails, Flat, NewReader, Calls, Returns
<1>4. CodecTypes' /\ OneAtATime'
  BY <1>1, <1>2, <1>3 DEF CodecInv, CodecTypes, OneAtATime, TodoOK
<1>5. EncodedSoFar'
  BY <1>1, <1>2, EncodedStays DEF CodecInv
<1> QED BY <1>1, <1>2, <1>4, <1>5 DEF CodecInv, ReadEnough, DecodedSoFar, Decodes

----------------------------------------------------------------------------
\* The turns of the calls.

LEMMA ConcatBytes ==
  ASSUME NEW s \in Bytes, NEW t \in Bytes, NEW u \in Bytes
  PROVE  (s \o t) \o u = s \o (t \o u)
BY ConcatAssociative DEF Bytes

\* What an append moves into the chain was coming before.
LEMMA CopiesWhatWasComing ==
  ASSUME BInv, CopyToNode \/ CopyToNewNode
  PROVE  /\ Coming' = Coming
         /\ appended' \in Bytes /\ Len(appended) <= Len(appended')
         /\ \A k \in 1 .. Len(appended) : appended'[k] = appended[k]
         /\ pc = "append" /\ pc' \in {"idle", "append"} /\ ret' \in {"none", "OK"}
         /\ pc' = "idle" => left' = << >>
<1>1. /\ pc = "append" /\ left \in Bytes /\ left # << >> /\ appended \in Bytes
      /\ Len(left) \in Nat /\ Len(left) > 0
  <2>1. pc = "append"
    BY DEF CopyToNode, CopyToNewNode
  <2> QED BY <2>1, BufferTypes, EmptySeq DEF BInv, CallsInProgress, Bytes
<1>2. PICK n \in 1 .. Len(left) : Advance(n)
  <2>1. used[Tail_] \in 0 .. NODE_LENGTH /\ NODE_LENGTH \in Nat /\ NODE_LENGTH > 0
    <3>1. Tail_ \in Nodes
      BY Types DEF BInv, Tail_, Nodes
    <3> QED BY <3>1, Types DEF BInv
  <2>2. CASE CopyToNode
    <3>1. used[Tail_] # NODE_LENGTH /\ Advance(MinOf(Len(left), NODE_LENGTH - used[Tail_]))
      BY <2>2 DEF CopyToNode, Full
    <3>2. MinOf(Len(left), NODE_LENGTH - used[Tail_]) \in 1 .. Len(left)
      BY <1>1, <2>1, <3>1 DEF MinOf
    <3> QED BY <3>1, <3>2
  <2>3. CASE CopyToNewNode
    <3>1. Advance(MinOf(Len(left), NODE_LENGTH))
      BY <2>3 DEF CopyToNewNode
    <3>2. MinOf(Len(left), NODE_LENGTH) \in 1 .. Len(left)
      BY <1>1, <2>1 DEF MinOf
    <3> QED BY <3>1, <3>2
  <2> QED BY <2>2, <2>3
<1>3. /\ appended' \in Bytes /\ Len(appended') = Len(appended) + n
      /\ \A k \in 1 .. Len(appended) : appended'[k] = appended[k]
      /\ pc' \in {"idle", "append"} /\ ret' \in {"none", "OK"}
  BY <1>1, <1>2, AdvanceKeeps DEF Bytes
<1>4. /\ appended' = appended \o SubSeq(left, 1, n)
      /\ left' = SubSeq(left, n + 1, Len(left))
      /\ n # Len(left) => UNCHANGED pc
  BY <1>2 DEF Advance
<1>5. SubSeq(left, 1, n) \in Bytes /\ left' \in Bytes
  BY <1>1, <1>2, <1>4, Taken, AdvanceKeeps DEF Bytes
<1>6. SubSeq(left, 1, n) \o SubSeq(left, n + 1, Len(left)) = left
  <2>1. 1 \in 1 .. Len(left) + 1 /\ n \in 1 - 1 .. Len(left) /\ Len(left) \in n .. Len(left)
    BY <1>1
  <2>2. SubSeq(left, 1, n) \o SubSeq(left, n + 1, Len(left)) = SubSeq(left, 1, Len(left))
    BY <1>1, <2>1, ConcatAdjacentSubSeq DEF Bytes
  <2> QED BY <1>1, <2>2, SubSeqFull DEF Bytes
<1>7. Coming' = Coming
  <2>1. (appended \o SubSeq(left, 1, n)) \o left' = appended \o (SubSeq(left, 1, n) \o left')
    BY <1>1, <1>5, ConcatBytes
  <2> QED BY <1>4, <1>6, <2>1 DEF Coming
<1>8. pc' = "idle" => left' = << >>
  <2> SUFFICES ASSUME pc' = "idle" PROVE left' = << >>
    OBVIOUS
  <2>1. n = Len(left)
    BY <1>1, <1>4
  <2> QED BY <1>1, <1>4, <2>1
<1>9. Len(appended) <= Len(appended')
  BY <1>3, BufferTypes
<1> QED BY <1>1, <1>3, <1>7, <1>8, <1>9

LEMMA AppendGoesOn ==
  ASSUME BInv, CodecInv, CallGoesOn, CopyToNode \/ CopyToNewNode
  PROVE  CodecInv'
<1>1. /\ Coming' = Coming
      /\ appended' \in Bytes /\ Len(appended) <= Len(appended')
      /\ \A k \in 1 .. Len(appended) : appended'[k] = appended[k]
      /\ pc = "append" /\ pc' \in {"idle", "append"} /\ ret' \in {"none", "OK"}
      /\ pc' = "idle" => left' = << >>
  BY CopiesWhatWasComing
<1>2. /\ lost' = lost /\ decoding = "no"
      /\ UNCHANGED <<encoding, todo, map, start, decoding, result, osd_count, fields, from>>
  BY <1>1 DEF CallGoesOn, CodecInv, OneAtATime, CodecTypes
<1>3. CodecTypes' /\ OneAtATime'
  BY <1>1, <1>2 DEF CodecInv, CodecTypes, OneAtATime, TodoOK
<1>4. EncodedSoFar'
  <2> SUFFICES ASSUME start # Ended, ~lost PROVE EncodedSoFar'
    BY <1>2 DEF EncodedSoFar
  <2>1. FieldCount(map)' = FieldCount(map) /\ Sent' = Sent
    BY <1>2 DEF FieldCount, Sent
  <2>2. /\ Len(todo) <= FieldCount(map)
        /\ \A i \in 1 .. Len(todo) : todo[i] = Encoded(map)[Sent + i]
        /\ encoding => Holds(Coming, start, map, Sent) /\ Len(Coming) = start + At(Sent)
        /\ ~encoding => Holds(appended, start, map, FieldCount(map))
    BY DEF CodecInv, EncodedSoFar
  <2>3. ~encoding => Holds(appended', start, map, FieldCount(map))
    <3>1. start \in Nat /\ FieldCount(map) \in Nat
      BY MapFacts DEF CodecInv, CodecTypes
    <3>2. appended \in Bytes
      BY BufferTypes
    <3>3. map \in Maps
      BY DEF CodecInv, CodecTypes
    <3> HIDE DEF Holds
    <3> QED BY <1>1, <2>2, <3>1, <3>2, HoldsLonger
  <2> QED BY <1>1, <1>2, <2>1, <2>2, <2>3 DEF EncodedSoFar
<1> QED BY <1>2, <1>3, <1>4 DEF CodecInv, ReadEnough, DecodedSoFar, Decodes

LEMMA OtherTurnGoesOn ==
  ASSUME BInv, CodecInv, CallGoesOn, NewNodeFails \/ FlatNode
  PROVE  CodecInv'
<1>1. /\ UNCHANGED appended /\ decoding = "no"
      /\ UNCHANGED <<encoding, todo, map, start, decoding, result, osd_count, fields, from>>
      /\ lost' = (lost \/ (encoding /\ ret' = "NO_ENOUGH_MEM"))
      /\ pc' # "append" => left' = << >>
      /\ encoding => left' = left \/ lost'
      /\ encoding => pc' \in {"idle", "append"}
  BY DEF CallGoesOn, NewNodeFails, FlatNode, Returns, buffer_vars, CodecInv, OneAtATime, CodecTypes
<1>2. CodecTypes' /\ OneAtATime'
  BY <1>1 DEF CodecInv, CodecTypes, OneAtATime, TodoOK
<1>3. EncodedSoFar'
  BY <1>1, EncodedStays DEF CodecInv, CodecTypes
<1> QED BY <1>1, <1>2, <1>3 DEF CodecInv, ReadEnough, DecodedSoFar, Decodes

\* A turn of a read, of the decoder's or of a user's.
LEMMA ReadGoesOn ==
  ASSUME BInv, CodecInv, CallGoesOn, ReadAtEnd \/ ReadAborts \/ ReadNode
  PROVE  CodecInv'
<1>1. /\ pc = "read" /\ left = << >> /\ ~encoding /\ lost' = lost /\ decoding \in {"no", "take"}
      /\ UNCHANGED <<encoding, todo, map, start, decoding, result, osd_count, fields, from>>
      /\ UNCHANGED <<appended, left>> /\ pc' \in {"idle", "read", "aborted"}
  <2>1. /\ pc = "read" /\ UNCHANGED <<appended, left>>
        /\ pc' \in {"idle", "read", "aborted"}
        /\ ret' \in {"BUFFER_END", "OK", ret}
    <3>1. CASE ReadAtEnd
      BY <3>1 DEF ReadAtEnd, Returns, buffer_vars
    <3>2. CASE ReadAborts
      BY <3>2 DEF ReadAborts, buffer_vars
    <3>3. CASE ReadNode
      BY <3>3 DEF ReadNode, ReadTurn, Returns, buffer_vars
    <3> QED BY <3>1, <3>2, <3>3
  <2>2. left = << >> /\ decoding \in {"no", "take"} /\ ~encoding /\ lost \in BOOLEAN
    BY <2>1 DEF CodecInv, OneAtATime, CodecTypes
  <2> QED BY <2>1, <2>2 DEF CallGoesOn
<1>2. CodecTypes' /\ OneAtATime'
  BY <1>1 DEF CodecInv, CodecTypes, OneAtATime, TodoOK
<1>3. EncodedSoFar'
  BY <1>1, EncodedStays DEF CodecInv
<1>4. \/ /\ rnode = NULL
         /\ pc' = "idle" /\ ret' = "BUFFER_END"
      \/ /\ rnode # NULL /\ ReadLength <= 0
         /\ pc' = "aborted"
      \/ \E n \in 1 .. wanted :
           /\ Len(consumed') = Len(consumed) + n
           /\ ret' = "BUFFER_END" \/ rnode' = NULL => consumed' = appended
           /\ \/ n < wanted /\ wanted' = wanted - n /\ UNCHANGED <<pc, ret>>
              \/ n = wanted /\ pc' = "idle" /\ ret' = "OK"
              \/ n < wanted /\ pc' = "idle" /\ ret' = "BUFFER_END"
  <2>1. CASE ReadAtEnd
    BY <2>1 DEF ReadAtEnd, Returns
  <2>2. CASE ReadAborts
    BY <2>2 DEF ReadAborts
  <2>3. CASE ReadNode
    BY <2>3, ReadNodeKeeps
  <2> QED BY <2>1, <2>2, <2>3
<1>5. Len(consumed) \in Nat /\ wanted \in Nat /\ wanted > 0
  BY <1>1, BufferTypes DEF BInv, CallsInProgress
<1>6. ReadEnough'
  <2> SUFFICES ASSUME decoding = "take" PROVE ReadEnough'
    BY <1>1 DEF ReadEnough
  <2>1. Len(consumed) + wanted >= FieldLen(fields) /\ FieldLen(fields)' = FieldLen(fields)
        /\ FieldLen(fields) \in Nat
    <3>1. FieldLen(fields) \in 1 .. 2
      BY AtFacts DEF CodecInv, CodecTypes
    <3> QED BY <1>1, <3>1 DEF CodecInv, ReadEnough, FieldLen
  <2> QED BY <1>1, <1>4, <1>5, <2>1 DEF ReadEnough
<1>7. DecodedSoFar'
  <2> SUFFICES ASSUME Decodes PROVE DecodedSoFar'
    BY <1>1 DEF DecodedSoFar, Decodes
  <2>1. /\ decoding = "take" /\ fields < FieldCount(map) /\ ResultSoFar
        /\ rnode = NULL => Len(consumed) = Len(appended)
        /\ Len(consumed) + wanted = start + At(fields + 1)
    BY <1>1 DEF CodecInv, DecodedSoFar, Decodes
  <2>2. start + At(fields + 1) <= Len(appended) /\ Len(appended) \in Nat
    BY <2>1, DecodesFacts, BufferTypes
  <2>3. rnode # NULL
    BY <1>5, <2>1, <2>2
  <2>4. ~(ReadLength <= 0)
    <3>1. rnode \in Nodes /\ used[rnode] \in Nat /\ rptr \in Nat
      BY <2>3, Types DEF BInv, TypeOK
    <3>2. offset # 0
      BY <1>5, <2>1, <2>2, BufferTypes
    <3>3. rptr < used[rnode]
      BY <2>3, <3>2 DEF BInv, ReaderInPlace
    <3> QED BY <1>5, <3>1, <3>3 DEF ReadLength, MinOf
  <2>5. PICK n \in 1 .. wanted :
           /\ Len(consumed') = Len(consumed) + n
           /\ ret' = "BUFFER_END" \/ rnode' = NULL => consumed' = appended
           /\ \/ n < wanted /\ wanted' = wanted - n /\ UNCHANGED <<pc, ret>>
              \/ n = wanted /\ pc' = "idle" /\ ret' = "OK"
              \/ n < wanted /\ pc' = "idle" /\ ret' = "BUFFER_END"
    BY <1>4, <2>3, <2>4
  <2>6. ~(n < wanted /\ ret' = "BUFFER_END")
    BY <1>5, <2>1, <2>2, <2>5
  <2>7. \/ pc' = "read" /\ Len(consumed') + wanted' = start + At(fields + 1)
        \/ pc' = "idle" /\ ret' = "OK" /\ Len(consumed') = start + At(fields + 1)
    <3>1. CASE n < wanted /\ wanted' = wanted - n /\ UNCHANGED <<pc, ret>>
      BY <1>1, <1>5, <2>1, <2>5, <3>1
    <3>2. CASE n = wanted /\ pc' = "idle" /\ ret' = "OK"
      BY <2>1, <2>5, <3>2
    <3> QED BY <2>5, <2>6, <3>1, <3>2
  <2>8. rnode' = NULL => Len(consumed') = Len(appended')
    BY <1>1, <2>5
  <2>9. ResultSoFar'
    BY <1>1, <2>1 DEF ResultSoFar
  <2>10. FieldCount(map)' = FieldCount(map) /\ At(fields + 1)' = At(fields + 1)
    BY <1>1 DEF FieldCount, At
  <2> QED BY <1>1, <2>1, <2>7, <2>8, <2>9, <2>10 DEF DecodedSoFar
<1> QED BY <1>2, <1>3, <1>6, <1>7 DEF CodecInv

----------------------------------------------------------------------------
\* Every step keeps what is encoded and what is decoded in order.
LEMMA CodecInvNext ==
  BInv /\ CodecInv /\ [CodecNext]_<<vars, codec_vars>> => CodecInv'
<1> SUFFICES ASSUME BInv, CodecInv, [CodecNext]_<<vars, codec_vars>> PROVE CodecInv'
  OBVIOUS
<1>1. CASE UNCHANGED <<vars, codec_vars>>
  <2>1. /\ UNCHANGED <<encoding, todo, map, start, lost, decoding, result, osd_count, fields, from>>
        /\ UNCHANGED <<appended, pc, left, rnode, consumed, wanted, ret>>
    BY <1>1 DEF vars, codec_vars, buffer_vars, reader_vars
  <2>2. CodecTypes' /\ OneAtATime' /\ ReadEnough'
    BY <2>1 DEF CodecInv, CodecTypes, OneAtATime, TodoOK, ReadEnough, FieldLen
  <2>3. EncodedSoFar'
    BY <2>1, EncodedStays DEF CodecInv
  <2>4. DecodedSoFar'
    BY <2>1 DEF CodecInv, DecodedSoFar, Decodes, ResultSoFar, FieldCount, At
  <2> QED BY <2>2, <2>3, <2>4 DEF CodecInv
<1>2. CASE CodecNext
  <2>1. CASE CallGoesOn
    BY <2>1, AppendGoesOn, OtherTurnGoesOn, ReadGoesOn DEF CallGoesOn, Turn
  <2> QED BY <1>2, <2>1, EncodeBegins, FieldIsSent, EncodeEnds, DecodeBegins, FieldIsAsked,
             VersionTaken, IntTaken, OsdCountTaken, DecodeEnds, UsersCallKeeps DEF CodecNext
<1> QED BY <1>1, <1>2

LEMMA CodecInvariance == CodecSpec => []CodecInv
<1>1. CodecSpec => []BInv
  BY CodecHoldsBuffer, BInvariance, PTL
<1> QED BY <1>1, CodecInvInit, CodecInvNext, PTL DEF CodecSpec

\* cceph_encode_osdmap and cceph_decode_osdmap: what goes in comes out, and the
\* asserts on the versions hold, for maps with any osds.
THEOREM RoundTripHolds == CodecSpec => []RoundTrip
<1>1. CodecInv => RoundTrip
  <2> SUFFICES ASSUME CodecInv, start # Ended, from = start, ~encoding, ~lost
               PROVE  /\ decoding = "ended" => result = map /\ osd_count = Len(map.osds)
                      /\ decoding # "aborted"
    BY DEF RoundTrip
  <2>1. decoding # "aborted"
    BY DEF CodecInv, DecodedSoFar, Decodes
  <2>2. ASSUME decoding = "ended"
        PROVE  result = map /\ osd_count = Len(map.osds)
    <3>1. fields = FieldCount(map) /\ ResultSoFar /\ map \in Maps /\ result \in Results
      BY <2>2 DEF CodecInv, CodecTypes, DecodedSoFar, Decodes
    <3>2. /\ map.osds \in Seq(IntValues) /\ Len(map.osds) \in Nat
          /\ map \in [epoch : IntValues, pg_count : IntValues, osds : Seq(IntValues)]
      BY <3>1, MapFacts, MapsAssumption DEF IntValues
    <3>3. fields = 4 + 2 * Len(map.osds)
      BY <3>1 DEF FieldCount
    <3>4. (fields - 4) \div 2 = Len(map.osds) /\ fields >= 4 /\ fields \in Nat
      BY <3>2, <3>3
    <3>5. /\ result.epoch = map.epoch /\ result.pg_count = map.pg_count
          /\ osd_count = Len(map.osds)
          /\ Len(result.osds) = Len(map.osds)
          /\ \A i \in 1 .. Len(result.osds) : result.osds[i] = map.osds[i]
      BY <3>1, <3>4 DEF ResultSoFar
    <3>6. result.osds = map.osds
      <4>1. result.osds \in Seq(IntValues)
        BY <3>1 DEF Results
      <4> QED BY <3>2, <3>5, <4>1, SeqEqual
    <3>7. result = map
      BY <3>1, <3>2, <3>5, <3>6 DEF Results
    <3> QED BY <3>5, <3>7
  <2> QED BY <2>1, <2>2
<1> QED BY <1>1, CodecInvariance, PTL
=============================================================================
