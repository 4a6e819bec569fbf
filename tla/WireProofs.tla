----------------------------- MODULE WireProofs -----------------------------
(***************************************************************************)
(* What is read from a connection is what was sent on it, whole and in the *)
(* order of sending, for any threads, any writes and acks, and any width   *)
(* of the integers: as long as no short send went unseen.                  *)
(***************************************************************************)
EXTENDS Wire, SequenceTheorems, WellFoundedInduction, TLAPS

Width(m, f) == Fields(m)[f].width

----------------------------------------------------------------------------
\* What makes the property inductive.

Byte == Nat \X Nat \X Nat

Known == [op : {"none"} \cup Ops, oid : Nat, data : Nat]

TypeOK ==
  /\ state \in {"OPEN", "CLOSED"}
  /\ lock \in Threads \cup {NoThread}
  /\ msg \in [Threads -> Nat]
  /\ field \in [Threads -> Nat]
  /\ msgs \in Seq(Messages)
  /\ out \in Seq(Nat) /\ Len(out) = Len(msgs)
  /\ success \subseteq 1 .. Len(msgs)
  /\ stream \in Seq(Byte)
  /\ header \in Known
  /\ rfield \in Nat \ {0}
  /\ part \in Seq(Byte)
  /\ got \in Seq(Byte)
  /\ received \in Seq([bytes : Seq(Byte), message : Known])

\* The bytes on their way are bytes of messages.
BytesAreSent ==
  \A s \in {stream, part} : \A p \in 1 .. Len(s) : s[p][1] \in 1 .. Len(msgs)

\* The last message is the one that is being written.
InProgress(i) == lock # NoThread /\ i = Len(msgs)

\* The thread with the lock writes the last message, whose bytes are those of
\* the fields it has passed, or less.
LockHeld ==
  /\ \A t \in Threads : msg[t] # 0 <=> lock = t
  /\ lock # NoThread =>
       LET m == msgs[Len(msgs)]
       IN  /\ msg[lock] = Len(msgs)
           /\ field[lock] \in 1 .. Len(Fields(m))
           /\ out[Len(msgs)] <= SizeTo(m, field[lock] - 1)
           /\ NameIsSent(m) \/ field[lock] <= OidSize + 1

\* Only the last message may have failed: its connection is closed.
SuccessIsKnown ==
  /\ \A i \in 1 .. Len(msgs) :
       i \notin success => i = Len(msgs) /\ (lock # NoThread \/ state = "CLOSED")
  /\ \A i \in success : NameIsSent(msgs[i]) /\ out[i] <= Size(msgs[i])

\* A message that failed misses some bytes, but for the empty data of a write.
FailedIsCut ==
  \A i \in 1 .. Len(msgs) :
    i \notin success /\ Whole(i) => msgs[i].data = 0

\* No send was short unseen so far.
Exact(i) == IF InProgress(i) THEN out[i] = SizeTo(msgs[i], field[lock] - 1) ELSE Whole(i)

ExactTo(n) == \A i \in 1 .. n : i <= Len(msgs) => Exact(i)

\* base[i]: how many bytes were sent before those of message i.
IsBase(base) ==
  /\ base \in [1 .. Len(msgs) + 1 -> Nat]
  /\ base[1] = 0
  /\ \A i \in 1 .. Len(msgs) : base[i + 1] = base[i] + out[i]
  /\ \A i, j \in 1 .. Len(msgs) + 1 : i <= j => base[i] <= base[j]

\* How many bytes recv has taken.
Taken(base) == base[Len(msgs) + 1] - Len(stream)

\* Byte p on its way is byte k of field f of message i, and at its place.
ByteInPlace(base, p, i, f, k) ==
  /\ i \in 1 .. Len(msgs) /\ f \in 1 .. Len(Fields(msgs[i])) /\ k \in 1 .. Width(msgs[i], f)
  /\ stream[p] = <<i, f, k>>
  /\ NameIsSent(msgs[i]) \/ f <= OidSize
  /\ base[i] < Taken(base) + p /\ Taken(base) + p <= base[i + 1]
  /\ Exact(i) => Taken(base) + p = base[i] + SizeTo(msgs[i], f - 1) + k

StreamInPlace(base) ==
  \A p \in 1 .. Len(stream) : \E i, f, k \in Nat : ByteInPlace(base, p, i, f, k)

\* What the worker has of message n, and knows of it.
ReadsMessage(n) ==
  LET m == msgs[n]
  IN  /\ rfield \in 1 .. Len(Fields(m))
      /\ rfield > OpField => header.op = m.op
      /\ rfield > OidSize => NameIsSent(m)
      /\ header.oid = IF rfield > OidSize THEN AsInt16(m.oid) ELSE 0
      /\ header.data = IF rfield > DataLength THEN m.data ELSE 0
      /\ Len(got) = SizeTo(m, rfield - 1)
      /\ \A f \in 1 .. rfield - 1 : \A k \in 1 .. Width(m, f) :
           got[SizeTo(m, f - 1) + k] = <<n, f, k>>
      /\ Len(part) <= Width(m, rfield)
      /\ \A k \in 1 .. Len(part) : part[k] = <<n, rfield, k>>

\* The worker is at its place: at a message that was begun, or behind them all.
ReaderInPlace(base) ==
  LET n == Len(received) + 1
  IN  ExactTo(n) =>
        /\ n <= Len(msgs) + 1
        /\ Taken(base) = base[n] + Len(got) + Len(part)
        /\ rfield = 1 => header = Unread
        /\ IF n <= Len(msgs) THEN ReadsMessage(n) ELSE rfield = 1 /\ got = << >> /\ part = << >>

ReadAsSent ==
  \A i \in 1 .. Len(received) :
    ExactTo(i) =>
      /\ i <= Len(msgs) /\ Whole(i)
      /\ IsImage(received[i].bytes, i)
      /\ NameFits(msgs[i]) => received[i].message = msgs[i]

InPlace == \E base : IsBase(base) /\ StreamInPlace(base) /\ ReaderInPlace(base)

SendInv == TypeOK /\ BytesAreSent /\ LockHeld /\ SuccessIsKnown /\ FailedIsCut

WInv == SendInv /\ InPlace /\ ReadAsSent

----------------------------------------------------------------------------
\* The format.

\* The size of a name is in range; one that is in range stays as it is.
LEMMA SizeIs ==
  ASSUME NEW n \in Nat
  PROVE  /\ AsInt16(n) \in Int
         /\ AsInt16(n) >= 0 => AsInt16(AsInt16(n)) = AsInt16(n)
         /\ n < SizeLimit => AsInt16(n) = n
<1> DEFINE R == SizeLimit + SizeLimit
<1>1. SizeLimit \in Nat /\ SizeLimit > 0 /\ R \in Nat /\ R > 0 /\ 2 * SizeLimit = R
  BY WidthAssumption
<1>2. \A k \in Int : AsInt16(k) = ((k + SizeLimit) % R) - SizeLimit
  BY <1>1 DEF AsInt16
<1> HIDE DEF R
<1>3. \A k \in Nat : k % R \in 0 .. R - 1
  BY <1>1
<1>4. \A k \in 0 .. R - 1 : k % R = k
  BY <1>1
<1>5. AsInt16(n) \in Int /\ AsInt16(n) + SizeLimit \in 0 .. R - 1
  <2>1. n + SizeLimit \in Nat
    BY <1>1
  <2>2. (n + SizeLimit) % R \in 0 .. R - 1
    BY <1>3, <2>1
  <2> QED BY <1>1, <1>2, <2>2
<1>6. \A k \in Int : k + SizeLimit \in 0 .. R - 1 => AsInt16(k) = k
  <2> SUFFICES ASSUME NEW k \in Int, k + SizeLimit \in 0 .. R - 1 PROVE AsInt16(k) = k
    OBVIOUS
  <2>1. (k + SizeLimit) % R = k + SizeLimit
    BY <1>4
  <2> QED BY <1>1, <1>2, <2>1
<1>7. n < SizeLimit => n + SizeLimit \in 0 .. R - 1
  BY <1>1 DEF R
<1> QED BY <1>5, <1>6, <1>7

LEMMA Joined ==
  ASSUME NEW S, NEW h \in Seq(S), NEW b \in Seq(S)
  PROVE  /\ h \o b \in Seq(S)
         /\ Len(h \o b) = Len(h) + Len(b)
         /\ \A f \in 1 .. Len(h) : (h \o b)[f] = h[f]
         /\ \A f \in 1 .. Len(b) : (h \o b)[Len(h) + f] = b[f]
<1>1. Len(h) \in Nat /\ Len(b) \in Nat
  OBVIOUS
<1>2. \A i \in 1 .. Len(h) + Len(b) : (h \o b)[i] = IF i <= Len(h) THEN h[i] ELSE b[i - Len(h)]
  BY ConcatProperties
<1>3. ASSUME NEW f \in 1 .. Len(b) PROVE (h \o b)[Len(h) + f] = b[f]
  <2>1. Len(h) + f \in 1 .. Len(h) + Len(b) /\ ~(Len(h) + f <= Len(h)) /\ (Len(h) + f) - Len(h) = f
    BY <1>1
  <2> QED BY <1>2, <2>1
<1>4. ASSUME NEW f \in 1 .. Len(h) PROVE (h \o b)[f] = h[f]
  BY <1>1, <1>2
<1> QED BY <1>3, <1>4, ConcatProperties

\* The widths of the fields of a write, of an ack, and of a header alone, which
\* is all that is known of a message whose op is not.
LEMMA WriteFields ==
  ASSUME NEW m, m.op = "WRITE"
  PROVE  /\ Len(Fields(m)) = 9
         /\ Width(m, 1) = 1
         /\ \A f \in 2 .. 9 : Width(m, f) = CASE f = 6 -> AsInt16(m.oid)
                                              [] f = 9 -> m.data
                                              [] OTHER -> IntWidth
<1> DEFINE a == AsInt16(m.oid)
           b == <<Unchecked(IntWidth), Unchecked(IntWidth), Checked(IntWidth), Checked(a),
                  Unchecked(IntWidth), Checked(IntWidth), Checked(m.data)>>
           S == {Checked(1), Checked(IntWidth), Unchecked(IntWidth), Checked(a), Checked(m.data)}
<1>1. Fields(m) = Header \o b
  BY DEF Fields, Body
<1>2. Header = <<Checked(1), Unchecked(IntWidth)>>
  BY DEF Header
<1> HIDE DEF a
<1>3. Header \in Seq(S) /\ b \in Seq(S)
  BY <1>2
<1>j. /\ Len(Fields(m)) = Len(Header) + Len(b)
      /\ \A f \in 1 .. Len(Header) : Fields(m)[f] = Header[f]
      /\ \A f \in 1 .. Len(b) : Fields(m)[Len(Header) + f] = b[f]
  <2> HIDE DEF b, S
  <2> QED BY <1>1, <1>3, Joined
<1>l. Len(Header) = 2 /\ Len(b) = 7
  BY <1>2
<1>4. \A f \in 1 .. 7 : Fields(m)[2 + f] = b[f]
  <2> HIDE DEF b, S
  <2> QED BY <1>j, <1>l
<1>5. Len(Fields(m)) = 9 /\ Fields(m)[1] = Checked(1) /\ Fields(m)[2] = Unchecked(IntWidth)
  <2> HIDE DEF b, S
  <2> QED BY <1>2, <1>j, <1>l
<1>6. /\ Fields(m)[3] = Unchecked(IntWidth) /\ Fields(m)[4] = Unchecked(IntWidth)
      /\ Fields(m)[5] = Checked(IntWidth)   /\ Fields(m)[6] = Checked(a)
      /\ Fields(m)[7] = Unchecked(IntWidth) /\ Fields(m)[8] = Checked(IntWidth)
      /\ Fields(m)[9] = Checked(m.data)
  <2>1. /\ b[1] = Unchecked(IntWidth) /\ b[2] = Unchecked(IntWidth) /\ b[3] = Checked(IntWidth)
        /\ b[4] = Checked(a) /\ b[5] = Unchecked(IntWidth) /\ b[6] = Checked(IntWidth)
        /\ b[7] = Checked(m.data)
    OBVIOUS
  <2> HIDE DEF b
  <2>2. /\ Fields(m)[2 + 1] = b[1] /\ Fields(m)[2 + 2] = b[2] /\ Fields(m)[2 + 3] = b[3]
        /\ Fields(m)[2 + 4] = b[4] /\ Fields(m)[2 + 5] = b[5] /\ Fields(m)[2 + 6] = b[6]
        /\ Fields(m)[2 + 7] = b[7]
    BY <1>4
  <2> QED BY <2>1, <2>2
<1> QED BY <1>5, <1>6 DEF Width, Checked, Unchecked, a

LEMMA AckFields ==
  ASSUME NEW m, m.op = "WRITE_ACK"
  PROVE  /\ Len(Fields(m)) = 5
         /\ \A f \in 1 .. 5 : Width(m, f) = IF f \in {1, 5} THEN 1 ELSE IntWidth
<1> DEFINE b == <<Unchecked(IntWidth), Unchecked(IntWidth), Checked(1)>>
           S == {Checked(1), Unchecked(IntWidth)}
<1>1. Fields(m) = Header \o b
  BY DEF Fields, Body
<1>2. Header = <<Checked(1), Unchecked(IntWidth)>>
  BY DEF Header
<1>3. Header \in Seq(S) /\ b \in Seq(S)
  BY <1>2
<1>j. /\ Len(Fields(m)) = Len(Header) + Len(b)
      /\ \A f \in 1 .. Len(Header) : Fields(m)[f] = Header[f]
      /\ \A f \in 1 .. Len(b) : Fields(m)[Len(Header) + f] = b[f]
  <2> HIDE DEF b, S
  <2> QED BY <1>1, <1>3, Joined
<1>l. Len(Header) = 2 /\ Len(b) = 3
  BY <1>2
<1>4. b[1] = Unchecked(IntWidth) /\ b[2] = Unchecked(IntWidth) /\ b[3] = Checked(1)
  OBVIOUS
<1> HIDE DEF b, S
<1>5. Len(Fields(m)) = 5 /\ Fields(m)[1] = Checked(1) /\ Fields(m)[2] = Unchecked(IntWidth)
  BY <1>2, <1>j, <1>l
<1>6. \A f \in 1 .. 3 : Fields(m)[2 + f] = b[f]
  BY <1>j, <1>l
<1>7. /\ Fields(m)[3] = Unchecked(IntWidth) /\ Fields(m)[4] = Unchecked(IntWidth)
      /\ Fields(m)[5] = Checked(1)
  <2>1. Fields(m)[2 + 1] = b[1] /\ Fields(m)[2 + 2] = b[2] /\ Fields(m)[2 + 3] = b[3]
    BY <1>6
  <2> QED BY <1>4, <2>1
<1> QED BY <1>5, <1>7 DEF Width, Checked, Unchecked

LEMMA HeaderFields ==
  ASSUME NEW m, m.op \notin {"WRITE", "WRITE_ACK"}
  PROVE  /\ Len(Fields(m)) = 2
         /\ Width(m, 1) = 1
         /\ Width(m, 2) = IntWidth
<1> DEFINE S == {Checked(1), Unchecked(IntWidth)}
<1>1. Fields(m) = Header \o << >>
  BY DEF Fields, Body
<1>2. Header = <<Checked(1), Unchecked(IntWidth)>>
  BY DEF Header
<1>3. Header \in Seq(S)
  BY <1>2
<1>4. Fields(m) = Header
  <2> HIDE DEF S
  <2> QED BY <1>1, <1>3, ConcatEmptySeq
<1>5. Len(Fields(m)) = 2 /\ Fields(m)[1] = Checked(1) /\ Fields(m)[2] = Unchecked(IntWidth)
  BY <1>2, <1>4
<1> QED BY <1>5 DEF Width, Checked, Unchecked

\* The fields of a message are fewer than ten; all of them have a width of 0 or
\* more, but for a name with a negative size.
LEMMA WidthsAre ==
  ASSUME NEW m \in Messages
  PROVE  /\ Len(Fields(m)) \in {5, 9}
         /\ Width(m, OpField) = 1
         /\ \A f \in 1 .. Len(Fields(m)) :
              /\ Width(m, f) \in Int
              /\ NameIsSent(m) \/ f # OidSize + 1 => Width(m, f) >= 0
              /\ Width(m, f) = 0 => f = OidSize + 1 \/ (f = Len(Fields(m)) /\ m.data = 0)
<1>1. m.op \in {"WRITE", "WRITE_ACK"} /\ m.oid \in Nat /\ m.data \in Nat
  BY MessagesAssumption
<1>2. IntWidth \in Nat \ {0} /\ AsInt16(m.oid) \in Int
  BY <1>1, WidthAssumption, SizeIs
<1>3. CASE m.op = "WRITE"
  <2>1. /\ Len(Fields(m)) = 9
        /\ Width(m, 1) = 1
        /\ Width(m, 6) = AsInt16(m.oid) /\ Width(m, 9) = m.data
        /\ \A f \in {2, 3, 4, 5, 7, 8} : Width(m, f) = IntWidth
    <3>1. Len(Fields(m)) = 9 /\ Width(m, 1) = 1
      BY <1>3, WriteFields
    <3>2. \A f \in 2 .. 9 : Width(m, f) = CASE f = 6 -> AsInt16(m.oid)
                                             [] f = 9 -> m.data
                                             [] OTHER -> IntWidth
      BY <1>3, WriteFields
    <3> QED BY <3>1, <3>2
  <2>2. 1 .. 9 = {1, 2, 3, 4, 5, 6, 7, 8, 9}
    OBVIOUS
  <2> QED BY <1>1, <1>2, <2>1, <2>2 DEF NameIsSent, OidSize, OpField
<1>4. CASE m.op = "WRITE_ACK"
  <2>1. /\ Len(Fields(m)) = 5
        /\ Width(m, 1) = 1 /\ Width(m, 5) = 1
        /\ \A f \in {2, 3, 4} : Width(m, f) = IntWidth
    BY <1>4, AckFields
  <2>2. 1 .. 5 = {1, 2, 3, 4, 5}
    OBVIOUS
  <2> QED BY <1>1, <1>2, <2>1, <2>2 DEF NameIsSent, OidSize, OpField
<1> QED BY <1>1, <1>3, <1>4

\* A set of numbers that is not empty has a least one.
Below == {p \in Nat \X Nat : p[1] < p[2]}

LEMMA Least ==
  ASSUME NEW S \in SUBSET Nat, S # {}
  PROVE  \E n \in S : \A m \in S : n <= m
<1>1. IsWellFoundedOn(Below, Nat)
  BY ONLY NatLessThanWellFounded DEF OpToRel, Below
<1>2. PICK n \in S : \A m \in S : ~(<<m, n>> \in Below)
  BY <1>1, WFMin
<1>3. \A m \in S : ~(m < n)
  BY <1>2 DEF Below
<1> QED BY <1>3

\* sum[f]: the width of the fields up to f.
IsSum(sum, m, last) ==
  sum = [f \in 0 .. last |-> IF f = 0 THEN 0 ELSE sum[f - 1] + Fields(m)[f].width]

LEMMA SumExists ==
  ASSUME NEW m, NEW last \in Nat
  PROVE  \E sum : IsSum(sum, m, last)
<1> DEFINE Fails == {n \in Nat : ~ \E sum : IsSum(sum, m, n)}
<1> SUFFICES ASSUME Fails # {} PROVE FALSE
  OBVIOUS
<1>1. PICK n \in Fails : \A k \in Fails : n <= k
  <2>1. Fails \in SUBSET Nat
    OBVIOUS
  <2> HIDE DEF Fails
  <2> QED BY <2>1, Least
<1>2. n \in Nat /\ ~ \E sum : IsSum(sum, m, n)
  OBVIOUS
<1>3. CASE n = 0
  <2> DEFINE sum == [f \in 0 .. n |-> 0]
  <2>1. IsSum(sum, m, n)
    BY <1>3 DEF IsSum
  <2> QED BY <1>2, <2>1
<1>4. CASE n > 0
  <2>1. n - 1 \in Nat /\ n - 1 \notin Fails
    BY <1>1, <1>2, <1>4
  <2>2. PICK old : IsSum(old, m, n - 1)
    BY <2>1
  <2> DEFINE new == old[n - 1] + Fields(m)[n].width
             sum == [f \in 0 .. n |-> IF f = n THEN new ELSE old[f]]
  <2>3. \A f \in 0 .. n - 1 : old[f] = IF f = 0 THEN 0 ELSE old[f - 1] + Fields(m)[f].width
    BY <2>2 DEF IsSum
  <2>4. \A f \in 0 .. n : f # n => f \in 0 .. n - 1
    BY <1>2
  <2>5. \A f \in 0 .. n : f # 0 => f - 1 \in 0 .. n /\ f - 1 # n
    BY <1>2
  <2>6. \A f \in 0 .. n : f # 0 => sum[f - 1] = old[f - 1]
    BY <2>5
  <2>7. \A f \in 0 .. n : sum[f] = IF f = 0 THEN 0 ELSE sum[f - 1] + Fields(m)[f].width
    <3> SUFFICES ASSUME NEW f \in 0 .. n
                 PROVE  sum[f] = IF f = 0 THEN 0 ELSE sum[f - 1] + Fields(m)[f].width
      OBVIOUS
    <3>1. CASE f = n
      <4>1. sum[f] = new /\ f # 0 /\ sum[f - 1] = old[n - 1]
        BY <1>4, <2>6, <3>1
      <4> HIDE DEF sum
      <4> QED BY <3>1, <4>1
    <3>2. CASE f # n
      <4>1. sum[f] = old[f] /\ f \in 0 .. n - 1
        BY <2>4, <3>2
      <4>2. f # 0 => sum[f - 1] = old[f - 1]
        BY <2>6
      <4> HIDE DEF sum
      <4> QED BY <2>3, <4>1, <4>2
    <3> QED BY <3>1, <3>2
  <2>8. sum = [f \in 0 .. n |-> sum[f]]
    OBVIOUS
  <2> HIDE DEF sum
  <2>9. IsSum(sum, m, n)
    BY <2>7, <2>8 DEF IsSum
  <2> QED BY <1>2, <2>9
<1> QED BY <1>2, <1>3, <1>4

\* What SizeTo computes.
LEMMA SizeToIs ==
  ASSUME NEW m, Len(Fields(m)) \in Nat
  PROVE  /\ SizeTo(m, 0) = 0
         /\ \A f \in 1 .. Len(Fields(m)) : SizeTo(m, f) = SizeTo(m, f - 1) + Width(m, f)
<1> DEFINE last == Len(Fields(m))
           sum == CHOOSE to : IsSum(to, m, last)
<1>1. IsSum(sum, m, last)
  BY SumExists
<1>2. \A f : SizeTo(m, f) = sum[f]
  BY DEF SizeTo, IsSum
<1> HIDE DEF sum
<1>3. \A f \in 0 .. last : sum[f] = IF f = 0 THEN 0 ELSE sum[f - 1] + Fields(m)[f].width
  BY <1>1 DEF IsSum
<1>4. sum[0] = 0
  BY <1>3
<1>5. \A f \in 1 .. last : sum[f] = sum[f - 1] + Fields(m)[f].width
  BY <1>3
<1> QED BY <1>2, <1>4, <1>5 DEF Width

\* The fields that are sent at all.
SentUpTo(m, f) == NameIsSent(m) \/ f <= OidSize

LEMMA SizesGrow ==
  ASSUME NEW m \in Messages, NEW g \in 0 .. Len(Fields(m)), SentUpTo(m, g), NEW f \in 0 .. g
  PROVE  SizeTo(m, f) \in Nat /\ SizeTo(m, g) \in Nat /\ SizeTo(m, f) <= SizeTo(m, g)
<1> DEFINE last == Len(Fields(m))
<1>1. last \in Nat /\ f \in Nat /\ g \in Nat /\ f <= g /\ g <= last
  <2>1. last \in Nat
    BY WidthsAre
  <2> QED BY <2>1
<1>2. \A h \in 1 .. g : /\ SizeTo(m, h) = SizeTo(m, h - 1) + Width(m, h)
                        /\ Width(m, h) \in Nat
  <2> SUFFICES ASSUME NEW h \in 1 .. g
               PROVE  /\ SizeTo(m, h) = SizeTo(m, h - 1) + Width(m, h)
                      /\ Width(m, h) \in Nat
    OBVIOUS
  <2>1. h \in 1 .. last
    BY <1>1
  <2>2. NameIsSent(m) \/ h # OidSize + 1
    BY <1>1 DEF SentUpTo, OidSize
  <2>3. Width(m, h) \in Nat
    BY <2>1, <2>2, WidthsAre
  <2> QED BY <1>1, <2>1, <2>3, SizeToIs
<1>3. SizeTo(m, 0) = 0
  BY <1>1, SizeToIs
<1>4. ASSUME NEW h \in 0 .. g PROVE SizeTo(m, h) \in Nat
  <2> DEFINE Wrong == {n \in 0 .. g : SizeTo(m, n) \notin Nat}
  <2> SUFFICES ASSUME Wrong # {} PROVE FALSE
    OBVIOUS
  <2>1. PICK n \in Wrong : \A k \in Wrong : n <= k
    <3>1. Wrong \in SUBSET Nat
      OBVIOUS
    <3> HIDE DEF Wrong
    <3> QED BY <3>1, Least
  <2>2. n \in 0 .. g /\ SizeTo(m, n) \notin Nat /\ n # 0
    BY <1>3
  <2>3. n - 1 \in 0 .. g /\ n \in 1 .. g /\ n - 1 \notin Wrong
    BY <1>1, <2>1, <2>2
  <2>4. SizeTo(m, n - 1) \in Nat
    BY <2>3
  <2> QED BY <1>2, <2>2, <2>3, <2>4
<1>5. SizeTo(m, f) <= SizeTo(m, g)
  <2> DEFINE Wrong == {n \in f .. g : ~(SizeTo(m, f) <= SizeTo(m, n))}
  <2> SUFFICES ASSUME Wrong # {} PROVE FALSE
    BY <1>1
  <2>1. PICK n \in Wrong : \A k \in Wrong : n <= k
    <3>1. Wrong \in SUBSET Nat
      BY <1>1
    <3> HIDE DEF Wrong
    <3> QED BY <3>1, Least
  <2>2. SizeTo(m, f) \in Nat
    BY <1>1, <1>4
  <2>3. n \in f .. g /\ n # f /\ ~(SizeTo(m, f) <= SizeTo(m, n))
    BY <2>2
  <2>4. n - 1 \in f .. g /\ n \in 1 .. g /\ n - 1 \in 0 .. g /\ n - 1 \notin Wrong
    BY <1>1, <2>1, <2>3
  <2>5. SizeTo(m, f) <= SizeTo(m, n - 1)
    BY <2>4
  <2> QED BY <1>2, <1>4, <2>2, <2>3, <2>4, <2>5
<1> QED BY <1>1, <1>4, <1>5

\* The next field.
LEMMA SizeGrowsBy ==
  ASSUME NEW m \in Messages, NEW f \in 1 .. Len(Fields(m)), SentUpTo(m, f)
  PROVE  /\ Width(m, f) \in Nat
         /\ SizeTo(m, f - 1) \in Nat
         /\ SizeTo(m, f) = SizeTo(m, f - 1) + Width(m, f)
<1>1. Len(Fields(m)) \in Nat
  BY WidthsAre
<1>2. f - 1 \in 0 .. f /\ f \in 0 .. Len(Fields(m)) /\ f \in Int
  BY <1>1
<1>3. SizeTo(m, f - 1) \in Nat
  BY <1>2, SizesGrow
<1>4. NameIsSent(m) \/ f # OidSize + 1
  BY DEF SentUpTo, OidSize
<1>5. Width(m, f) \in Nat
  BY <1>4, WidthsAre
<1> QED BY <1>1, <1>3, <1>5, SizeToIs

\* Two bytes of a message have two places.
LEMMA OnePlace ==
  ASSUME NEW m \in Messages,
         NEW f \in 1 .. Len(Fields(m)), NEW k \in 1 .. Width(m, f), SentUpTo(m, f),
         NEW g \in 1 .. Len(Fields(m)), NEW j \in 1 .. Width(m, g), SentUpTo(m, g),
         SizeTo(m, f - 1) + k = SizeTo(m, g - 1) + j
  PROVE  f = g /\ k = j
<1>1. Len(Fields(m)) \in Nat
  BY WidthsAre
<1>2. ASSUME NEW a \in 1 .. Len(Fields(m)), NEW b \in 1 .. Len(Fields(m)), SentUpTo(m, b), a < b
      PROVE  SizeTo(m, a) <= SizeTo(m, b - 1)
  <2>1. b - 1 \in 0 .. Len(Fields(m)) /\ a \in 0 .. b - 1
    BY <1>1, <1>2
  <2>2. SentUpTo(m, b - 1)
    BY <1>2 DEF SentUpTo, OidSize
  <2> QED BY <2>1, <2>2, SizesGrow
<1>3. /\ Width(m, f) \in Nat /\ SizeTo(m, f - 1) \in Nat
      /\ SizeTo(m, f) = SizeTo(m, f - 1) + Width(m, f)
  BY SizeGrowsBy
<1>4. /\ Width(m, g) \in Nat /\ SizeTo(m, g - 1) \in Nat
      /\ SizeTo(m, g) = SizeTo(m, g - 1) + Width(m, g)
  BY SizeGrowsBy
<1>5. ~(f < g)
  <2> SUFFICES ASSUME f < g PROVE FALSE
    OBVIOUS
  <2>1. SizeTo(m, f) <= SizeTo(m, g - 1)
    BY <1>2
  <2> QED BY <1>3, <1>4, <2>1
<1>6. ~(g < f)
  <2> SUFFICES ASSUME g < f PROVE FALSE
    OBVIOUS
  <2>1. SizeTo(m, g) <= SizeTo(m, f - 1)
    BY <1>2
  <2> QED BY <1>3, <1>4, <2>1
<1>7. f = g
  BY <1>1, <1>5, <1>6
<1> QED BY <1>3, <1>7

\* Only a write whose data is empty is complete before its last field is sent.
LEMMA OnlyDataIsEmpty ==
  ASSUME NEW m \in Messages, NameIsSent(m), NEW f \in 0 .. Len(Fields(m)) - 1,
         SizeTo(m, f) >= Size(m)
  PROVE  m.data = 0
<1> DEFINE last == Len(Fields(m))
<1>1. last \in {5, 9} /\ last \in 1 .. last /\ last - 1 \in 0 .. last /\ f \in 0 .. last - 1
  BY WidthsAre
<1>2. SentUpTo(m, last) /\ SentUpTo(m, last - 1)
  BY DEF SentUpTo
<1>3. SizeTo(m, f) \in Nat /\ SizeTo(m, last - 1) \in Nat /\ SizeTo(m, f) <= SizeTo(m, last - 1)
  BY <1>1, <1>2, SizesGrow
<1>4. Width(m, last) \in Nat /\ SizeTo(m, last) = SizeTo(m, last - 1) + Width(m, last)
  BY <1>1, <1>2, SizeGrowsBy
<1>5. Width(m, last) = 0
  BY <1>3, <1>4 DEF Size
<1>6. last # OidSize + 1
  <2>1. OidSize + 1 = 6
    BY DEF OidSize
  <2> HIDE DEF last
  <2> QED BY <1>1, <2>1
<1> QED BY <1>1, <1>5, <1>6, WidthsAre

LEMMA LastIsSent ==
  ASSUME NEW m \in Messages, SentUpTo(m, Len(Fields(m)))
  PROVE  NameIsSent(m)
<1>1. m.op \in {"WRITE", "WRITE_ACK"} /\ (m.op = "WRITE_ACK" => m.oid = 0)
  BY MessagesAssumption
<1>2. CASE m.op = "WRITE"
  <2>1. Len(Fields(m)) = 9
    BY <1>2, WriteFields
  <2> QED BY <2>1 DEF SentUpTo, OidSize
<1>3. CASE m.op = "WRITE_ACK"
  <2>1. 0 < SizeLimit
    BY WidthAssumption
  <2>2. AsInt16(0) = 0
    BY <2>1, SizeIs
  <2> QED BY <1>1, <1>3, <2>2 DEF NameIsSent
<1> QED BY <1>1, <1>2, <1>3

\* A size is the least when nothing more comes.
LEMMA SizeIsMost ==
  ASSUME NEW m \in Messages, NameIsSent(m), NEW f \in 0 .. Len(Fields(m))
  PROVE  SizeTo(m, f) \in Nat /\ Size(m) \in Nat /\ SizeTo(m, f) <= Size(m)
<1>1. Len(Fields(m)) \in Nat /\ Len(Fields(m)) \in 0 .. Len(Fields(m)) /\ SentUpTo(m, Len(Fields(m)))
  BY WidthsAre DEF SentUpTo
<1> QED BY <1>1, SizesGrow DEF Size

----------------------------------------------------------------------------
\* The sending end.

\* The message of t, and the field it sends.
LEMMA SenderIs ==
  ASSUME TypeOK, LockHeld, NEW t \in Threads, Writing(t)
  PROVE  LET L == Len(msgs)
             m == msgs[L]
             f == field[t]
         IN  /\ lock = t /\ t # NoThread /\ msg[t] = L /\ L \in 1 .. L
             /\ m \in Messages
             /\ f \in 1 .. Len(Fields(m)) /\ f - 1 \in 0 .. Len(Fields(m)) - 1
             /\ SentUpTo(m, f - 1) /\ (Width(m, f) >= 0 => SentUpTo(m, f))
             /\ SizeTo(m, f - 1) \in Nat
             /\ out[L] \in Nat /\ out[L] <= SizeTo(m, f - 1)
             /\ Current(t).width = Width(m, f)
             /\ Width(m, f) \in Int
<1> DEFINE L == Len(msgs)
           m == msgs[L]
           f == field[t]
<1>1. lock = t /\ t # NoThread
  BY NoThreadAssumption DEF LockHeld, Writing
<1>2. /\ msg[t] = L /\ f \in 1 .. Len(Fields(m))
      /\ out[L] <= SizeTo(m, f - 1)
      /\ NameIsSent(m) \/ f <= OidSize + 1
  BY <1>1 DEF LockHeld
<1>3. L \in Nat /\ L # 0 /\ L \in 1 .. L
  BY <1>2 DEF TypeOK, Writing
<1>4. m \in Messages /\ out[L] \in Nat
  BY <1>3 DEF TypeOK
<1>5. Len(Fields(m)) \in Nat /\ f \in Nat /\ f - 1 \in 0 .. Len(Fields(m)) - 1
  BY <1>2, <1>4, WidthsAre
<1>6. SentUpTo(m, f - 1)
  BY <1>2, <1>5 DEF SentUpTo, OidSize
<1>7. Width(m, f) \in Int
  BY <1>2, <1>4, WidthsAre
<1>8. ASSUME Width(m, f) >= 0 PROVE SentUpTo(m, f)
  <2>1. CASE f = OidSize + 1
    <3>1. Len(Fields(m)) = 9 /\ Width(m, f) = AsInt16(m.oid)
      <4>1. m.op \in {"WRITE", "WRITE_ACK"}
        BY <1>4, MessagesAssumption
      <4>2. m.op # "WRITE_ACK"
        <5> SUFFICES ASSUME m.op = "WRITE_ACK" PROVE FALSE
          OBVIOUS
        <5>1. Len(Fields(m)) = 5
          BY AckFields
        <5>2. f \in 1 .. 5 /\ f = 6
          BY <1>2, <2>1, <5>1 DEF OidSize
        <5> QED BY <5>2
      <4>3. Len(Fields(m)) = 9
        BY <4>1, <4>2, WriteFields
      <4>4. Width(m, 6) = AsInt16(m.oid)
        BY <4>1, <4>2, WriteFields
      <4>5. f = 6
        BY <2>1 DEF OidSize
      <4> QED BY <4>3, <4>4, <4>5
    <3> QED BY <1>8, <3>1 DEF SentUpTo, NameIsSent
  <2>2. CASE f # OidSize + 1
    BY <1>2, <1>5, <2>2 DEF SentUpTo, OidSize
  <2> QED BY <2>1, <2>2
<1>9. SizeTo(m, f - 1) \in Nat
  <2>1. f - 1 \in 0 .. f - 1 /\ f - 1 \in 0 .. Len(Fields(m))
    BY <1>5
  <2> QED BY <1>4, <1>6, <2>1, SizesGrow
<1>10. Current(t).width = Width(m, f)
  BY <1>2 DEF Current, Width
<1> QED BY <1>1, <1>2, <1>3, <1>4, <1>5, <1>6, <1>7, <1>8, <1>9, <1>10

\* send takes n bytes of the field of t.
Sends(t, n) ==
  /\ Writing(t)
  /\ Takes(t, n)
  /\ n \in Nat
  /\ n = 0 \/ n <= Width(msgs[Len(msgs)], field[t])
  /\ UNCHANGED <<msgs, recv_vars>>

\* The message goes on or is complete.
GoesOn(t, n) ==
  /\ Sends(t, n)
  /\ n <= Width(msgs[Len(msgs)], field[t])
  /\ NextField(t)
  /\ UNCHANGED state

\* The message has failed.
Fails(t, n) ==
  /\ Sends(t, n)
  /\ n = 0 \/ n < Width(msgs[Len(msgs)], field[t])
  /\ Unlocks(t)
  /\ state' = "CLOSED"
  /\ UNCHANGED success

LEMMA SendCases ==
  ASSUME TypeOK, LockHeld, NEW t \in Threads
  PROVE  /\ SendField(t) => GoesOn(t, Width(msgs[Len(msgs)], field[t]))
         /\ \A n \in 0 .. IntWidth :
              /\ SendFieldShort(t, n) => GoesOn(t, n)
              /\ SendFieldFails(t, n) => Fails(t, n)
<1> DEFINE w == Width(msgs[Len(msgs)], field[t])
<1>1. ASSUME Writing(t) PROVE Current(t).width = w /\ w \in Int
  BY <1>1, SenderIs
<1>2. ASSUME SendField(t) PROVE GoesOn(t, w)
  BY <1>1, <1>2 DEF SendField, GoesOn, Sends
<1>3. ASSUME NEW n \in 0 .. IntWidth, SendFieldShort(t, n) PROVE GoesOn(t, n)
  <2>1. Writing(t) /\ n \in 1 .. Current(t).width - 1 /\ n \in Nat
    BY <1>3, WidthAssumption DEF SendFieldShort
  <2>2. n < w /\ n <= w
    BY <1>1, <2>1
  <2> QED BY <1>3, <2>1, <2>2 DEF SendFieldShort, GoesOn, Sends
<1>4. ASSUME NEW n \in 0 .. IntWidth, SendFieldFails(t, n) PROVE Fails(t, n)
  <2>1. Writing(t) /\ n \in Nat /\ (n = 0 \/ n < Current(t).width)
    BY <1>4, WidthAssumption DEF SendFieldFails
  <2>2. (n = 0 \/ n < w) /\ (n = 0 \/ n <= w)
    BY <1>1, <2>1
  <2> QED BY <1>4, <2>1, <2>2 DEF SendFieldFails, Fails, Sends
<1> QED BY <1>2, <1>3, <1>4

\* What send has taken is on its way behind the rest.
LEMMA SentIs ==
  ASSUME TypeOK, BytesAreSent, LockHeld, NEW t \in Threads, NEW n, Sends(t, n)
  PROVE  LET L == Len(msgs)
         IN  /\ out' \in Seq(Nat) /\ Len(out') = L
             /\ out'[L] = out[L] + n
             /\ \A i \in 1 .. L : i # L => out'[i] = out[i]
             /\ stream' \in Seq(Byte) /\ Len(stream') = Len(stream) + n
             /\ \A p \in 1 .. Len(stream) : stream'[p] = stream[p]
             /\ \A k \in 1 .. n : stream'[Len(stream) + k] = <<L, field[t], k>>
             /\ BytesAreSent'
<1> DEFINE L == Len(msgs)
           f == field[t]
           new == Bytes(L, f, n)
<1>1. n \in Nat /\ L \in Nat /\ L \in 1 .. L /\ f \in Nat /\ msg[t] = L
  BY SenderIs DEF Sends, TypeOK
<1>2. out' = [out EXCEPT ![L] = @ + n] /\ stream' = stream \o new
  BY <1>1 DEF Sends, Takes
<1>3. out' \in Seq(Nat) /\ Len(out') = L /\ out'[L] = out[L] + n
  <2>1. out \in Seq(Nat) /\ Len(out) = L /\ out[L] \in Nat
    BY <1>1 DEF TypeOK
  <2>2. out[L] + n \in Nat
    BY <1>1, <2>1
  <2>3. out' = [out EXCEPT ![L] = out[L] + n]
    BY <1>2
  <2> QED BY <1>1, <2>1, <2>2, <2>3, ExceptSeq
<1>4. \A i \in 1 .. L : i # L => out'[i] = out[i]
  BY <1>1, <1>2 DEF TypeOK
<1>5. new \in Seq(Byte) /\ Len(new) = n /\ \A k \in 1 .. n : new[k] = <<L, f, k>>
  BY <1>1 DEF Bytes, Byte
<1>6. stream \in Seq(Byte) /\ Len(stream) \in Nat
  BY DEF TypeOK
<1> HIDE DEF new
<1>7. /\ stream' \in Seq(Byte) /\ Len(stream') = Len(stream) + n
      /\ \A p \in 1 .. Len(stream) : stream'[p] = stream[p]
      /\ \A k \in 1 .. Len(new) : stream'[Len(stream) + k] = new[k]
  <2>1. new \in Seq(Byte)
    BY <1>5
  <2>2. /\ stream' \in Seq(Byte) /\ Len(stream') = Len(stream) + Len(new)
        /\ \A p \in 1 .. Len(stream) : stream'[p] = stream[p]
        /\ \A k \in 1 .. Len(new) : stream'[Len(stream) + k] = new[k]
    BY <1>2, <1>6, <2>1, Joined
  <2> QED BY <1>5, <2>2
<1>8. \A k \in 1 .. n : stream'[Len(stream) + k] = <<L, f, k>>
  BY <1>5, <1>7
<1>9. BytesAreSent'
  <2>1. \A p \in 1 .. Len(part) : part[p][1] \in 1 .. L
    BY DEF BytesAreSent
  <2>2. \A p \in 1 .. Len(stream) : stream[p][1] \in 1 .. L
    BY DEF BytesAreSent
  <2>3. ASSUME NEW p \in 1 .. Len(stream') PROVE stream'[p][1] \in 1 .. L
    <3>1. CASE p <= Len(stream)
      BY <1>6, <1>7, <2>2, <3>1
    <3>2. CASE p > Len(stream)
      <4>1. p - Len(stream) \in 1 .. n /\ p = Len(stream) + (p - Len(stream))
        BY <1>1, <1>6, <1>7, <3>2
      <4>2. stream'[p] = <<L, f, p - Len(stream)>>
        BY <1>8, <4>1
      <4> QED BY <1>1, <4>2
    <3> QED BY <1>6, <3>1, <3>2
  <2>4. msgs' = msgs /\ part' = part
    BY DEF Sends, recv_vars
  <2> QED BY <2>1, <2>3, <2>4 DEF BytesAreSent
<1> QED BY <1>3, <1>4, <1>7, <1>8, <1>9

\* The message goes on: its bytes are not more than those of the fields passed.
LEMMA GoesOnExact ==
  ASSUME SendInv, NEW t \in Threads, NEW n, GoesOn(t, n)
  PROVE  SendInv' /\ \A i \in 1 .. Len(msgs) : Exact(i)' => Exact(i)
<1> DEFINE L == Len(msgs)
           m == msgs[L]
           f == field[t]
           last == Len(Fields(m))
<1> USE DEF SendInv
<1>1. /\ lock = t /\ t # NoThread /\ msg[t] = L /\ L \in 1 .. L /\ L \in Nat
      /\ m \in Messages
      /\ f \in 1 .. last /\ f - 1 \in 0 .. last - 1 /\ SentUpTo(m, f - 1)
      /\ Width(m, f) >= 0 => SentUpTo(m, f)
      /\ SizeTo(m, f - 1) \in Nat
      /\ out[L] \in Nat /\ out[L] <= SizeTo(m, f - 1)
      /\ Width(m, f) \in Int
  BY SenderIs DEF GoesOn, Sends, TypeOK
<1>2. /\ out' \in Seq(Nat) /\ Len(out') = L
      /\ out'[L] = out[L] + n
      /\ \A i \in 1 .. L : i # L => out'[i] = out[i]
      /\ stream' \in Seq(Byte)
      /\ BytesAreSent'
  BY SentIs DEF GoesOn
<1>3. /\ n \in Nat /\ (n = 0 \/ n <= Width(m, f))
      /\ UNCHANGED <<msgs, header, rfield, part, got, received, state>>
  BY DEF GoesOn, Sends, recv_vars
<1>4. SentUpTo(m, f) /\ Width(m, f) \in Nat /\ SizeTo(m, f) = SizeTo(m, f - 1) + Width(m, f)
  <2>1. Width(m, f) >= 0
    BY <1>1, <1>3 DEF GoesOn
  <2> QED BY <1>1, <2>1, SizeGrowsBy
<1>5. out[L] + n <= SizeTo(m, f) /\ (out[L] + n = SizeTo(m, f) => out[L] = SizeTo(m, f - 1))
  BY <1>1, <1>3, <1>4 DEF GoesOn
<1>6. last \in Nat /\ f \in Nat
  BY <1>1, WidthsAre
<1>7. CASE f < last
  <2>1. field' = [field EXCEPT ![t] = @ + 1] /\ UNCHANGED <<lock, msg, success>>
    BY <1>1, <1>7 DEF GoesOn, NextField
  <2>2. field' \in [Threads -> Nat] /\ field'[t] = f + 1
    BY <1>6, <2>1 DEF TypeOK
  <2>3. f + 1 \in 1 .. last /\ (f + 1) - 1 = f
    BY <1>6, <1>7
  <2>4. TypeOK'
    BY <1>2, <1>3, <2>1, <2>2 DEF TypeOK
  <2>5. LockHeld'
    <3>1. NameIsSent(m) \/ f + 1 <= OidSize + 1
      BY <1>4, <1>6 DEF SentUpTo, OidSize
    <3> QED BY <1>1, <1>2, <1>3, <1>5, <2>1, <2>2, <2>3, <3>1 DEF LockHeld
  <2>6. SuccessIsKnown'
    <3>1. ASSUME NEW i \in success PROVE NameIsSent(msgs[i]) /\ out'[i] <= Size(msgs[i])
      <4>1. i \in 1 .. L /\ NameIsSent(msgs[i]) /\ out[i] <= Size(msgs[i])
        BY DEF TypeOK, SuccessIsKnown
      <4>2. CASE i = L
        <5>1. SizeTo(m, f) <= Size(m) /\ Size(m) \in Nat /\ SizeTo(m, f) \in Nat
          BY <1>1, <1>6, <4>1, <4>2, SizeIsMost
        <5> QED BY <1>1, <1>2, <1>3, <1>5, <4>1, <4>2, <5>1
      <4> QED BY <1>2, <4>1, <4>2
    <3> QED BY <1>1, <1>3, <2>1, <3>1 DEF SuccessIsKnown
  <2>7. FailedIsCut'
    <3> SUFFICES ASSUME NEW i \in 1 .. L, i \notin success, Whole(i)' PROVE msgs[i].data = 0
      BY <1>3, <2>1 DEF FailedIsCut
    <3>1. NameIsSent(msgs[i]) /\ out'[i] = Size(msgs[i])
      BY <1>3 DEF Whole
    <3>2. CASE i = L
      <4>1. f \in 0 .. last - 1 /\ SizeTo(m, f) >= Size(m)
        <5>1. SizeTo(m, f) \in Nat
          BY <1>1, <1>4
        <5> QED BY <1>1, <1>2, <1>5, <1>6, <1>7, <3>1, <3>2
      <4> QED BY <1>1, <3>1, <3>2, <4>1, OnlyDataIsEmpty
    <3>3. CASE i # L
      BY <1>2, <3>1, <3>3 DEF FailedIsCut, Whole
    <3> QED BY <3>2, <3>3
  <2>8. ASSUME NEW i \in 1 .. L, Exact(i)' PROVE Exact(i)
    <3>1. CASE i = L
      <4>1. out'[L] = SizeTo(m, f)
        BY <1>1, <1>3, <2>1, <2>2, <2>3, <2>8, <3>1 DEF Exact, InProgress
      <4> QED BY <1>1, <1>2, <1>5, <3>1, <4>1 DEF Exact, InProgress
    <3>2. CASE i # L
      BY <1>2, <1>3, <2>8, <3>2 DEF Exact, InProgress, Whole
    <3> QED BY <3>1, <3>2
  <2> QED BY <1>2, <2>4, <2>5, <2>6, <2>7, <2>8
<1>8. CASE ~(f < last)
  <2>1. f = last
    BY <1>1, <1>6, <1>8
  <2>2. Unlocks(t) /\ success' = success \cup {L}
    BY <1>1, <1>8 DEF GoesOn, NextField
  <2>3. /\ lock' = NoThread
        /\ msg' = [msg EXCEPT ![t] = 0]
        /\ field' = [field EXCEPT ![t] = 0]
    BY <2>2 DEF Unlocks
  <2>4. TypeOK'
    BY <1>1, <1>2, <1>3, <2>2, <2>3 DEF TypeOK
  <2>5. LockHeld'
    BY <1>1, <2>3, NoThreadAssumption DEF LockHeld, TypeOK
  <2>6. NameIsSent(m) /\ SizeTo(m, f) = Size(m)
    BY <1>1, <1>4, <2>1, LastIsSent DEF Size
  <2>7. SuccessIsKnown'
    <3>1. success' = success \cup {L} /\ msgs' = msgs /\ lock' = NoThread /\ state' = state
      BY <1>3, <2>2, <2>3
    <3>2. ASSUME NEW i \in success' PROVE NameIsSent(msgs[i]) /\ out'[i] <= Size(msgs[i])
      <4>1. CASE i = L
        BY <1>2, <1>5, <2>6, <4>1
      <4>2. CASE i # L
        BY <1>2, <2>2, <4>2 DEF SuccessIsKnown, TypeOK
      <4> QED BY <4>1, <4>2
    <3>3. ASSUME NEW i \in 1 .. L, i \notin success' PROVE FALSE
      BY <2>2, <3>3 DEF SuccessIsKnown
    <3> QED BY <3>1, <3>2, <3>3 DEF SuccessIsKnown
  <2>8. FailedIsCut'
    BY <1>1, <1>2, <1>3, <2>2 DEF FailedIsCut, Whole
  <2>9. ASSUME NEW i \in 1 .. L, Exact(i)' PROVE Exact(i)
    <3>1. Whole(i)'
      BY <2>3, <2>9 DEF Exact, InProgress
    <3>2. out'[i] = Size(msgs[i]) /\ NameIsSent(msgs[i])
      BY <1>3, <3>1 DEF Whole
    <3>3. CASE i = L
      BY <1>1, <1>2, <1>5, <2>6, <3>2, <3>3 DEF Exact, InProgress
    <3>4. CASE i # L
      BY <1>2, <3>2, <3>4 DEF Exact, InProgress, Whole
    <3> QED BY <3>3, <3>4
  <2> QED BY <1>2, <2>4, <2>5, <2>7, <2>8, <2>9
<1> QED BY <1>7, <1>8

\* The message fails: bytes are missing, or nothing but its empty data.
LEMMA FailsExact ==
  ASSUME SendInv, NEW t \in Threads, NEW n, Fails(t, n)
  PROVE  SendInv' /\ \A i \in 1 .. Len(msgs) : Exact(i)' => Exact(i)
<1> DEFINE L == Len(msgs)
           m == msgs[L]
           f == field[t]
           last == Len(Fields(m))
<1> USE DEF SendInv
<1>1. /\ lock = t /\ t # NoThread /\ msg[t] = L /\ L \in 1 .. L /\ L \in Nat
      /\ m \in Messages
      /\ f \in 1 .. last /\ f - 1 \in 0 .. last - 1
      /\ Width(m, f) >= 0 => SentUpTo(m, f)
      /\ SizeTo(m, f - 1) \in Nat
      /\ out[L] \in Nat /\ out[L] <= SizeTo(m, f - 1)
      /\ Width(m, f) \in Int
  BY SenderIs DEF Fails, Sends, TypeOK
<1>2. /\ out' \in Seq(Nat) /\ Len(out') = L
      /\ out'[L] = out[L] + n
      /\ \A i \in 1 .. L : i # L => out'[i] = out[i]
      /\ stream' \in Seq(Byte)
      /\ BytesAreSent'
  BY SentIs DEF Fails
<1>3. /\ n \in Nat /\ (n = 0 \/ n < Width(m, f))
      /\ UNCHANGED <<msgs, header, rfield, part, got, received, success>>
      /\ state' = "CLOSED"
      /\ lock' = NoThread
      /\ msg' = [msg EXCEPT ![t] = 0]
      /\ field' = [field EXCEPT ![t] = 0]
  BY DEF Fails, Sends, Unlocks, recv_vars
<1>4. last \in Nat /\ f \in Nat
  BY <1>1, WidthsAre
<1>5. ASSUME NameIsSent(m), out'[L] = Size(m)
      PROVE  out[L] = SizeTo(m, f - 1) /\ SizeTo(m, f - 1) >= Size(m)
  <2>1. NameIsSent(m) /\ out[L] + n = Size(m)
    BY <1>2, <1>5
  <2>2. f - 1 \in 0 .. last /\ f \in 0 .. last
    BY <1>1, <1>4
  <2>3. SizeTo(m, f) \in Nat /\ Size(m) \in Nat /\ SizeTo(m, f) <= Size(m) /\ SizeTo(m, f - 1) <= Size(m)
    BY <1>1, <2>1, <2>2, SizeIsMost
  <2>4. SizeTo(m, f) = SizeTo(m, f - 1) + Width(m, f)
    BY <1>1, <2>1, SizeGrowsBy DEF SentUpTo
  <2>5. PICK o \in Nat, z \in Nat, w \in Int, e \in Nat :
          o = out[L] /\ z = SizeTo(m, f - 1) /\ w = Width(m, f) /\ e = Size(m)
    BY <1>1, <2>3
  <2>6. o <= z /\ o + n = e /\ z + w <= e /\ z <= e /\ (n = 0 \/ n < w)
    BY <1>1, <1>3, <2>1, <2>3, <2>4, <2>5
  <2>7. \A x, y, u, v \in Nat, i \in Int :
          (x <= y /\ x + u = v /\ y + i <= v /\ y <= v /\ (u = 0 \/ u < i)) => x = y /\ y >= v
    OBVIOUS
  <2>8. o = z /\ z >= e
    BY <1>3, <2>5, <2>6, <2>7
  <2> QED BY <2>5, <2>8
<1>6. TypeOK'
  BY <1>1, <1>2, <1>3 DEF TypeOK
<1>7. LockHeld'
  BY <1>1, <1>3, NoThreadAssumption DEF LockHeld, TypeOK
<1>8. SuccessIsKnown'
  <2>1. ASSUME NEW i \in success PROVE NameIsSent(msgs[i]) /\ out'[i] <= Size(msgs[i])
    <3>1. i \in 1 .. L /\ NameIsSent(msgs[i]) /\ out[i] <= Size(msgs[i])
      BY DEF TypeOK, SuccessIsKnown
    <3>2. CASE i = L
      <4>1. f - 1 \in 0 .. last /\ f \in 0 .. last
        BY <1>1, <1>4
      <4>2. SizeTo(m, f) \in Nat /\ Size(m) \in Nat /\ SizeTo(m, f) <= Size(m) /\ SizeTo(m, f - 1) <= Size(m)
        BY <1>1, <3>1, <3>2, <4>1, SizeIsMost
      <4>3. SizeTo(m, f) = SizeTo(m, f - 1) + Width(m, f)
        BY <1>1, <3>1, <3>2, SizeGrowsBy DEF SentUpTo
      <4>4. PICK o \in Nat, s \in Nat, w \in Int, z \in Nat :
              /\ o = out[L] /\ s = SizeTo(m, f - 1) /\ w = Width(m, f) /\ z = Size(m)
              /\ SizeTo(m, f) = s + w
        BY <1>1, <4>2, <4>3
      <4>5. o <= s /\ s + w <= z /\ s <= z
        BY <1>1, <4>2, <4>4
      <4>6. o + n <= z
        BY <1>3, <4>4, <4>5
      <4> QED BY <1>2, <3>1, <3>2, <4>4, <4>6
    <3> QED BY <1>2, <3>1, <3>2
  <2> QED BY <1>1, <1>3, <2>1 DEF SuccessIsKnown
<1>9. FailedIsCut'
  <2> SUFFICES ASSUME NEW i \in 1 .. L, i \notin success, Whole(i)' PROVE msgs[i].data = 0
    BY <1>3 DEF FailedIsCut
  <2>1. CASE i = L
    <3>1. NameIsSent(m) /\ out'[L] = Size(m)
      BY <1>3, <2>1 DEF Whole
    <3> QED BY <1>1, <1>5, <2>1, <3>1, OnlyDataIsEmpty
  <2>2. CASE i # L
    BY <1>2, <1>3, <2>2 DEF FailedIsCut, Whole
  <2> QED BY <2>1, <2>2
<1>10. ASSUME NEW i \in 1 .. L, Exact(i)' PROVE Exact(i)
  <2>1. Whole(i)'
    BY <1>3, <1>10 DEF Exact, InProgress
  <2>2. CASE i = L
    <3>1. NameIsSent(m) /\ out'[L] = Size(m)
      BY <1>3, <2>1, <2>2 DEF Whole
    <3> QED BY <1>1, <1>5, <2>2, <3>1 DEF Exact, InProgress
  <2>3. CASE i # L
    BY <1>2, <1>3, <2>1, <2>3 DEF Exact, InProgress, Whole
  <2> QED BY <2>2, <2>3
<1> QED BY <1>2, <1>6, <1>7, <1>8, <1>9, <1>10

\* A message that was begun has sent nothing, which is exact.
LEMMA BeginExact ==
  ASSUME SendInv, NEW t \in Threads, NEW m \in Messages, BeginMessage(t, m)
  PROVE  LET L == Len(msgs)
         IN  /\ SendInv'
             /\ L \in Nat /\ Len(msgs') = L + 1
             /\ \A i \in 1 .. L : msgs'[i] = msgs[i] /\ out'[i] = out[i] /\ Exact(i)' = Exact(i)
             /\ msgs'[L + 1] = m /\ out'[L + 1] = 0
             /\ UNCHANGED <<stream, recv_vars>>
<1> DEFINE L == Len(msgs)
<1> USE DEF SendInv
<1>1. /\ msg[t] = 0 /\ lock = NoThread /\ state = "OPEN"
      /\ msgs' = Append(msgs, m) /\ out' = Append(out, 0)
      /\ msg' = [msg EXCEPT ![t] = Len(msgs) + 1]
      /\ field' = [field EXCEPT ![t] = 1]
      /\ lock' = t
      /\ UNCHANGED <<state, success, stream, reader, header, rfield, part, got, received>>
  BY DEF BeginMessage, recv_vars
<1>2. L \in Nat /\ msgs' \in Seq(Messages) /\ Len(msgs') = L + 1
  BY <1>1 DEF TypeOK
<1>3. (\A i \in 1 .. L : msgs'[i] = msgs[i]) /\ msgs'[L + 1] = m
  BY <1>1 DEF TypeOK
<1>4. out' \in Seq(Nat) /\ Len(out') = L + 1 /\ (\A i \in 1 .. L : out'[i] = out[i]) /\ out'[L + 1] = 0
  BY <1>1 DEF TypeOK
<1>5. t # NoThread
  BY NoThreadAssumption
<1>6. Len(Fields(m)) \in {5, 9} /\ SizeTo(m, 0) = 0
  BY WidthsAre, SizeToIs
<1>7. \A i \in 1 .. L : i \in success
  BY <1>1 DEF SuccessIsKnown
<1>8. TypeOK'
  <2>1. success \subseteq 1 .. L + 1
    BY <1>2 DEF TypeOK
  <2> QED BY <1>1, <1>2, <1>4, <2>1 DEF TypeOK
<1>9. LockHeld'
  <2>1. msg'[t] = L + 1 /\ field'[t] = 1 /\ L + 1 # 0
    BY <1>1, <1>2 DEF TypeOK
  <2>2. \A u \in Threads : msg'[u] # 0 <=> lock' = u
    BY <1>1, <1>5, <2>1, NoThreadAssumption DEF LockHeld, TypeOK
  <2>3. 1 \in 1 .. Len(Fields(m)) /\ 1 - 1 = 0 /\ 1 <= OidSize + 1
    <3>1. \A last \in {5, 9} : 1 \in 1 .. last
      OBVIOUS
    <3>2. 1 \in 1 .. Len(Fields(m))
      BY <1>6, <3>1, Zenon
    <3>3. 1 - 1 = 0 /\ 1 <= OidSize + 1
      BY DEF OidSize
    <3> QED BY <3>2, <3>3
  <2>4. lock' = t /\ Len(msgs') = L + 1 /\ msgs'[L + 1] = m
    BY <1>1, <1>2, <1>3
  <2>5. out'[L + 1] <= SizeTo(m, 1 - 1)
    BY <1>4, <1>6
  <2> QED BY <2>1, <2>2, <2>3, <2>4, <2>5 DEF LockHeld
<1>10. SuccessIsKnown'
  <2>1. \A i \in success : NameIsSent(msgs'[i]) /\ out'[i] <= Size(msgs'[i])
    BY <1>3, <1>4 DEF SuccessIsKnown, TypeOK
  <2>2. \A i \in 1 .. L + 1 : i \notin success => i = L + 1
    BY <1>2, <1>7
  <2> QED BY <1>1, <1>2, <1>5, <2>1, <2>2 DEF SuccessIsKnown
<1>11. FailedIsCut'
  <2> SUFFICES ASSUME NEW i \in 1 .. L + 1, i \notin success, Whole(i)' PROVE msgs'[i].data = 0
    BY <1>1, <1>2 DEF FailedIsCut
  <2>1. i = L + 1
    BY <1>2, <1>7
  <2>2. NameIsSent(m) /\ 0 = Size(m)
    BY <1>3, <1>4, <2>1 DEF Whole
  <2>3. 0 \in 0 .. Len(Fields(m)) - 1
    <3> DEFINE last == Len(Fields(m))
    <3>1. last \in {5, 9}
      BY <1>6
    <3> HIDE DEF last
    <3>2. 0 \in 0 .. last - 1
      BY <3>1
    <3> QED BY <3>2 DEF last
  <2> QED BY <1>3, <1>6, <2>1, <2>2, <2>3, OnlyDataIsEmpty
<1>12. BytesAreSent'
  BY <1>1, <1>2 DEF BytesAreSent
<1>13. ASSUME NEW i \in 1 .. L PROVE Exact(i)' = Exact(i)
  <2>1. Whole(i)' = Whole(i)
    BY <1>3, <1>4 DEF Whole
  <2>2. Exact(i) = Whole(i)
    BY <1>1 DEF Exact, InProgress
  <2>3. Exact(i)' = Whole(i)'
    BY <1>2 DEF Exact, InProgress
  <2> QED BY <2>1, <2>2, <2>3
<1> QED BY <1>1, <1>2, <1>3, <1>4, <1>8, <1>9, <1>10, <1>11, <1>12, <1>13 DEF recv_vars

----------------------------------------------------------------------------
\* The bytes on their way.

\* A message all of which is sent has nothing more to send.
LEMMA WholeStays ==
  ASSUME SendInv, NEW t \in Threads, NEW n, Sends(t, n), NEW i \in 1 .. Len(msgs), Whole(i)
  PROVE  out'[i] = out[i] /\ Whole(i)' /\ (i = Len(msgs) => n = 0)
<1> DEFINE L == Len(msgs)
           m == msgs[L]
           f == field[t]
           last == Len(Fields(m))
<1> USE DEF SendInv
<1>1. /\ L \in 1 .. L
      /\ m \in Messages
      /\ f \in 1 .. last /\ f - 1 \in 0 .. last - 1
      /\ SizeTo(m, f - 1) \in Nat
      /\ out[L] \in Nat /\ out[L] <= SizeTo(m, f - 1)
  BY SenderIs DEF Sends
<1>2. /\ out'[L] = out[L] + n
      /\ \A j \in 1 .. L : j # L => out'[j] = out[j]
  BY SentIs
<1>3. n \in Nat /\ (n = 0 \/ n <= Width(m, f)) /\ msgs' = msgs
  BY DEF Sends
<1>4. ASSUME i = L PROVE n = 0
  <2>1. NameIsSent(m) /\ out[L] = Size(m)
    BY <1>4 DEF Whole
  <2>2. last \in Nat /\ f \in 0 .. last
    BY <1>1, WidthsAre
  <2>3. SizeTo(m, f) \in Nat /\ Size(m) \in Nat /\ SizeTo(m, f) <= Size(m)
    BY <1>1, <2>1, <2>2, SizeIsMost
  <2>4. Width(m, f) \in Nat /\ SizeTo(m, f) = SizeTo(m, f - 1) + Width(m, f)
    BY <1>1, <2>1, SizeGrowsBy DEF SentUpTo
  <2> QED BY <1>1, <1>3, <2>1, <2>3, <2>4
<1>5. out'[i] = out[i]
  BY <1>1, <1>2, <1>4
<1> QED BY <1>3, <1>4, <1>5 DEF Whole

\* A send puts its bytes behind the others, at their place.
LEMMA SendsInPlace ==
  ASSUME WInv, NEW t \in Threads, NEW n, Sends(t, n),
         \A i \in 1 .. Len(msgs) : Exact(i)' => Exact(i)
  PROVE  InPlace' /\ ReadAsSent'
<1> DEFINE L == Len(msgs)
           m == msgs[L]
           f == field[t]
<1> USE DEF SendInv, WInv
<1>1. /\ lock = t /\ t # NoThread /\ L \in 1 .. L /\ L \in Nat
      /\ m \in Messages
      /\ f \in 1 .. Len(Fields(m))
      /\ SentUpTo(m, f - 1) /\ (Width(m, f) >= 0 => SentUpTo(m, f))
      /\ SizeTo(m, f - 1) \in Nat
      /\ out[L] \in Nat /\ Width(m, f) \in Int
  BY SenderIs DEF Sends, TypeOK
<1>2. /\ out'[L] = out[L] + n
      /\ \A i \in 1 .. L : i # L => out'[i] = out[i]
      /\ Len(stream') = Len(stream) + n
      /\ \A p \in 1 .. Len(stream) : stream'[p] = stream[p]
      /\ \A k \in 1 .. n : stream'[Len(stream) + k] = <<L, f, k>>
  BY SentIs
<1>3. /\ n \in Nat /\ (n = 0 \/ n <= Width(m, f))
      /\ UNCHANGED <<msgs, header, rfield, part, got, received>>
  BY DEF Sends, recv_vars
<1>4. Len(stream) \in Nat
  BY DEF TypeOK
<1>5. PICK base : IsBase(base) /\ StreamInPlace(base) /\ ReaderInPlace(base)
  BY DEF InPlace
<1>6. /\ base \in [1 .. L + 1 -> Nat] /\ base[1] = 0
      /\ \A i \in 1 .. L : base[i + 1] = base[i] + out[i]
      /\ \A i, j \in 1 .. L + 1 : i <= j => base[i] <= base[j]
  BY <1>5 DEF IsBase
<1>7. \A i \in 1 .. L : i \in 1 .. L + 1 /\ i + 1 \in 1 .. L + 1 /\ i # L + 1 /\ (i + 1 = L + 1 <=> i = L)
  BY <1>1
<1>e. PICK new : new = [base EXCEPT ![L + 1] = @ + n]
  OBVIOUS
<1>8. L + 1 \in 1 .. L + 1 /\ base[L + 1] \in Nat
  BY <1>1, <1>6
<1>9. /\ new \in [1 .. L + 1 -> Nat]
      /\ new[L + 1] = base[L + 1] + n
      /\ \A i \in 1 .. L + 1 : i # L + 1 => new[i] = base[i]
  BY <1>e, <1>3, <1>6, <1>8
<1>10. ASSUME NEW i \in 1 .. L + 1
       PROVE  new[i] \in Nat /\ base[i] \in Nat /\ base[i] <= new[i]
  <2>1. new[i] \in Nat /\ base[i] \in Nat
    BY <1>6, <1>9
  <2>2. CASE i = L + 1
    <3>1. PICK c \in Nat : c = base[L + 1]
      BY <1>8
    <3>2. base[i] = c /\ new[i] = c + n
      BY <1>9, <2>2, <3>1
    <3> QED BY <1>3, <2>1, <3>2
  <2>3. CASE i # L + 1
    BY <1>9, <2>1, <2>3
  <2> QED BY <2>2, <2>3
<1>11. IsBase(new)'
  <2>1. new[1] = 0
    <3>1. 1 \in 1 .. L + 1 /\ 1 # L + 1
      BY <1>1
    <3> QED BY <1>6, <1>9, <3>1
  <2>2. ASSUME NEW i \in 1 .. L PROVE new[i + 1] = new[i] + out'[i]
    <3>1. CASE i = L
      <4>1. new[L + 1] = base[L + 1] + n /\ base[L + 1] = base[L] + out[L] /\ new[L] = base[L]
        BY <1>1, <1>6, <1>9, <3>1
      <4>2. out'[L] = out[L] + n
        BY <1>2, <1>3, <1>7
      <4>3. \A x, y, z \in Nat : (x + y) + z = x + (y + z)
        OBVIOUS
      <4>4. base[L] \in Nat /\ out[L] \in Nat /\ n \in Nat
        BY <1>1, <1>3, <1>6, <1>7
      <4>5. (base[L] + out[L]) + n = base[L] + (out[L] + n)
        BY <4>3, <4>4
      <4>6. new[L + 1] = new[L] + out'[L]
        BY <4>1, <4>2, <4>5
      <4> QED BY <3>1, <4>6
    <3>2. CASE i # L
      BY <1>2, <1>6, <1>7, <1>9, <3>2
    <3> QED BY <3>1, <3>2
  <2>3. ASSUME NEW i \in 1 .. L + 1, NEW j \in 1 .. L + 1, i <= j PROVE new[i] <= new[j]
    <3>1. base[i] <= base[j]
      BY <1>6, <2>3
    <3>2. CASE i = L + 1
      <4>1. j = L + 1
        BY <1>1, <2>3, <3>2
      <4> QED BY <1>10, <3>2, <4>1
    <3>3. CASE i # L + 1
      BY <1>9, <1>10, <3>1, <3>3
    <3> QED BY <3>2, <3>3
  <2> QED BY <1>3, <1>9, <2>1, <2>2, <2>3 DEF IsBase
<1>12. Taken(new)' = Taken(base) /\ Taken(base) \in Int
  BY <1>2, <1>3, <1>4, <1>8, <1>9 DEF Taken
<1>13. StreamInPlace(new)'
  <2> SUFFICES ASSUME NEW p \in 1 .. Len(stream')
               PROVE  \E i, g, k \in Nat : ByteInPlace(new, p, i, g, k)'
    BY DEF StreamInPlace
  <2>1. CASE p <= Len(stream)
    <3>1. p \in 1 .. Len(stream)
      BY <1>4, <2>1
    <3>2. PICK i, g, k \in Nat : ByteInPlace(base, p, i, g, k)
      BY <1>5, <3>1 DEF StreamInPlace
    <3>3. /\ new[i] = base[i] /\ base[i + 1] <= new[i + 1]
          /\ base[i + 1] \in Nat /\ new[i + 1] \in Nat
      BY <1>7, <1>9, <1>10, <3>2 DEF ByteInPlace
    <3>4. stream'[p] = stream[p]
      BY <1>2, <3>1
    <3>5. Taken(base) + p <= new[i + 1]
      <4>1. Taken(base) + p <= base[i + 1]
        BY <3>2 DEF ByteInPlace
      <4>2. Taken(base) \in Int /\ p \in Nat
        BY <1>12, <3>1
      <4>3. \A x \in Int, y, z, w \in Nat : x + y <= z /\ z <= w => x + y <= w
        OBVIOUS
      <4> QED BY <3>3, <4>1, <4>2, <4>3
    <3>6. Exact(i)' => Exact(i)
      BY <3>2 DEF ByteInPlace
    <3>7. ByteInPlace(new, p, i, g, k)'
      BY <1>3, <1>12, <3>2, <3>3, <3>4, <3>5, <3>6 DEF ByteInPlace
    <3> QED BY <3>7
  <2>2. CASE p > Len(stream)
    <3>1. PICK i, g, k \in Nat : i = L /\ g = f /\ k = p - Len(stream)
      <4>1. L \in Nat /\ f \in Nat /\ p - Len(stream) \in Nat
        BY <1>1, <1>4, <2>2, WidthsAre
      <4> QED BY <4>1
    <3>2. k \in 1 .. n /\ p = Len(stream) + k
      BY <1>2, <1>3, <1>4, <2>2, <3>1
    <3>3. n <= Width(m, f) /\ k \in 1 .. Width(m, f)
      BY <1>1, <1>3, <3>2
    <3>4. stream'[p] = <<i, g, k>>
      BY <1>2, <3>1, <3>2
    <3>5. NameIsSent(m) \/ f <= OidSize
      BY <1>1, <1>3, <3>3 DEF SentUpTo
    <3>6. /\ Taken(base) + p = base[L] + out[L] + k
          /\ new[L] = base[L] /\ new[L + 1] = base[L] + out[L] + n
          /\ base[L] \in Nat
      <4>1. base[L + 1] = base[L] + out[L] /\ base[L] \in Nat /\ new[L] = base[L]
        BY <1>1, <1>6, <1>7, <1>9, <1>10
      <4>2. Taken(base) = base[L + 1] - Len(stream)
        BY DEF Taken
      <4> QED BY <1>1, <1>4, <1>8, <1>9, <3>2, <4>1, <4>2
    <3>7. new[i] < Taken(base) + p /\ Taken(base) + p <= new[i + 1]
      <4>1. new[i] = new[L] /\ new[i + 1] = new[L + 1]
        BY <3>1
      <4>2. 1 <= k /\ k <= n /\ k \in Nat
        BY <1>3, <3>2
      <4>3. \A a, b, c \in Nat : a < a + b + k /\ (c = n => a + b + k <= a + b + c)
        BY <4>2
      <4>4. base[L] \in Nat /\ out[L] \in Nat /\ n \in Nat
        BY <1>1, <1>3, <3>6
      <4>5. /\ base[L] < base[L] + out[L] + k
            /\ base[L] + out[L] + k <= base[L] + out[L] + n
        BY <4>3, <4>4
      <4> QED BY <3>6, <4>1, <4>5
    <3>8. ASSUME Exact(i)' PROVE Taken(base) + p = new[i] + SizeTo(msgs[i], g - 1) + k
      <4>1. Exact(i)
        BY <1>1, <3>1, <3>8
      <4>2. out[L] = SizeTo(m, f - 1)
        BY <1>1, <3>1, <4>1 DEF Exact, InProgress
      <4> QED BY <3>1, <3>6, <4>2
    <3>9. i \in 1 .. L /\ g \in 1 .. Len(Fields(msgs[i])) /\ k \in 1 .. Width(msgs[i], g)
      BY <1>1, <3>1, <3>3
    <3>10. ByteInPlace(new, p, i, g, k)'
      BY <1>3, <1>12, <3>1, <3>4, <3>5, <3>7, <3>8, <3>9 DEF ByteInPlace
    <3> QED BY <3>10
  <2> QED BY <1>4, <2>1, <2>2
<1>14. ASSUME NEW k \in Int, \A i \in 1 .. k : i <= L => Exact(i)'
       PROVE  ExactTo(k)
  BY <1>1, <1>14 DEF ExactTo
<1>15. ReadAsSent'
  <2> SUFFICES ASSUME NEW i \in 1 .. Len(received), \A j \in 1 .. i : j <= L => Exact(j)'
               PROVE  /\ i <= L /\ Whole(i)'
                      /\ IsImage(received[i].bytes, i)'
                      /\ NameFits(msgs[i]) => received[i].message = msgs[i]
    BY <1>3 DEF ReadAsSent, ExactTo
  <2>1. /\ i <= L /\ Whole(i)
        /\ IsImage(received[i].bytes, i)
        /\ NameFits(msgs[i]) => received[i].message = msgs[i]
    BY <1>14 DEF ReadAsSent
  <2>2. Whole(i)'
    BY <1>1, <2>1, WholeStays
  <2>3. IsImage(received[i].bytes, i)'
    BY <1>3, <2>1 DEF IsImage
  <2> QED BY <2>1, <2>2, <2>3
<1>16. ReaderInPlace(new)'
  <2> DEFINE k == Len(received) + 1
  <2>1. k \in Nat /\ Len(received) \in Nat /\ k \in Int
    BY DEF TypeOK
  <2> SUFFICES ASSUME \A i \in 1 .. k : i <= L => Exact(i)'
               PROVE  /\ k <= L + 1
                      /\ Taken(base) = new[k] + Len(got) + Len(part)
                      /\ rfield = 1 => header = Unread
                      /\ IF k <= L THEN ReadsMessage(k) ELSE rfield = 1 /\ got = << >> /\ part = << >>
    BY <1>3, <1>12 DEF ReaderInPlace, ExactTo, ReadsMessage
  <2>2. /\ k <= L + 1
        /\ Taken(base) = base[k] + Len(got) + Len(part)
        /\ rfield = 1 => header = Unread
        /\ IF k <= L THEN ReadsMessage(k) ELSE rfield = 1 /\ got = << >> /\ part = << >>
    BY <1>5, <1>14, <2>1 DEF ReaderInPlace
  <2>3. new[k] = base[k]
    <3>1. CASE k = L + 1
      <4>1. L \in 1 .. Len(received) /\ ExactTo(L)
        <5>1. L \in 1 .. Len(received) /\ ExactTo(k)
          BY <1>1, <1>14, <2>1, <3>1
        <5> QED BY <1>1, <2>1, <5>1 DEF ExactTo
      <4>2. Whole(L)
        BY <4>1 DEF ReadAsSent
      <4>3. n = 0
        BY <1>1, <4>2, WholeStays
      <4> QED BY <1>8, <1>9, <3>1, <4>3
    <3>2. CASE k # L + 1
      BY <1>1, <1>9, <2>1, <2>2, <3>2
    <3> QED BY <3>1, <3>2
  <2> QED BY <2>2, <2>3
<1> QED BY <1>11, <1>13, <1>15, <1>16 DEF InPlace

\* A message that begins changes no place.
LEMMA BeginsInPlace ==
  ASSUME WInv, NEW t \in Threads, NEW m \in Messages, BeginMessage(t, m)
  PROVE  InPlace' /\ ReadAsSent'
<1> DEFINE L == Len(msgs)
<1> USE DEF WInv
<1>1. /\ L \in Nat /\ Len(msgs') = L + 1
      /\ \A i \in 1 .. L : msgs'[i] = msgs[i] /\ out'[i] = out[i] /\ Exact(i)' = Exact(i)
      /\ msgs'[L + 1] = m /\ out'[L + 1] = 0
      /\ UNCHANGED <<stream, reader, header, rfield, part, got, received>>
  BY BeginExact DEF recv_vars
<1>2. PICK base : IsBase(base) /\ StreamInPlace(base) /\ ReaderInPlace(base)
  BY DEF InPlace
<1>3. /\ base \in [1 .. L + 1 -> Nat] /\ base[1] = 0
      /\ \A i \in 1 .. L : base[i + 1] = base[i] + out[i]
      /\ \A i, j \in 1 .. L + 1 : i <= j => base[i] <= base[j]
  BY <1>2 DEF IsBase
<1>4. PICK new : new = [i \in 1 .. L + 2 |-> IF i = L + 2 THEN base[L + 1] ELSE base[i]]
  OBVIOUS
<1>5. /\ new \in [1 .. L + 2 -> Nat]
      /\ new[L + 2] = base[L + 1]
      /\ \A i \in 1 .. L + 1 : new[i] = base[i]
      /\ L + 1 \in 1 .. L + 1
  BY <1>1, <1>3, <1>4
<1>6. IsBase(new)'
  <2>1. ASSUME NEW i \in 1 .. L + 1 PROVE new[i + 1] = new[i] + out'[i]
    <3>1. CASE i = L + 1
      <4>1. i + 1 = L + 2 /\ new[i] = base[L + 1] /\ out'[i] = 0 /\ base[L + 1] \in Nat
        BY <1>1, <1>3, <1>5, <3>1
      <4> QED BY <1>5, <4>1
    <3>2. CASE i # L + 1
      <4>1. i \in 1 .. L /\ i + 1 \in 1 .. L + 1
        BY <1>1, <3>2
      <4> QED BY <1>1, <1>3, <1>5, <4>1
    <3> QED BY <3>1, <3>2
  <2>2. ASSUME NEW i \in 1 .. L + 2, NEW j \in 1 .. L + 2, i <= j PROVE new[i] <= new[j]
    <3>1. CASE j = L + 2
      <4>1. CASE i = L + 2
        BY <1>5, <3>1, <4>1, <1>3
      <4>2. CASE i # L + 2
        <5>1. i \in 1 .. L + 1 /\ i <= L + 1
          BY <1>1, <4>2
        <5> QED BY <1>3, <1>5, <3>1, <5>1
      <4> QED BY <4>1, <4>2
    <3>2. CASE j # L + 2
      <4>1. i \in 1 .. L + 1 /\ j \in 1 .. L + 1
        BY <1>1, <2>2, <3>2
      <4> QED BY <1>3, <1>5, <2>2, <4>1
    <3> QED BY <3>1, <3>2
  <2>3. new[1] = 0
    BY <1>1, <1>3, <1>5
  <2>4. (L + 1) + 1 = L + 2
    BY <1>1
  <2> QED BY <1>1, <1>5, <2>1, <2>2, <2>3, <2>4 DEF IsBase
<1>7. Taken(new)' = Taken(base)
  <2>1. (L + 1) + 1 = L + 2
    BY <1>1
  <2> QED BY <1>1, <1>5, <2>1 DEF Taken
<1>8. StreamInPlace(new)'
  <2> SUFFICES ASSUME NEW p \in 1 .. Len(stream)
               PROVE  \E i, g, k \in Nat : ByteInPlace(new, p, i, g, k)'
    BY <1>1 DEF StreamInPlace
  <2>1. PICK i, g, k \in Nat : ByteInPlace(base, p, i, g, k)
    BY <1>2 DEF StreamInPlace
  <2>2. i \in 1 .. L
    BY <2>1 DEF ByteInPlace
  <2>3. i \in 1 .. L + 1 /\ i + 1 \in 1 .. L + 1
    BY <1>1, <2>2
  <2>4. new[i] = base[i] /\ new[i + 1] = base[i + 1]
    BY <1>5, <2>3
  <2>5. msgs'[i] = msgs[i] /\ Exact(i)' = Exact(i)
    BY <1>1, <2>2
  <2>6. ByteInPlace(new, p, i, g, k)'
    BY <1>1, <1>7, <2>1, <2>3, <2>4, <2>5 DEF ByteInPlace
  <2> QED BY <2>6
<1>9. ASSUME NEW k \in Int, \A i \in 1 .. k : i <= L + 1 => Exact(i)'
      PROVE  ExactTo(k)
  BY <1>1, <1>9 DEF ExactTo
<1>10. ReadAsSent'
  <2> SUFFICES ASSUME NEW i \in 1 .. Len(received), \A j \in 1 .. i : j <= L + 1 => Exact(j)'
               PROVE  /\ i <= L + 1 /\ Whole(i)'
                      /\ IsImage(received[i].bytes, i)'
                      /\ NameFits(msgs'[i]) => received[i].message = msgs'[i]
    BY <1>1 DEF ReadAsSent, ExactTo
  <2>1. /\ i <= L /\ Whole(i)
        /\ IsImage(received[i].bytes, i)
        /\ NameFits(msgs[i]) => received[i].message = msgs[i]
    BY <1>9 DEF ReadAsSent
  <2>2. i \in 1 .. L /\ i <= L + 1
    BY <1>1, <2>1
  <2>3. msgs'[i] = msgs[i] /\ out'[i] = out[i]
    BY <1>1, <2>2
  <2>4. Whole(i)'
    BY <2>1, <2>3 DEF Whole
  <2>5. IsImage(received[i].bytes, i)'
    BY <1>1, <2>1, <2>3 DEF IsImage
  <2> QED BY <2>1, <2>2, <2>3, <2>4, <2>5
<1>11. ReaderInPlace(new)'
  <2> DEFINE k == Len(received) + 1
  <2>1. k \in Nat /\ k \in Int /\ k >= 1
    BY DEF SendInv, TypeOK
  <2> SUFFICES ASSUME \A i \in 1 .. k : i <= L + 1 => Exact(i)'
               PROVE  /\ k <= (L + 1) + 1
                      /\ Taken(base) = new[k] + Len(got) + Len(part)
                      /\ rfield = 1 => header = Unread
                      /\ IF k <= L + 1 THEN ReadsMessage(k)' ELSE rfield = 1 /\ got = << >> /\ part = << >>
    BY <1>1, <1>7 DEF ReaderInPlace, ExactTo, ReadsMessage
  <2>2. /\ k <= L + 1
        /\ Taken(base) = base[k] + Len(got) + Len(part)
        /\ rfield = 1 => header = Unread
        /\ IF k <= L THEN ReadsMessage(k) ELSE rfield = 1 /\ got = << >> /\ part = << >>
    BY <1>2, <1>9, <2>1 DEF ReaderInPlace
  <2>3. new[k] = base[k] /\ k <= (L + 1) + 1
    BY <1>1, <1>5, <2>1, <2>2
  <2>4. ReadsMessage(k)'
    <3>1. CASE k <= L
      <4>1. msgs'[k] = msgs[k]
        BY <1>1, <2>1, <3>1
      <4>2. UNCHANGED <<header, rfield, part, got>>
        BY <1>1
      <4>3. ReadsMessage(k)
        BY <2>2, <3>1
      <4>4. k' = k
        BY <1>1
      <4> HIDE DEF k
      <4> QED BY <4>1, <4>2, <4>3, <4>4 DEF ReadsMessage
    <3>2. CASE ~(k <= L)
      <4>1. k = L + 1 /\ msgs'[k] = m
        BY <1>1, <2>1, <2>2, <3>2
      <4>2. rfield = 1 /\ got = << >> /\ part = << >> /\ header = Unread
        BY <2>2, <3>2
      <4>3. 1 \in 1 .. Len(Fields(m)) /\ SizeTo(m, 0) = 0 /\ Width(m, 1) = 1
        <5> DEFINE last == Len(Fields(m))
        <5>1. last \in {5, 9} /\ Width(m, 1) = 1 /\ SizeTo(m, 0) = 0
          BY WidthsAre, SizeToIs DEF OpField
        <5> HIDE DEF last
        <5>2. 1 \in 1 .. last
          BY <5>1
        <5> QED BY <5>1, <5>2 DEF last
      <4> QED BY <1>1, <4>1, <4>2, <4>3 DEF ReadsMessage, Unread, OpField, OidSize, DataLength
    <3> QED BY <3>1, <3>2
  <2> QED BY <2>2, <2>3, <2>4
<1> QED BY <1>6, <1>8, <1>10, <1>11 DEF InPlace

----------------------------------------------------------------------------
\* The receiving end.

\* What it knows of a message is enough to know how long its next field is.
LEMMA WidthIsKnown ==
  ASSUME TypeOK, NEW k \in 1 .. Len(msgs), ReadsMessage(k), rfield = 1 => header = Unread
  PROVE  /\ msgs[k] \in Messages
         /\ Wanted = Width(msgs[k], rfield)
         /\ rfield > OpField => Len(Fields(header)) = Len(Fields(msgs[k]))
         /\ SentUpTo(msgs[k], rfield)
<1> DEFINE m == msgs[k]
<1>1. m \in Messages /\ m.op \in {"WRITE", "WRITE_ACK"} /\ m.oid \in Nat /\ m.data \in Nat
  <2>1. m \in Messages
    BY DEF TypeOK
  <2> QED BY <2>1, MessagesAssumption
<1>2. rfield \in Nat \ {0} /\ rfield \in 1 .. Len(Fields(m))
  BY DEF TypeOK, ReadsMessage
<1>3. SentUpTo(m, rfield)
  BY <1>2 DEF ReadsMessage, SentUpTo, OidSize
<1>4. Wanted = Width(header, rfield)
  BY DEF Wanted, Width
<1>5. CASE rfield = 1
  <2>1. header.op = "none"
    BY <1>5 DEF Unread
  <2>2. Width(header, 1) = 1
    BY <2>1, HeaderFields
  <2>3. Width(m, 1) = 1
    BY <1>1, WidthsAre DEF OpField
  <2> QED BY <1>1, <1>3, <1>4, <1>5, <2>2, <2>3 DEF OpField
<1>6. CASE rfield # 1
  <2>1. header.op = m.op
    BY <1>2, <1>6 DEF ReadsMessage, OpField
  <2>2. CASE m.op = "WRITE"
    <3>1. Len(Fields(m)) = 9 /\ Len(Fields(header)) = 9
      BY <2>1, <2>2, WriteFields
    <3>2. rfield \in 2 .. 9
      BY <1>2, <1>6, <3>1
    <3>3. Width(m, rfield) = CASE rfield = 6 -> AsInt16(m.oid)
                               [] rfield = 9 -> m.data
                               [] OTHER -> IntWidth
      BY <2>2, <3>2, WriteFields
    <3>4. Width(header, rfield) = CASE rfield = 6 -> AsInt16(header.oid)
                                    [] rfield = 9 -> header.data
                                    [] OTHER -> IntWidth
      BY <2>1, <2>2, <3>2, WriteFields
    <3>5. ASSUME rfield = 6 PROVE AsInt16(header.oid) = AsInt16(m.oid)
      <4>1. NameIsSent(m) /\ header.oid = AsInt16(m.oid)
        BY <3>5 DEF ReadsMessage, OidSize
      <4> QED BY <1>1, <4>1, SizeIs DEF NameIsSent
    <3>6. ASSUME rfield = 9 PROVE header.data = m.data
      BY <3>6 DEF ReadsMessage, DataLength
    <3>7. Width(header, rfield) = Width(m, rfield)
      BY <3>3, <3>4, <3>5, <3>6
    <3> QED BY <1>1, <1>3, <1>4, <3>1, <3>7
  <2>3. CASE m.op = "WRITE_ACK"
    <3>1. Len(Fields(m)) = 5 /\ Len(Fields(header)) = 5
      BY <2>1, <2>3, AckFields
    <3>2. rfield \in 1 .. 5
      BY <1>2, <3>1
    <3>3. Width(header, rfield) = Width(m, rfield)
      BY <2>1, <2>3, <3>2, AckFields
    <3> QED BY <1>1, <1>3, <1>4, <3>1, <3>3
  <2> QED BY <1>1, <2>2, <2>3
<1> QED BY <1>5, <1>6

\* The worker reads message k, no send of which was short.
IsAt(base, k) ==
  /\ k \in 1 .. Len(msgs)
  /\ Exact(k)
  /\ ReadsMessage(k)
  /\ rfield = 1 => header = Unread
  /\ Taken(base) = base[k] + Len(got) + Len(part)

\* The bytes that come next are those of the field that is read.
LEMMA NextBytes ==
  ASSUME WInv, NEW base, IsBase(base), StreamInPlace(base),
         NEW k \in Nat, IsAt(base, k),
         NEW p \in 1 .. Len(stream), Len(part) + p <= Width(msgs[k], rfield)
  PROVE  stream[p] = <<k, rfield, Len(part) + p>>
<1> DEFINE L == Len(msgs)
           m == msgs[k]
           r == rfield
<1>0. k \in 1 .. L /\ Exact(k) /\ ReadsMessage(k)
  BY DEF IsAt
<1>1. /\ L \in Nat /\ m \in Messages /\ out[k] \in Nat /\ Len(part) \in Nat /\ r \in Nat \ {0}
      /\ Len(stream) \in Nat /\ p \in Nat /\ p >= 1
  <2>1. /\ msgs \in Seq(Messages) /\ out \in Seq(Nat) /\ Len(out) = L
        /\ stream \in Seq(Byte) /\ part \in Seq(Byte) /\ r \in Nat \ {0}
    BY DEF WInv, SendInv, TypeOK
  <2>2. L \in Nat /\ Len(part) \in Nat /\ Len(stream) \in Nat /\ p \in Nat /\ p >= 1
    BY <2>1
  <2>3. m \in Messages /\ out[k] \in Nat
    BY <1>0, <2>1
  <2> QED BY <2>1, <2>2, <2>3
<1>2. /\ base \in [1 .. L + 1 -> Nat]
      /\ \A i \in 1 .. L : base[i + 1] = base[i] + out[i]
      /\ \A i, j \in 1 .. L + 1 : i <= j => base[i] <= base[j]
  BY DEF IsBase
<1>3. r \in 1 .. Len(Fields(m)) /\ Len(got) = SizeTo(m, r - 1)
  BY <1>0 DEF ReadsMessage
<1>4. SentUpTo(m, r)
  BY <1>0, <1>1 DEF ReadsMessage, SentUpTo, OidSize
<1>5. /\ Width(m, r) \in Nat /\ SizeTo(m, r - 1) \in Nat
      /\ SizeTo(m, r) = SizeTo(m, r - 1) + Width(m, r)
  BY <1>1, <1>3, <1>4, SizeGrowsBy
<1>6. PICK i, f, b \in Nat : ByteInPlace(base, p, i, f, b)
  BY DEF StreamInPlace
<1>7. /\ i \in 1 .. L /\ f \in 1 .. Len(Fields(msgs[i])) /\ b \in 1 .. Width(msgs[i], f)
      /\ stream[p] = <<i, f, b>>
      /\ SentUpTo(msgs[i], f)
      /\ base[i] < Taken(base) + p /\ Taken(base) + p <= base[i + 1]
      /\ Exact(i) => Taken(base) + p = base[i] + SizeTo(msgs[i], f - 1) + b
  BY <1>6 DEF ByteInPlace, SentUpTo
<1>8. Taken(base) + p = base[k] + SizeTo(m, r - 1) + (Len(part) + p)
  <2>1. Taken(base) = base[k] + SizeTo(m, r - 1) + Len(part)
    BY <1>3 DEF IsAt
  <2>2. base[k] \in Nat
    BY <1>0, <1>1, <1>2
  <2>3. \A x, y, u, v \in Nat : (x + y + u) + v = x + y + (u + v)
    OBVIOUS
  <2>4. SizeTo(m, r - 1) \in Nat /\ Len(part) \in Nat /\ p \in Nat
    BY <1>1, <1>5
  <2>5. (base[k] + SizeTo(m, r - 1) + Len(part)) + p = base[k] + SizeTo(m, r - 1) + (Len(part) + p)
    BY <2>2, <2>3, <2>4
  <2> QED BY <2>1, <2>5
<1>9. i + 1 \in 1 .. L + 1 /\ i \in 1 .. L + 1 /\ k + 1 \in 1 .. L + 1 /\ k \in 1 .. L + 1
  <2>1. \A x \in 1 .. L : x + 1 \in 1 .. L + 1 /\ x \in 1 .. L + 1
    BY <1>1
  <2>2. i \in 1 .. L /\ k \in 1 .. L
    BY <1>0, <1>7
  <2> QED BY <2>1, <2>2
<1>n. /\ base[i] \in Nat /\ base[i + 1] \in Nat /\ base[k] \in Nat /\ base[k + 1] \in Nat
      /\ base[k + 1] = base[k] + out[k]
      /\ i + 1 <= k => base[i + 1] <= base[k]
      /\ k + 1 <= i => base[k + 1] <= base[i]
  BY <1>0, <1>2, <1>9
<1>s. PICK s \in Nat, q \in Nat : /\ s = SizeTo(m, r - 1) /\ q = Len(part) + p
                                   /\ q >= 1 /\ q <= Width(m, r)
  BY <1>1, <1>5
<1>p. base[i] < base[k] + s + q /\ base[k] + s + q <= base[i + 1]
  BY <1>7, <1>8, <1>s
<1>10. ~(i < k)
  <2> SUFFICES ASSUME i + 1 <= k PROVE FALSE
    BY <1>0
  <2>1. base[i + 1] <= base[k]
    BY <1>n
  <2>2. PICK c \in Nat, d \in Nat : c = base[k] /\ d = base[i + 1]
    BY <1>n
  <2>3. c + s + q <= d /\ d <= c
    BY <1>p, <2>1, <2>2
  <2>4. \A x, y, u, v \in Nat : v >= 1 => ~(x + u + v <= y /\ y <= x)
    OBVIOUS
  <2>5. q >= 1
    BY <1>s
  <2> QED BY <2>2, <2>3, <2>4, <2>5
<1>11. ~(k < i)
  <2> SUFFICES ASSUME k + 1 <= i PROVE FALSE
    BY <1>0
  <2>1. base[k] + out[k] <= base[i]
    BY <1>n
  <2>2. Whole(k)
    <3>1. k # L
      BY <1>1, <1>7
    <3> QED BY <1>0, <3>1 DEF Exact, InProgress
  <2>3. SizeTo(m, r) <= out[k] /\ SizeTo(m, r) \in Nat
    <3>1. r \in 0 .. Len(Fields(m))
      BY <1>3
    <3> QED BY <1>1, <2>2, <3>1, SizeIsMost DEF Whole
  <2>4. s + q <= SizeTo(m, r)
    BY <1>5, <1>s
  <2>5. base[i] < base[k] + s + q /\ base[i] \in Nat /\ base[k] \in Nat /\ out[k] \in Nat
    BY <1>1, <1>n, <1>p
  <2>6. PICK b0 \in Nat, c \in Nat, o \in Nat, z \in Nat :
          b0 = base[i] /\ c = base[k] /\ o = out[k] /\ z = SizeTo(m, r)
    BY <2>3, <2>5
  <2>7. z <= o /\ s + q <= z /\ b0 < c + s + q /\ c + o <= b0
    BY <2>1, <2>3, <2>4, <2>5, <2>6
  <2>8. \A w, x, y, u, v, e \in Nat :
          ~(e <= y /\ u + v <= e /\ w < x + u + v /\ x + y <= w)
    OBVIOUS
  <2> QED BY <2>6, <2>7, <2>8
<1>12. i = k
  BY <1>0, <1>7, <1>10, <1>11
<1>12f. /\ f \in 1 .. Len(Fields(m)) /\ b \in 1 .. Width(m, f) /\ SentUpTo(m, f)
        /\ Taken(base) + p = base[k] + SizeTo(m, f - 1) + b
  BY <1>0, <1>7, <1>12
<1>13. SizeTo(m, f - 1) + b = SizeTo(m, r - 1) + (Len(part) + p)
  <2>1. SizeTo(m, f - 1) \in Nat
    BY <1>1, <1>12f, SizeGrowsBy
  <2>2. PICK c \in Nat, o \in Nat : c = base[k] /\ o = SizeTo(m, f - 1)
    BY <1>n, <2>1
  <2>3. c + o + b = c + s + q
    BY <1>8, <1>12f, <1>s, <2>2
  <2>4. o + b = s + q
    BY <2>3
  <2> QED BY <1>s, <2>2, <2>4
<1>14. Len(part) + p \in 1 .. Width(m, r)
  BY <1>1, <1>5
<1>15. f = r /\ b = Len(part) + p
  BY <1>1, <1>3, <1>4, <1>12f, <1>13, <1>14, OnePlace
<1> QED BY <1>7, <1>12, <1>15

\* What the receiving end does is nothing to the sending end.
LEMMA SendersStay ==
  ASSUME SendInv, UNCHANGED send_vars, TypeOK', BytesAreSent'
  PROVE  SendInv' /\ \A k \in Int : ExactTo(k)' = ExactTo(k)
<1>1. UNCHANGED <<state, lock, msg, field, msgs, out, success>>
  BY DEF send_vars
<1>2. LockHeld' /\ SuccessIsKnown' /\ FailedIsCut'
  BY <1>1 DEF SendInv, LockHeld, SuccessIsKnown, FailedIsCut, Whole
<1>3. \A k \in Int : ExactTo(k)' = ExactTo(k)
  BY <1>1 DEF ExactTo, Exact, InProgress, Whole
<1> QED BY <1>2, <1>3 DEF SendInv

\* A worker that only stops leaves all in its place.
LEMMA StopsInPlace ==
  ASSUME WInv, UNCHANGED <<send_vars, stream, header, rfield, part, got, received>>
  PROVE  WInv'
<1>1. UNCHANGED <<state, lock, msg, field, msgs, out, success, stream, header, rfield, part, got, received>>
  BY DEF send_vars
<1>2. TypeOK' /\ BytesAreSent'
  BY <1>1 DEF WInv, SendInv, TypeOK, BytesAreSent
<1>3. SendInv'
  BY <1>2, SendersStay DEF WInv
<1>4. PICK base : IsBase(base) /\ StreamInPlace(base) /\ ReaderInPlace(base)
  BY DEF WInv, InPlace
<1>5. IsBase(base)' /\ Taken(base)' = Taken(base)
  BY <1>1, <1>4 DEF IsBase, Taken
<1>6. \A i \in Int : Exact(i)' = Exact(i)
  BY <1>1 DEF Exact, InProgress, Whole
<1>7. StreamInPlace(base)'
  <2> SUFFICES ASSUME NEW p \in 1 .. Len(stream)
               PROVE  \E i, f, b \in Nat : ByteInPlace(base, p, i, f, b)'
    BY <1>1 DEF StreamInPlace
  <2>1. PICK i, f, b \in Nat : ByteInPlace(base, p, i, f, b)
    BY <1>4 DEF StreamInPlace
  <2>2. Exact(i)' = Exact(i)
    BY <1>6
  <2>3. ByteInPlace(base, p, i, f, b)'
    BY <1>1, <1>5, <2>1, <2>2 DEF ByteInPlace
  <2> QED BY <2>3
<1>8. ReaderInPlace(base)'
  BY <1>1, <1>4, <1>5 DEF ReaderInPlace, ReadsMessage, ExactTo, Exact, InProgress, Whole
<1>9. ReadAsSent'
  <2>1. \A i \in 1 .. Len(received) : ExactTo(i)' = ExactTo(i)
    BY <1>1 DEF ExactTo, Exact, InProgress, Whole
  <2> SUFFICES ASSUME NEW i \in 1 .. Len(received), ExactTo(i)
               PROVE  /\ i <= Len(msgs) /\ Whole(i)'
                      /\ IsImage(received[i].bytes, i)'
                      /\ NameFits(msgs[i]) => received[i].message = msgs[i]
    BY <1>1, <2>1 DEF ReadAsSent
  <2>2. /\ i <= Len(msgs) /\ Whole(i)
        /\ IsImage(received[i].bytes, i)
        /\ NameFits(msgs[i]) => received[i].message = msgs[i]
    BY DEF WInv, ReadAsSent
  <2> QED BY <1>1, <2>2 DEF Whole, IsImage
<1> QED BY <1>3, <1>5, <1>7, <1>8, <1>9 DEF WInv, InPlace

\* recv takes the next bytes of the message, or all that there are.
LEMMA ReceivesInPlace ==
  ASSUME WInv, NEW n \in Nat, RecvBytes(n)
  PROVE  WInv'
<1> DEFINE L == Len(msgs)
           k == Len(received) + 1
<1> USE DEF WInv
<1>1. /\ n >= 1 /\ n <= Wanted - Len(part) /\ n <= Len(stream)
      /\ part' = part \o SubSeq(stream, 1, n)
      /\ stream' = SubSeq(stream, n + 1, Len(stream))
      /\ UNCHANGED <<header, rfield, got, received, send_vars>>
      /\ UNCHANGED <<state, lock, msg, field, msgs, out, success>>
  BY DEF RecvBytes, send_vars
<1>2. /\ stream \in Seq(Byte) /\ part \in Seq(Byte)
      /\ L \in Nat /\ Len(part) \in Nat /\ Len(stream) \in Nat /\ k \in Nat \ {0} /\ Len(got) \in Nat
  BY DEF SendInv, TypeOK
<1>3. /\ stream' \in Seq(Byte) /\ Len(stream') = Len(stream) - n
      /\ \A p \in 1 .. Len(stream) - n : stream'[p] = stream[n + p]
  BY <1>1, <1>2
<1>l. \A p \in 1 .. Len(stream') : p \in 1 .. Len(stream) - n /\ n + p \in 1 .. Len(stream)
  <2>1. \A x \in Nat : \A y \in 1 .. x - n : n + y \in 1 .. x
    OBVIOUS
  <2> QED BY <1>2, <1>3, <2>1
<1>4. /\ SubSeq(stream, 1, n) \in Seq(Byte) /\ Len(SubSeq(stream, 1, n)) = n
      /\ \A p \in 1 .. n : SubSeq(stream, 1, n)[p] = stream[p]
  BY <1>1, <1>2
<1>5. /\ part' \in Seq(Byte) /\ Len(part') = Len(part) + n
      /\ \A p \in 1 .. Len(part) : part'[p] = part[p]
      /\ \A p \in 1 .. n : part'[Len(part) + p] = stream[p]
  <2>1. PICK s : s = SubSeq(stream, 1, n)
    OBVIOUS
  <2>2. s \in Seq(Byte) /\ Len(s) = n /\ \A p \in 1 .. n : s[p] = stream[p]
    BY <1>4, <2>1
  <2>3. part' = part \o s
    BY <1>1, <2>1
  <2>4. /\ part \o s \in Seq(Byte) /\ Len(part \o s) = Len(part) + Len(s)
        /\ \A p \in 1 .. Len(part) : (part \o s)[p] = part[p]
        /\ \A p \in 1 .. Len(s) : (part \o s)[Len(part) + p] = s[p]
    <3>1. part \in Seq(Byte) /\ s \in Seq(Byte)
      BY <1>2, <2>2
    <3> QED BY <3>1, Joined
  <2> QED BY <2>2, <2>3, <2>4
<1>6. TypeOK'
  BY <1>1, <1>3, <1>5 DEF SendInv, TypeOK
<1>7. BytesAreSent'
  <2>1. \A p \in 1 .. Len(stream) : stream[p][1] \in 1 .. L
    BY DEF SendInv, BytesAreSent
  <2>2. \A p \in 1 .. Len(part) : part[p][1] \in 1 .. L
    BY DEF SendInv, BytesAreSent
  <2>3. ASSUME NEW p \in 1 .. Len(stream') PROVE stream'[p][1] \in 1 .. L
    <3>1. n + p \in 1 .. Len(stream) /\ stream'[p] = stream[n + p]
      BY <1>3, <1>l
    <3> QED BY <2>1, <3>1
  <2>4. ASSUME NEW p \in 1 .. Len(part') PROVE part'[p][1] \in 1 .. L
    <3>1. CASE p <= Len(part)
      <4>1. \A x, y \in Nat : \A q \in 1 .. x + y : q <= x => q \in 1 .. x
        OBVIOUS
      <4>2. p \in 1 .. Len(part)
        BY <1>1, <1>2, <1>5, <3>1, <4>1
      <4> QED BY <1>5, <2>2, <4>2
    <3>2. CASE ~(p <= Len(part))
      <4>1. PICK q \in 1 .. n : p = Len(part) + q
        <5>1. p - Len(part) \in 1 .. n /\ p = Len(part) + (p - Len(part))
          BY <1>2, <1>5, <3>2
        <5> QED BY <5>1
      <4>2. part'[p] = stream[q] /\ q \in 1 .. Len(stream)
        BY <1>1, <1>2, <1>5, <4>1
      <4> QED BY <2>1, <4>2
    <3> QED BY <3>1, <3>2
  <2> QED BY <1>1, <2>3, <2>4 DEF BytesAreSent
<1>8. SendInv' /\ \A i \in Int : ExactTo(i)' = ExactTo(i)
  BY <1>1, <1>6, <1>7, SendersStay
<1>9. PICK base : IsBase(base) /\ StreamInPlace(base) /\ ReaderInPlace(base)
  BY DEF InPlace
<1>10. IsBase(base)' /\ base[L + 1] \in Nat
  BY <1>1, <1>2, <1>9 DEF IsBase
<1>11. Taken(base)' = Taken(base) + n /\ Taken(base) \in Int /\ Taken(base) = base[L + 1] - Len(stream)
  <2>1. PICK c \in Nat, l \in Nat : c = base[L + 1] /\ l = Len(stream)
    BY <1>2, <1>10
  <2>2. Taken(base)' = c - (l - n)
    BY <1>1, <1>3, <2>1 DEF Taken
  <2>3. Taken(base) = c - l
    BY <2>1 DEF Taken
  <2>4. c - (l - n) = (c - l) + n /\ c - l \in Int
    OBVIOUS
  <2>5. Taken(base)' = Taken(base) + n /\ Taken(base) \in Int
    <3>1. PICK d \in Int : d = Taken(base)
      BY <2>3, <2>4
    <3>2. Taken(base)' = d + n
      BY <2>2, <2>3, <2>4, <3>1
    <3> QED BY <3>1, <3>2
  <2> QED BY <2>5 DEF Taken
<1>12. \A i \in Int : Exact(i)' = Exact(i)
  BY <1>1 DEF Exact, InProgress, Whole
<1>13. StreamInPlace(base)'
  <2> SUFFICES ASSUME NEW p \in 1 .. Len(stream')
               PROVE  \E i, f, b \in Nat : ByteInPlace(base, p, i, f, b)'
    BY DEF StreamInPlace
  <2>1. n + p \in 1 .. Len(stream) /\ p \in 1 .. Len(stream) - n
    BY <1>l
  <2>2. PICK i, f, b \in Nat : ByteInPlace(base, n + p, i, f, b)
    BY <1>9, <2>1 DEF StreamInPlace
  <2>3. /\ i \in 1 .. L /\ f \in 1 .. Len(Fields(msgs[i])) /\ b \in 1 .. Width(msgs[i], f)
        /\ stream[n + p] = <<i, f, b>>
        /\ NameIsSent(msgs[i]) \/ f <= OidSize
        /\ base[i] < Taken(base) + (n + p) /\ Taken(base) + (n + p) <= base[i + 1]
        /\ Exact(i) => Taken(base) + (n + p) = base[i] + SizeTo(msgs[i], f - 1) + b
    BY <2>2 DEF ByteInPlace
  <2>4. Taken(base)' + p = Taken(base) + (n + p)
    <3>1. PICK c \in Int : c = Taken(base)
      BY <1>11
    <3>2. Taken(base)' = c + n
      BY <1>11, <3>1
    <3> QED BY <3>1, <3>2
  <2>5. /\ base[i] < Taken(base)' + p /\ Taken(base)' + p <= base[i + 1]
        /\ Exact(i)' => Taken(base)' + p = base[i] + SizeTo(msgs[i], f - 1) + b
    BY <1>12, <2>3, <2>4
  <2>6. stream'[p] = <<i, f, b>>
    BY <1>3, <2>1, <2>3
  <2>7. ByteInPlace(base, p, i, f, b)'
    BY <1>1, <2>3, <2>5, <2>6 DEF ByteInPlace
  <2> QED BY <2>7
<1>14. ReaderInPlace(base)'
  <2> SUFFICES ASSUME ExactTo(k)
               PROVE  /\ k <= L + 1
                      /\ Taken(base)' = base[k] + Len(got) + Len(part')
                      /\ rfield = 1 => header = Unread
                      /\ IF k <= L THEN ReadsMessage(k)' ELSE rfield = 1 /\ got = << >> /\ part' = << >>
    <3>1. (\A i \in 1 .. k : i <= L => Exact(i)') => ExactTo(k)
      BY <1>2, <1>12 DEF ExactTo
    <3> QED BY <1>1, <3>1 DEF ReaderInPlace, ExactTo
  <2>1. /\ k <= L + 1
        /\ Taken(base) = base[k] + Len(got) + Len(part)
        /\ rfield = 1 => header = Unread
        /\ IF k <= L THEN ReadsMessage(k) ELSE rfield = 1 /\ got = << >> /\ part = << >>
    BY <1>9 DEF ReaderInPlace
  <2>2. k <= L
    <3> SUFFICES ASSUME k = L + 1 PROVE FALSE
      BY <1>2, <2>1
    <3>1. Len(got) = 0 /\ Len(part) = 0 /\ base[k] = base[L + 1]
      BY <1>2, <2>1
    <3> QED BY <1>1, <1>2, <1>10, <1>11, <2>1, <3>1
  <2>3. k \in 1 .. L /\ ReadsMessage(k) /\ msgs[k] \in Messages
    BY <1>2, <2>1, <2>2 DEF SendInv, TypeOK
  <2>4. IsAt(base, k)
    BY <1>2, <2>1, <2>3 DEF IsAt, ExactTo
  <2>5. Wanted = Width(msgs[k], rfield) /\ SentUpTo(msgs[k], rfield)
    BY <2>1, <2>3, WidthIsKnown DEF SendInv
  <2>6. Width(msgs[k], rfield) \in Nat
    BY <2>3, <2>5, SizeGrowsBy DEF ReadsMessage
  <2>7. ASSUME NEW p \in 1 .. n PROVE stream[p] = <<k, rfield, Len(part) + p>>
    <3>1. p \in 1 .. Len(stream) /\ Len(part) + p <= Width(msgs[k], rfield)
      BY <1>1, <1>2, <2>5, <2>6
    <3> QED BY <1>2, <1>9, <2>4, <3>1, NextBytes
  <2>8. ASSUME NEW p \in 1 .. Len(part') PROVE part'[p] = <<k, rfield, p>>
    <3>1. CASE p <= Len(part)
      <4>1. p \in 1 .. Len(part)
        BY <1>2, <1>5, <3>1
      <4>2. part[p] = <<k, rfield, p>>
        BY <2>3, <4>1 DEF ReadsMessage
      <4> QED BY <1>5, <4>1, <4>2
    <3>2. CASE ~(p <= Len(part))
      <4>1. PICK q \in 1 .. n : p = Len(part) + q
        <5>1. p - Len(part) \in 1 .. n /\ p = Len(part) + (p - Len(part))
          BY <1>2, <1>5, <3>2
        <5> QED BY <5>1
      <4> QED BY <1>5, <2>7, <4>1
    <3> QED BY <3>1, <3>2
  <2>9. Len(part') <= Width(msgs[k], rfield)
    BY <1>1, <1>2, <1>5, <2>5, <2>6
  <2>10. ReadsMessage(k)'
    BY <1>1, <2>3, <2>8, <2>9 DEF ReadsMessage
  <2>11. Taken(base)' = base[k] + Len(got) + Len(part')
    <3>1. base[k] \in Nat
      BY <1>2, <1>9, <2>3 DEF IsBase
    <3>2. PICK c \in Nat, g \in Nat, h \in Nat : c = base[k] /\ g = Len(got) /\ h = Len(part)
      BY <1>2, <3>1
    <3>3. Taken(base) = c + g + h
      BY <2>1, <3>2
    <3>4. Taken(base)' = (c + g + h) + n /\ Len(part') = h + n
      BY <1>5, <1>11, <3>2, <3>3
    <3>5. (c + g + h) + n = c + g + (h + n)
      BY <1>1
    <3> QED BY <3>2, <3>4, <3>5
  <2> QED BY <2>1, <2>2, <2>10, <2>11
<1>15. ReadAsSent'
  <2> SUFFICES ASSUME NEW i \in 1 .. Len(received), ExactTo(i)
               PROVE  /\ i <= L /\ Whole(i)'
                      /\ IsImage(received[i].bytes, i)'
                      /\ NameFits(msgs[i]) => received[i].message = msgs[i]
    <3>1. \A i \in 1 .. Len(received) : i \in Int
      OBVIOUS
    <3> QED BY <1>1, <1>8, <3>1 DEF ReadAsSent
  <2> QED BY <1>1 DEF ReadAsSent, Whole, IsImage
<1> QED BY <1>8, <1>10, <1>13, <1>14, <1>15 DEF InPlace

----------------------------------------------------------------------------
\* From field to field.

\* The worker has all of a field of message k.
FieldIsRead(k) ==
  /\ k \in 1 .. Len(msgs)
  /\ ReadsMessage(k)
  /\ rfield = 1 => header = Unread
  /\ Len(part) = Width(msgs[k], rfield)

\* What it has to know when it goes on.
KnowsMore(known, m) ==
  /\ rfield < Len(Fields(m))
  /\ known.op = m.op
  /\ rfield >= OidSize => NameIsSent(m)
  /\ known.oid = IF rfield >= OidSize THEN AsInt16(m.oid) ELSE 0
  /\ known.data = IF rfield >= DataLength THEN m.data ELSE 0

\* The message that is read is one that was begun.
LEMMA FieldIsOfAMessage ==
  ASSUME WInv, HaveField, NEW base, ReaderInPlace(base), ExactTo(Len(received) + 1)
  PROVE  LET k == Len(received) + 1
         IN  /\ k \in 1 .. Len(msgs) /\ FieldIsRead(k)
             /\ Taken(base) = base[k] + Len(got) + Len(part)
<1> DEFINE k == Len(received) + 1
<1>1. k \in Nat \ {0} /\ Len(msgs) \in Nat /\ TypeOK
  BY DEF WInv, SendInv, TypeOK
<1>2. /\ k <= Len(msgs) + 1
      /\ Taken(base) = base[k] + Len(got) + Len(part)
      /\ rfield = 1 => header = Unread
      /\ IF k <= Len(msgs) THEN ReadsMessage(k) ELSE rfield = 1 /\ got = << >> /\ part = << >>
  BY DEF ReaderInPlace
<1>3. k <= Len(msgs)
  <2> SUFFICES ASSUME ~(k <= Len(msgs)) PROVE FALSE
    OBVIOUS
  <2>1. rfield = 1 /\ part = << >> /\ header = Unread
    BY <1>2
  <2>2. Wanted = 1
    <3>1. Width(Unread, 1) = 1
      BY HeaderFields DEF Unread
    <3> QED BY <2>1, <3>1 DEF Wanted, Width
  <2>3. Len(part) = 0
    BY <2>1
  <2> QED BY <2>2, <2>3 DEF HaveField
<1>4. k \in 1 .. Len(msgs) /\ ReadsMessage(k)
  BY <1>1, <1>2, <1>3
<1>5. Wanted = Width(msgs[k], rfield)
  BY <1>1, <1>2, <1>4, WidthIsKnown
<1>6. FieldIsRead(k)
  BY <1>2, <1>4, <1>5 DEF FieldIsRead, HaveField
<1> QED BY <1>2, <1>4, <1>6

\* The bytes of a field are recognised.
LEMMA FieldIsOfItself ==
  ASSUME TypeOK, NEW k, FieldIsRead(k), Len(part) # 0
  PROVE  /\ part # << >> /\ part[1][1] = k
         /\ part = Bytes(part[1][1], rfield, Len(part))
<1>1. part \in Seq(Byte) /\ Len(part) \in Nat
  BY DEF TypeOK
<1>2. \A j \in 1 .. Len(part) : part[j] = <<k, rfield, j>>
  BY DEF FieldIsRead, ReadsMessage
<1>3. 1 \in 1 .. Len(part) /\ part # << >>
  BY <1>1
<1>4. part[1][1] = k
  BY <1>2, <1>3
<1>5. part = [j \in 1 .. Len(part) |-> part[j]]
  BY <1>1
<1>6. part = Bytes(k, rfield, Len(part))
  BY <1>2, <1>5 DEF Bytes
<1> QED BY <1>3, <1>4, <1>6

\* The messages that were read stay as they are, and so does the stream.
LEMMA GoesOnInPlace ==
  ASSUME WInv, HaveField, NEW known \in Known, GoOn(known),
         \A k \in Nat : FieldIsRead(k) => KnowsMore(known, msgs[k])
  PROVE  WInv'
<1> DEFINE L == Len(msgs)
           k == Len(received) + 1
<1> USE DEF WInv
<1>1. /\ header' = known /\ rfield' = rfield + 1 /\ got' = got \o part /\ part' = << >>
      /\ UNCHANGED <<stream, received, send_vars>>
      /\ UNCHANGED <<state, lock, msg, field, msgs, out, success>>
  BY DEF GoOn, send_vars
<1>2. /\ part \in Seq(Byte) /\ got \in Seq(Byte) /\ rfield \in Nat \ {0}
      /\ L \in Nat /\ Len(part) \in Nat /\ k \in Nat \ {0} /\ Len(got) \in Nat
  BY DEF SendInv, TypeOK
<1>3. /\ got \o part \in Seq(Byte) /\ Len(got \o part) = Len(got) + Len(part)
      /\ \A p \in 1 .. Len(got) : (got \o part)[p] = got[p]
      /\ \A p \in 1 .. Len(part) : (got \o part)[Len(got) + p] = part[p]
  BY <1>2, Joined
<1>4. /\ got' \in Seq(Byte) /\ Len(got') = Len(got) + Len(part)
      /\ \A p \in 1 .. Len(got) : got'[p] = got[p]
      /\ \A p \in 1 .. Len(part) : got'[Len(got) + p] = part[p]
      /\ part' \in Seq(Byte) /\ Len(part') = 0
  BY <1>1, <1>3
<1>5. TypeOK'
  BY <1>1, <1>2, <1>4 DEF SendInv, TypeOK
<1>6. BytesAreSent'
  BY <1>1, <1>4 DEF SendInv, BytesAreSent
<1>7. SendInv'
  BY <1>1, <1>5, <1>6, SendersStay
<1>8. \A i \in Int : Exact(i)' = Exact(i)
  BY <1>1 DEF Exact, InProgress, Whole
<1>9. PICK base : IsBase(base) /\ StreamInPlace(base) /\ ReaderInPlace(base)
  BY DEF InPlace
<1>10. IsBase(base)' /\ Taken(base)' = Taken(base)
  BY <1>1, <1>9 DEF IsBase, Taken
<1>11. StreamInPlace(base)'
  <2> SUFFICES ASSUME NEW p \in 1 .. Len(stream)
               PROVE  \E i, f, b \in Nat : ByteInPlace(base, p, i, f, b)'
    BY <1>1 DEF StreamInPlace
  <2>1. PICK i, f, b \in Nat : ByteInPlace(base, p, i, f, b)
    BY <1>9 DEF StreamInPlace
  <2>2. Exact(i)' = Exact(i)
    BY <1>8
  <2>3. ByteInPlace(base, p, i, f, b)'
    BY <1>1, <1>10, <2>1, <2>2 DEF ByteInPlace
  <2> QED BY <2>3
<1>12. ReadAsSent'
  <2>1. \A i \in 1 .. Len(received) : ExactTo(i)' = ExactTo(i)
    BY <1>1 DEF ExactTo, Exact, InProgress, Whole
  <2> SUFFICES ASSUME NEW i \in 1 .. Len(received), ExactTo(i)
               PROVE  /\ i <= L /\ Whole(i)'
                      /\ IsImage(received[i].bytes, i)'
                      /\ NameFits(msgs[i]) => received[i].message = msgs[i]
    BY <1>1, <2>1 DEF ReadAsSent
  <2>2. /\ i <= L /\ Whole(i)
        /\ IsImage(received[i].bytes, i)
        /\ NameFits(msgs[i]) => received[i].message = msgs[i]
    BY DEF ReadAsSent
  <2> QED BY <1>1, <2>2 DEF Whole, IsImage
<1>13. ReaderInPlace(base)'
  <2> SUFFICES ASSUME ExactTo(k)
               PROVE  /\ k <= L
                      /\ Taken(base) = base[k] + Len(got') + Len(part')
                      /\ rfield' # 1
                      /\ ReadsMessage(k)'
    <3>1. (\A i \in 1 .. k : i <= L => Exact(i)') => ExactTo(k)
      BY <1>2, <1>8 DEF ExactTo
    <3>2. L <= L + 1
      BY <1>2
    <3> QED BY <1>1, <1>2, <1>10, <3>1 DEF ReaderInPlace, ExactTo
  <2> DEFINE m == msgs[k]
  <2>1. k \in 1 .. L /\ FieldIsRead(k) /\ Taken(base) = base[k] + Len(got) + Len(part)
    BY <1>9, FieldIsOfAMessage
  <2>2. KnowsMore(known, m)
    BY <1>2, <2>1
  <2>3. m \in Messages /\ rfield \in 1 .. Len(Fields(m)) /\ Len(part) = Width(m, rfield)
    BY <2>1 DEF FieldIsRead, ReadsMessage, SendInv, TypeOK
  <2>4. Len(Fields(m)) \in Nat
    BY <2>3, WidthsAre
  <2>5. SentUpTo(m, rfield)
    <3>1. NameIsSent(m) \/ rfield <= OidSize
      BY <1>2, <2>1 DEF FieldIsRead, ReadsMessage, OidSize
    <3> QED BY <3>1 DEF SentUpTo
  <2>6. SizeTo(m, rfield - 1) \in Nat /\ SizeTo(m, rfield) = SizeTo(m, rfield - 1) + Width(m, rfield)
    BY <2>3, <2>5, SizeGrowsBy
  <2>7. Len(got) = SizeTo(m, rfield - 1)
    BY <2>1 DEF FieldIsRead, ReadsMessage
  <2>8. Len(got') = SizeTo(m, rfield)
    BY <1>4, <2>3, <2>6, <2>7
  <2>9. ASSUME NEW f \in 1 .. rfield, NEW b \in 1 .. Width(m, f)
        PROVE  got'[SizeTo(m, f - 1) + b] = <<k, f, b>>
    <3>1. CASE f = rfield
      <4>1. b \in 1 .. Len(part) /\ SizeTo(m, f - 1) = Len(got)
        BY <2>3, <2>7, <3>1
      <4>2. got'[Len(got) + b] = part[b] /\ part[b] = <<k, rfield, b>>
        BY <1>4, <2>1, <4>1 DEF FieldIsRead, ReadsMessage
      <4> QED BY <3>1, <4>1, <4>2
    <3>2. CASE f # rfield
      <4>1. f \in 1 .. rfield - 1 /\ f \in 1 .. Len(Fields(m)) /\ f - 1 \in 0 .. rfield - 1 /\ f \in 0 .. rfield - 1
        BY <1>2, <2>3, <2>4, <3>2
      <4>2. got[SizeTo(m, f - 1) + b] = <<k, f, b>>
        BY <2>1, <4>1 DEF FieldIsRead, ReadsMessage
      <4>3. SentUpTo(m, f) /\ SentUpTo(m, rfield - 1)
        BY <1>2, <2>5, <4>1 DEF SentUpTo, OidSize
      <4>4. Width(m, f) \in Nat /\ SizeTo(m, f - 1) \in Nat /\ SizeTo(m, f) = SizeTo(m, f - 1) + Width(m, f)
        BY <2>3, <4>1, <4>3, SizeGrowsBy
      <4>5. SizeTo(m, f) <= SizeTo(m, rfield - 1)
        <5>1. rfield - 1 \in 0 .. Len(Fields(m))
          BY <1>2, <2>3, <2>4
        <5> QED BY <2>3, <4>1, <4>3, <5>1, SizesGrow
      <4>6. SizeTo(m, f - 1) + b \in 1 .. Len(got)
        BY <2>6, <2>7, <4>4, <4>5
      <4> QED BY <1>4, <4>2, <4>6
    <3> QED BY <3>1, <3>2
  <2>10. rfield + 1 \in 1 .. Len(Fields(m)) /\ Width(m, rfield + 1) >= 0
    <3>1. rfield + 1 \in 1 .. Len(Fields(m))
      BY <1>2, <2>2, <2>4 DEF KnowsMore
    <3>2. NameIsSent(m) \/ rfield + 1 # OidSize + 1
      BY <1>2, <2>2 DEF KnowsMore, OidSize
    <3> QED BY <2>3, <3>1, <3>2, WidthsAre
  <2>11. /\ rfield' > OpField /\ rfield' # 1
         /\ rfield' > OidSize <=> rfield >= OidSize
         /\ rfield' > DataLength <=> rfield >= DataLength
         /\ rfield' - 1 = rfield
    BY <1>1, <1>2 DEF OpField, OidSize, DataLength
  <2>12. ReadsMessage(k)'
    <3>1. /\ header'.op = m.op
          /\ rfield' > OidSize => NameIsSent(m)
          /\ header'.oid = IF rfield' > OidSize THEN AsInt16(m.oid) ELSE 0
          /\ header'.data = IF rfield' > DataLength THEN m.data ELSE 0
      BY <1>1, <2>2, <2>11 DEF KnowsMore
    <3>2. rfield' \in 1 .. Len(Fields(m)) /\ Width(m, rfield') >= 0
      BY <1>1, <2>10
    <3>3. Len(got') = SizeTo(m, rfield' - 1)
      BY <2>8, <2>11
    <3>4. \A f \in 1 .. rfield' - 1 : \A b \in 1 .. Width(m, f) :
            got'[SizeTo(m, f - 1) + b] = <<k, f, b>>
      BY <2>9, <2>11
    <3>5. \A b \in 1 .. Len(part') : part'[b] = <<k, rfield', b>>
      BY <1>4
    <3> HIDE DEF m
    <3>6. msgs'[k] = m /\ k' = k
      BY <1>1 DEF m
    <3> HIDE DEF k
    <3> QED BY <1>4, <3>1, <3>2, <3>3, <3>4, <3>5, <3>6 DEF ReadsMessage
  <2>13. Taken(base) = base[k] + Len(got') + Len(part')
    <3>1. base[k] \in Nat
      BY <1>2, <1>9, <2>1 DEF IsBase
    <3> QED BY <1>2, <1>4, <2>1, <3>1
  <2> QED BY <2>1, <2>11, <2>12, <2>13
<1> QED BY <1>7, <1>10, <1>11, <1>12, <1>13 DEF InPlace

\* What is read is of some message, whatever was read before.
LEMMA PartIsOfAMessage ==
  ASSUME SendInv, part # << >>
  PROVE  msgs[part[1][1]] \in Messages
<1>1. 1 \in 1 .. Len(part)
  BY DEF SendInv, TypeOK
<1>2. part[1][1] \in 1 .. Len(msgs)
  BY <1>1 DEF SendInv, BytesAreSent
<1> QED BY <1>2 DEF SendInv, TypeOK

LEMMA OpInPlace ==
  ASSUME WInv, RecvOp
  PROVE  WInv'
<1>1. HaveField /\ rfield = 1
  BY DEF RecvOp, OpField
<1>2. PICK op \in Values(OpField, LAMBDA m : m.op, Ops) : GoOn([header EXCEPT !.op = op])
  BY DEF RecvOp
<1>3. SendInv /\ TypeOK /\ header \in Known
  BY DEF WInv, SendInv, TypeOK
<1>4. /\ part # << >> /\ part = Bytes(part[1][1], OpField, Len(part)) => op = msgs[part[1][1]].op
      /\ op \in Ops \/ (part # << >> /\ op = msgs[part[1][1]].op)
  BY <1>2 DEF Values
<1>5. PICK known : known = [header EXCEPT !.op = op]
  OBVIOUS
<1>6. op \in Ops
  <2>1. part # << >> => msgs[part[1][1]].op \in Ops
    BY <1>3, PartIsOfAMessage, MessagesAssumption DEF Ops
  <2> QED BY <1>4, <2>1
<1>7. known \in Known /\ known.op = op /\ known.oid = header.oid /\ known.data = header.data
  BY <1>3, <1>5, <1>6 DEF Known
<1>8. ASSUME NEW k \in Nat, FieldIsRead(k) PROVE KnowsMore(known, msgs[k])
  <2>1. k \in 1 .. Len(msgs) /\ header = Unread /\ Len(part) = Width(msgs[k], 1)
    BY <1>1, <1>8 DEF FieldIsRead
  <2>2. msgs[k] \in Messages
    BY <1>3, <2>1 DEF TypeOK
  <2>3. Len(Fields(msgs[k])) \in {5, 9} /\ Width(msgs[k], 1) = 1
    BY <2>2, WidthsAre DEF OpField
  <2>4. Len(part) # 0
    BY <2>1, <2>3
  <2>5. /\ part # << >> /\ part[1][1] = k
        /\ part = Bytes(part[1][1], rfield, Len(part))
    BY <1>3, <1>8, <2>4, FieldIsOfItself
  <2>6. known.op = msgs[k].op
    BY <1>1, <1>4, <1>7, <2>5 DEF OpField
  <2>7. known.oid = 0 /\ known.data = 0
    BY <1>7, <2>1 DEF Unread
  <2>8. rfield < Len(Fields(msgs[k])) /\ ~(rfield >= OidSize) /\ ~(rfield >= DataLength)
    <3>1. \A last \in {5, 9} : 1 < last
      OBVIOUS
    <3>2. 1 < Len(Fields(msgs[k]))
      BY <2>3, <3>1
    <3> QED BY <1>1, <3>2 DEF OidSize, DataLength
  <2> QED BY <2>6, <2>7, <2>8 DEF KnowsMore
<1> QED BY <1>1, <1>2, <1>5, <1>7, <1>8, GoesOnInPlace

LEMMA LogIdInPlace ==
  ASSUME WInv, RecvLogId
  PROVE  WInv'
<1>1. HaveField /\ rfield = 2
  BY DEF RecvLogId, Header
<1>2. header \in Known /\ TypeOK
  BY DEF WInv, SendInv, TypeOK
<1>3. CASE header.op \in {"WRITE", "WRITE_ACK"} /\ GoOn(header)
  <2>1. ASSUME NEW k \in Nat, FieldIsRead(k) PROVE KnowsMore(header, msgs[k])
    <3>1. k \in 1 .. Len(msgs) /\ ReadsMessage(k)
      BY <2>1 DEF FieldIsRead
    <3>2. Len(Fields(msgs[k])) \in {5, 9}
      BY <1>2, <3>1, WidthsAre DEF TypeOK
    <3>3. header.op = msgs[k].op /\ header.oid = 0 /\ header.data = 0
      BY <1>1, <3>1 DEF ReadsMessage, OpField, OidSize, DataLength
    <3>4. rfield < Len(Fields(msgs[k])) /\ ~(rfield >= OidSize) /\ ~(rfield >= DataLength)
      <4>1. \A last \in {5, 9} : 2 < last
        OBVIOUS
      <4>2. 2 < Len(Fields(msgs[k]))
        BY <3>2, <4>1
      <4> QED BY <1>1, <4>2 DEF OidSize, DataLength
    <3> QED BY <3>3, <3>4 DEF KnowsMore
  <2> QED BY <1>1, <1>2, <1>3, <2>1, GoesOnInPlace
<1>4. CASE \E why : StopReading(why)
  BY <1>4, StopsInPlace DEF StopReading
<1> QED BY <1>3, <1>4 DEF RecvLogId

LEMMA OidSizeInPlace ==
  ASSUME WInv, RecvOidSize
  PROVE  WInv'
<1>1. HaveField /\ rfield = 5 /\ header.op = "WRITE"
  BY DEF RecvOidSize, OidSize
<1>2. PICK size \in Values(OidSize, LAMBDA m : AsInt16(m.oid), -1 .. 1) :
        IF size < 0 THEN StopReading("ended") ELSE GoOn([header EXCEPT !.oid = size])
  BY DEF RecvOidSize
<1>3. SendInv /\ TypeOK /\ header \in Known
  BY DEF WInv, SendInv, TypeOK
<1>4. /\ part # << >> /\ part = Bytes(part[1][1], OidSize, Len(part)) => size = AsInt16(msgs[part[1][1]].oid)
      /\ size \in -1 .. 1 \/ (part # << >> /\ size = AsInt16(msgs[part[1][1]].oid))
  BY <1>2 DEF Values
<1>5. size \in Int
  <2>1. part # << >> => AsInt16(msgs[part[1][1]].oid) \in Int
    BY <1>3, PartIsOfAMessage, MessagesAssumption, SizeIs
  <2> QED BY <1>4, <2>1
<1>6. CASE size < 0
  BY <1>2, <1>6, StopsInPlace DEF StopReading
<1>7. CASE ~(size < 0)
  <2>1. PICK known : known = [header EXCEPT !.oid = size]
    OBVIOUS
  <2>2. known \in Known /\ known.op = header.op /\ known.oid = size /\ known.data = header.data
    BY <1>3, <1>5, <1>7, <2>1 DEF Known
  <2>3. ASSUME NEW k \in Nat, FieldIsRead(k) PROVE KnowsMore(known, msgs[k])
    <3>1. k \in 1 .. Len(msgs) /\ ReadsMessage(k) /\ Len(part) = Width(msgs[k], 5)
      BY <1>1, <2>3 DEF FieldIsRead
    <3>2. header.op = msgs[k].op /\ header.data = 0
      BY <1>1, <3>1 DEF ReadsMessage, OpField, OidSize, DataLength
    <3>3. Len(Fields(msgs[k])) = 9 /\ Width(msgs[k], 5) = IntWidth
      BY <1>1, <3>2, WriteFields
    <3>4. Len(part) # 0
      BY <3>1, <3>3, WidthAssumption
    <3>5. /\ part # << >> /\ part[1][1] = k
          /\ part = Bytes(part[1][1], rfield, Len(part))
      BY <1>3, <2>3, <3>4, FieldIsOfItself
    <3>6. size = AsInt16(msgs[k].oid)
      BY <1>1, <1>4, <3>5 DEF OidSize
    <3>7. NameIsSent(msgs[k])
      BY <1>5, <1>7, <3>6 DEF NameIsSent
    <3> QED BY <1>1, <2>2, <3>2, <3>3, <3>6, <3>7 DEF KnowsMore, OidSize, DataLength
  <2> QED BY <1>1, <1>2, <1>7, <2>1, <2>2, <2>3, GoesOnInPlace
<1> QED BY <1>5, <1>6, <1>7

LEMMA DataLengthInPlace ==
  ASSUME WInv, RecvDataLength
  PROVE  WInv'
<1>1. HaveField /\ rfield = 8 /\ header.op = "WRITE"
  BY DEF RecvDataLength, DataLength
<1>2. PICK length \in Values(DataLength, LAMBDA m : m.data, 0 .. 1) :
        GoOn([header EXCEPT !.data = length])
  BY DEF RecvDataLength
<1>3. SendInv /\ TypeOK /\ header \in Known
  BY DEF WInv, SendInv, TypeOK
<1>4. /\ part # << >> /\ part = Bytes(part[1][1], DataLength, Len(part)) => length = msgs[part[1][1]].data
      /\ length \in 0 .. 1 \/ (part # << >> /\ length = msgs[part[1][1]].data)
  BY <1>2 DEF Values
<1>5. length \in Nat
  <2>1. part # << >> => msgs[part[1][1]].data \in Nat
    BY <1>3, PartIsOfAMessage, MessagesAssumption
  <2> QED BY <1>4, <2>1
<1>6. PICK known : known = [header EXCEPT !.data = length]
  OBVIOUS
<1>7. known \in Known /\ known.op = header.op /\ known.oid = header.oid /\ known.data = length
  BY <1>3, <1>5, <1>6 DEF Known
<1>8. ASSUME NEW k \in Nat, FieldIsRead(k) PROVE KnowsMore(known, msgs[k])
  <2>1. k \in 1 .. Len(msgs) /\ ReadsMessage(k) /\ Len(part) = Width(msgs[k], 8)
    BY <1>1, <1>8 DEF FieldIsRead
  <2>2. header.op = msgs[k].op /\ NameIsSent(msgs[k]) /\ header.oid = AsInt16(msgs[k].oid)
    BY <1>1, <2>1 DEF ReadsMessage, OpField, OidSize
  <2>3. Len(Fields(msgs[k])) = 9 /\ Width(msgs[k], 8) = IntWidth
    BY <1>1, <2>2, WriteFields
  <2>4. Len(part) # 0
    BY <2>1, <2>3, WidthAssumption
  <2>5. /\ part # << >> /\ part[1][1] = k
        /\ part = Bytes(part[1][1], rfield, Len(part))
    BY <1>3, <1>8, <2>4, FieldIsOfItself
  <2>6. length = msgs[k].data
    BY <1>1, <1>4, <2>5 DEF DataLength
  <2> QED BY <1>1, <1>7, <2>2, <2>3, <2>6 DEF KnowsMore, OidSize, DataLength
<1> QED BY <1>1, <1>2, <1>6, <1>7, <1>8, GoesOnInPlace

LEMMA OtherInPlace ==
  ASSUME WInv, RecvOther
  PROVE  WInv'
<1>1. /\ HaveField /\ rfield > 2 /\ rfield # Len(Fields(header)) /\ GoOn(header)
      /\ header.op = "WRITE" => rfield # 5 /\ rfield # 8
  BY DEF RecvOther, IsLastField, Header, OidSize, DataLength
<1>2. header \in Known /\ TypeOK /\ rfield \in Nat
  BY DEF WInv, SendInv, TypeOK
<1>3. ASSUME NEW k \in Nat, FieldIsRead(k) PROVE KnowsMore(header, msgs[k])
  <2>1. k \in 1 .. Len(msgs) /\ ReadsMessage(k) /\ msgs[k] \in Messages
    BY <1>2, <1>3 DEF FieldIsRead, TypeOK
  <2>2. /\ header.op = msgs[k].op /\ rfield \in 1 .. Len(Fields(msgs[k]))
        /\ rfield > 5 => NameIsSent(msgs[k])
        /\ header.oid = IF rfield > 5 THEN AsInt16(msgs[k].oid) ELSE 0
        /\ header.data = IF rfield > 8 THEN msgs[k].data ELSE 0
    BY <1>1, <1>2, <2>1 DEF ReadsMessage, OpField, OidSize, DataLength
  <2>3. CASE header.op = "WRITE"
    <3>1. Len(Fields(msgs[k])) = 9 /\ Len(Fields(header)) = 9
      BY <2>2, <2>3, WriteFields
    <3>2. rfield \in 3 .. 8 /\ rfield # 5 /\ rfield # 8
      BY <1>1, <1>2, <2>2, <2>3, <3>1
    <3> QED BY <2>2, <3>1, <3>2 DEF KnowsMore, OidSize, DataLength
  <2>4. CASE header.op = "WRITE_ACK"
    <3>1. Len(Fields(msgs[k])) = 5 /\ Len(Fields(header)) = 5
      BY <2>2, <2>4, AckFields
    <3>2. rfield \in 3 .. 4
      BY <1>1, <1>2, <2>2, <3>1
    <3> QED BY <2>2, <3>1, <3>2 DEF KnowsMore, OidSize, DataLength
  <2> QED BY <2>1, <2>2, <2>3, <2>4, MessagesAssumption
<1> QED BY <1>1, <1>2, <1>3, GoesOnInPlace

\* The bytes of the fields before and of the last one.
IsJoined(bytes) ==
  /\ bytes \in Seq(Byte) /\ Len(bytes) = Len(got) + Len(part)
  /\ \A p \in 1 .. Len(got) : bytes[p] = got[p]
  /\ \A p \in 1 .. Len(part) : bytes[Len(got) + p] = part[p]

\* A message read to its end was sent to its end, and is as it was.
LEMMA LastIsWhole ==
  ASSUME WInv, rfield > 2, IsLastField(header),
         NEW base, IsBase(base), NEW k \in Nat, FieldIsRead(k), IsAt(base, k),
         NEW bytes, IsJoined(bytes)
  PROVE  /\ Whole(k) /\ IsImage(bytes, k)
         /\ NameFits(msgs[k]) => header = msgs[k]
         /\ Taken(base) = base[k + 1]
<1> DEFINE L == Len(msgs)
<1> USE DEF WInv
<1>1. /\ part \in Seq(Byte) /\ got \in Seq(Byte) /\ rfield \in Nat \ {0} /\ header \in Known
      /\ L \in Nat /\ Len(part) \in Nat /\ Len(got) \in Nat /\ Len(stream) \in Nat
      /\ out \in Seq(Nat) /\ Len(out) = L /\ msgs \in Seq(Messages)
      /\ k \in 1 .. L
  BY DEF SendInv, TypeOK, IsAt
<1>n. L \in Nat /\ k \in 1 .. L /\ Len(stream) \in Nat
  BY <1>1
<1>m. PICK m : m = msgs[k]
  OBVIOUS
<1>j. /\ Len(bytes) = Len(got) + Len(part)
      /\ \A p \in 1 .. Len(got) : bytes[p] = got[p]
      /\ \A p \in 1 .. Len(part) : bytes[Len(got) + p] = part[p]
  BY DEF IsJoined
<1>t. Exact(k) /\ Taken(base) = base[k] + Len(got) + Len(part)
  BY DEF IsAt
<1>2. m \in Messages /\ out[k] \in Nat /\ ReadsMessage(k) /\ Len(part) = Width(m, rfield)
  BY <1>1, <1>m DEF FieldIsRead
<1>3. /\ header.op = m.op /\ rfield \in 1 .. Len(Fields(m))
      /\ rfield > 5 => NameIsSent(m)
      /\ header.oid = IF rfield > 5 THEN AsInt16(m.oid) ELSE 0
      /\ header.data = IF rfield > 8 THEN m.data ELSE 0
      /\ Len(got) = SizeTo(m, rfield - 1)
      /\ \A f \in 1 .. rfield - 1 : \A b \in 1 .. Width(m, f) :
           got[SizeTo(m, f - 1) + b] = <<k, f, b>>
      /\ \A b \in 1 .. Len(part) : part[b] = <<k, rfield, b>>
  <2>1. rfield > 1
    BY <1>1
  <2> QED BY <1>m, <1>2, <2>1 DEF ReadsMessage, OpField, OidSize, DataLength
<1>4. m \in [op : {"WRITE", "WRITE_ACK"}, oid : Nat, data : Nat] /\ (m.op = "WRITE_ACK" => m.oid = 0 /\ m.data = 0)
  BY <1>2, MessagesAssumption
<1>5. rfield = Len(Fields(m)) /\ NameIsSent(m) /\ (NameFits(m) => header.oid = m.oid) /\ header.data = m.data
  <2>1. CASE m.op = "WRITE"
    <3>1. Len(Fields(m)) = 9 /\ Len(Fields(header)) = 9
      BY <1>3, <2>1, WriteFields
    <3>2. rfield = 9
      BY <3>1 DEF IsLastField
    <3>3. NameIsSent(m) /\ header.oid = AsInt16(m.oid) /\ header.data = m.data
      BY <1>3, <3>2
    <3>4. NameFits(m) => AsInt16(m.oid) = m.oid
      BY <1>4, SizeIs DEF NameFits
    <3> QED BY <3>1, <3>2, <3>3, <3>4
  <2>2. CASE m.op = "WRITE_ACK"
    <3>1. Len(Fields(m)) = 5 /\ Len(Fields(header)) = 5
      BY <1>3, <2>2, AckFields
    <3>2. rfield = 5
      BY <3>1 DEF IsLastField
    <3>3. header.oid = m.oid /\ header.data = m.data
      BY <1>3, <1>4, <2>2, <3>2
    <3>4. NameIsSent(m)
      <4>1. SentUpTo(m, Len(Fields(m)))
        BY <3>1 DEF SentUpTo, OidSize
      <4> QED BY <1>2, <4>1, LastIsSent
    <3> QED BY <3>1, <3>2, <3>3, <3>4
  <2> QED BY <1>4, <2>1, <2>2
<1>6. NameFits(m) => header = m
  <2> SUFFICES ASSUME NameFits(m) PROVE header = m
    OBVIOUS
  <2>1. header \in [op : {"none"} \cup Ops, oid : Nat, data : Nat]
    BY <1>1 DEF Known
  <2>2. header.op = m.op /\ header.oid = m.oid /\ header.data = m.data
    BY <1>3, <1>5
  <2>3. header = [op |-> header.op, oid |-> header.oid, data |-> header.data]
    BY <2>1
  <2>4. m = [op |-> m.op, oid |-> m.oid, data |-> m.data]
    BY <1>4
  <2> QED BY <2>2, <2>3, <2>4
<1>7. SentUpTo(m, rfield)
  BY <1>5 DEF SentUpTo
<1>8. /\ SizeTo(m, rfield - 1) \in Nat /\ Width(m, rfield) \in Nat
      /\ SizeTo(m, rfield) = SizeTo(m, rfield - 1) + Width(m, rfield)
  BY <1>2, <1>3, <1>7, SizeGrowsBy
<1>9. Size(m) = SizeTo(m, rfield)
  BY <1>5 DEF Size
<1>10. Len(bytes) = Size(m) /\ Size(m) \in Nat
  BY <1>j, <1>2, <1>3, <1>8, <1>9
<1>11. ASSUME NEW f \in 1 .. Len(Fields(m)), NEW b \in 1 .. Width(m, f)
       PROVE  bytes[SizeTo(m, f - 1) + b] = <<k, f, b>>
  <2>1. CASE f = rfield
    <3>1. b \in 1 .. Len(part) /\ SizeTo(m, f - 1) = Len(got)
      BY <1>2, <1>3, <2>1
    <3>2. bytes[Len(got) + b] = part[b] /\ part[b] = <<k, rfield, b>>
      BY <1>j, <1>3, <3>1
    <3> QED BY <2>1, <3>1, <3>2
  <2>2. CASE f # rfield
    <3>1. f \in 1 .. rfield /\ f \in Nat
      BY <1>5
    <3>2. f \in 1 .. rfield - 1 /\ f - 1 \in 0 .. rfield - 1 /\ f \in 0 .. rfield - 1 /\ rfield - 1 \in 0 .. rfield
      BY <1>1, <2>2, <3>1
    <3>3. got[SizeTo(m, f - 1) + b] = <<k, f, b>>
      BY <1>3, <3>2
    <3>4. SentUpTo(m, f) /\ SentUpTo(m, rfield - 1)
      BY <1>5 DEF SentUpTo
    <3>5. Width(m, f) \in Nat /\ SizeTo(m, f - 1) \in Nat /\ SizeTo(m, f) = SizeTo(m, f - 1) + Width(m, f)
      BY <1>2, <3>4, SizeGrowsBy
    <3>6. SizeTo(m, f) <= SizeTo(m, rfield - 1)
      <4>1. rfield - 1 \in 0 .. Len(Fields(m))
        BY <1>5, <3>2
      <4> QED BY <1>2, <3>2, <3>4, <4>1, SizesGrow
    <3>7. SizeTo(m, f - 1) + b \in 1 .. Len(got)
      BY <1>3, <1>8, <3>5, <3>6
    <3> QED BY <1>j, <3>3, <3>7
  <2> QED BY <2>1, <2>2
<1>12. IsImage(bytes, k)
  BY <1>m, <1>10, <1>11 DEF IsImage, Width
<1>13. /\ base[k] \in Nat /\ base[k + 1] = base[k] + out[k]
       /\ k = L => Taken(base) <= base[k + 1]
  <2>1. base \in [1 .. L + 1 -> Nat] /\ \A i \in 1 .. L : base[i + 1] = base[i] + out[i]
    BY DEF IsBase
  <2>2. PICK c \in Nat, l \in Nat : c = base[L + 1] /\ l = Len(stream)
    <3>1. L + 1 \in 1 .. L + 1
      BY <1>n
    <3>2. base[L + 1] \in Nat
      BY <2>1, <3>1
    <3> QED BY <1>n, <3>2
  <2>3. Taken(base) = c - l
    BY <2>2 DEF Taken
  <2>4. Taken(base) <= base[L + 1]
    BY <2>2, <2>3
  <2>5. base[k] \in Nat
    <3>1. k \in 1 .. L + 1
      BY <1>n
    <3> QED BY <2>1, <3>1
  <2> QED BY <1>n, <2>1, <2>4, <2>5
<1>14. Taken(base) = base[k] + Size(m)
  <2>1. PICK c \in Nat : c = base[k]
    BY <1>13
  <2>2. Taken(base) = c + Len(got) + Len(part)
    BY <1>t, <2>1
  <2>3. Size(m) = Len(got) + Len(part)
    BY <1>j, <1>10
  <2> QED BY <1>1, <2>1, <2>2, <2>3
<1>16. out[k] = Size(m)
  <2>1. CASE InProgress(k)
    <3>1. k = L /\ lock # NoThread /\ out[k] = SizeTo(m, field[lock] - 1)
      BY <1>m, <1>t, <2>1 DEF Exact, InProgress
    <3>2. field[lock] \in 1 .. Len(Fields(m))
      BY <1>m, <3>1 DEF SendInv, LockHeld
    <3>3. field[lock] - 1 \in 0 .. Len(Fields(m))
      <4>1. PICK last \in Nat : last = Len(Fields(m))
        BY <1>2, WidthsAre
      <4>2. field[lock] \in 1 .. last
        BY <3>2, <4>1
      <4>3. field[lock] - 1 \in 0 .. last
        BY <4>2
      <4> QED BY <4>1, <4>3
    <3>4. out[k] <= Size(m)
      BY <1>2, <1>5, <3>1, <3>3, SizeIsMost
    <3>5. base[k] + Size(m) <= base[k] + out[k]
      BY <1>13, <1>14, <3>1
    <3> QED BY <1>2, <1>10, <1>13, <3>4, <3>5
  <2>2. CASE ~InProgress(k)
    BY <1>m, <1>t, <2>2 DEF Exact, Whole
  <2> QED BY <2>1, <2>2
<1>17. Whole(k)
  BY <1>m, <1>5, <1>16 DEF Whole
<1>18. Taken(base) = base[k + 1]
  BY <1>13, <1>14, <1>16
<1> QED BY <1>m, <1>6, <1>12, <1>17, <1>18


LEMMA LastInPlace ==
  ASSUME WInv, RecvLast
  PROVE  WInv'
<1> DEFINE L == Len(msgs)
           new == [bytes |-> got \o part, message |-> header]
<1> USE DEF WInv
<1>k. PICK k \in Nat \ {0} : k = Len(received) + 1
  BY DEF SendInv, TypeOK
<1>1. /\ HaveField /\ rfield > 2 /\ rfield = Len(Fields(header))
      /\ received' = Append(received, new)
      /\ header' = Unread /\ rfield' = 1 /\ part' = << >> /\ got' = << >>
      /\ UNCHANGED <<stream, send_vars>>
      /\ UNCHANGED <<state, lock, msg, field, msgs, out, success>>
  BY DEF RecvLast, IsLastField, Header, send_vars
<1>2. /\ part \in Seq(Byte) /\ got \in Seq(Byte) /\ rfield \in Nat \ {0} /\ header \in Known
      /\ received \in Seq([bytes : Seq(Byte), message : Known])
      /\ L \in Nat /\ Len(part) \in Nat /\ Len(got) \in Nat /\ Len(received) \in Nat
      /\ out \in Seq(Nat) /\ Len(out) = L /\ msgs \in Seq(Messages)
  BY DEF SendInv, TypeOK
<1>r. \A p \in 1 .. Len(received) : received[p] \in [bytes : Seq(Byte), message : Known]
  <2>1. PICK S : S = [bytes : Seq(Byte), message : Known]
    OBVIOUS
  <2>2. received \in Seq(S)
    BY <1>2, <2>1
  <2>3. \A p \in 1 .. Len(received) : received[p] \in S
    BY <2>2
  <2> QED BY <2>1, <2>3
<1>3. /\ got \o part \in Seq(Byte) /\ Len(got \o part) = Len(got) + Len(part)
      /\ \A p \in 1 .. Len(got) : (got \o part)[p] = got[p]
      /\ \A p \in 1 .. Len(part) : (got \o part)[Len(got) + p] = part[p]
  BY <1>2, Joined
<1>4. PICK bytes : bytes = got \o part
  OBVIOUS
<1>5. /\ bytes \in Seq(Byte) /\ Len(bytes) = Len(got) + Len(part)
      /\ \A p \in 1 .. Len(got) : bytes[p] = got[p]
      /\ \A p \in 1 .. Len(part) : bytes[Len(got) + p] = part[p]
      /\ new = [bytes |-> bytes, message |-> header]
  BY <1>3, <1>4
<1>6. new \in [bytes : Seq(Byte), message : Known] /\ new.bytes = bytes /\ new.message = header
  BY <1>2, <1>5
<1>7. /\ received' \in Seq([bytes : Seq(Byte), message : Known]) /\ Len(received') = k
      /\ \A i \in 1 .. Len(received) : received'[i] = received[i]
      /\ received'[k] = new
  <2> HIDE DEF new
  <2> QED BY <1>1, <1>k, <1>2, <1>6
<1>8. Unread \in Known
  BY DEF Unread, Known
<1>9. TypeOK'
  <2> HIDE DEF new
  <2> QED BY <1>1, <1>7, <1>8 DEF SendInv, TypeOK
<1>10. BytesAreSent'
  BY <1>1 DEF SendInv, BytesAreSent
<1>11. SendInv'
  BY <1>1, <1>9, <1>10, SendersStay
<1>12. \A i \in Int : Exact(i)' = Exact(i)
  BY <1>1 DEF Exact, InProgress, Whole
<1>13. PICK base : IsBase(base) /\ StreamInPlace(base) /\ ReaderInPlace(base)
  BY DEF InPlace
<1>14. IsBase(base)' /\ Taken(base)' = Taken(base)
  BY <1>1, <1>13 DEF IsBase, Taken
<1>15. StreamInPlace(base)'
  <2> SUFFICES ASSUME NEW p \in 1 .. Len(stream)
               PROVE  \E i, f, b \in Nat : ByteInPlace(base, p, i, f, b)'
    BY <1>1 DEF StreamInPlace
  <2>1. PICK i, f, b \in Nat : ByteInPlace(base, p, i, f, b)
    BY <1>13 DEF StreamInPlace
  <2>2. Exact(i)' = Exact(i)
    BY <1>12
  <2>3. ByteInPlace(base, p, i, f, b)'
    BY <1>1, <1>14, <2>1, <2>2 DEF ByteInPlace
  <2> QED BY <2>3
<1> HIDE DEF new
<1>16. ASSUME ExactTo(k)
       PROVE  /\ k \in 1 .. L /\ Whole(k) /\ IsImage(bytes, k)
              /\ NameFits(msgs[k]) => header = msgs[k]
              /\ Taken(base) = base[k + 1]
  <2>1. k \in 1 .. L /\ FieldIsRead(k) /\ Taken(base) = base[k] + Len(got) + Len(part)
    BY <1>1, <1>k, <1>13, <1>16, FieldIsOfAMessage
  <2>2. Exact(k)
    BY <1>2, <1>16, <2>1 DEF ExactTo
  <2>3. IsAt(base, k)
    BY <2>1, <2>2 DEF IsAt, FieldIsRead
  <2>4. IsJoined(bytes)
    BY <1>5 DEF IsJoined
  <2>5. rfield > 2 /\ IsLastField(header)
    BY <1>1 DEF IsLastField
  <2> QED BY <1>2, <1>13, <2>1, <2>3, <2>4, <2>5, LastIsWhole
<1>17. \A i \in Int : (\A j \in 1 .. i : j <= L => Exact(j)') => ExactTo(i)
  BY <1>12 DEF ExactTo
<1>18. ReadAsSent'
  <2> SUFFICES ASSUME NEW i \in 1 .. k, \A j \in 1 .. i : j <= L => Exact(j)'
               PROVE  /\ i <= L /\ Whole(i)'
                      /\ IsImage(received[i].bytes, i)'
                      /\ NameFits(msgs[i]) => received'[i].message = msgs[i]
    BY <1>1, <1>7 DEF ReadAsSent, ExactTo
  <2>1. ExactTo(i)
    BY <1>17
  <2>2. PICK was \in Seq(Byte), known \in Known :
          /\ received'[i].bytes = was /\ received'[i].message = known
          /\ i \in 1 .. L /\ Whole(i)
          /\ IsImage(was, i)
          /\ NameFits(msgs[i]) => known = msgs[i]
    <3>1. CASE i = k
      <4>1. /\ i \in 1 .. L /\ Whole(i) /\ IsImage(bytes, i)
            /\ NameFits(msgs[i]) => header = msgs[i]
        BY <1>16, <2>1, <3>1
      <4>2. received'[i].bytes = bytes /\ received'[i].message = header
        BY <1>6, <1>7, <3>1
      <4> QED BY <1>2, <1>5, <4>1, <4>2
    <3>2. CASE i # k
      <4>1. i \in 1 .. Len(received) /\ received'[i] = received[i]
        <5>1. Len(received) \in Nat /\ Len(received) = k - 1
          BY <1>k, <1>2
        <5>2. i \in 1 .. k - 1
          BY <3>2
        <5>3. i \in 1 .. Len(received)
          BY <5>1, <5>2
        <5> QED BY <1>7, <5>3
      <4>2. /\ i <= L /\ Whole(i)
            /\ IsImage(received[i].bytes, i)
            /\ NameFits(msgs[i]) => received[i].message = msgs[i]
        BY <2>1, <4>1 DEF ReadAsSent
      <4>3. received[i].bytes \in Seq(Byte) /\ received[i].message \in Known
        <5>1. received[i] \in [bytes : Seq(Byte), message : Known]
          BY <1>r, <4>1
        <5> QED BY <5>1
      <4> QED BY <1>2, <4>1, <4>2, <4>3
    <3> QED BY <3>1, <3>2
  <2>3. Whole(i)' /\ IsImage(was, i)'
    BY <1>1, <2>2 DEF Whole, IsImage
  <2>4. IsImage(received[i].bytes, i)' <=> IsImage(was, i)'
    BY <2>2 DEF IsImage
  <2> QED BY <2>2, <2>3, <2>4
<1>19. ReaderInPlace(base)'
  <2>1. PICK j \in Nat : j = k + 1
    OBVIOUS
  <2>2. (Len(received) + 1)' = j
    BY <1>7, <2>1
  <2> SUFFICES ASSUME \A i \in 1 .. j : i <= L => Exact(i)'
               PROVE  /\ j <= L + 1
                      /\ Taken(base) = base[j] + Len(got') + Len(part')
                      /\ j <= L => ReadsMessage(j)'
    BY <1>1, <1>14, <2>2 DEF ReaderInPlace, ExactTo
  <2>3. ExactTo(k)
    BY <1>17, <2>1
  <2>4. k \in 1 .. L /\ Taken(base) = base[j]
    BY <1>16, <2>1, <2>3
  <2>5. j <= L + 1 /\ Len(got') = 0 /\ Len(part') = 0 /\ base[j] \in Nat
    <3>1. j \in 1 .. L + 1
      BY <1>2, <2>1, <2>4
    <3>2. base[j] \in Nat
      BY <1>13, <3>1 DEF IsBase
    <3> QED BY <1>1, <3>1, <3>2
  <2>6. ASSUME j <= L PROVE ReadsMessage(j)'
    <3>1. msgs[j] \in Messages
      BY <1>2, <2>1, <2>6
    <3>2. Len(Fields(msgs[j])) \in {5, 9} /\ Width(msgs[j], 1) = 1 /\ SizeTo(msgs[j], 0) = 0
      BY <3>1, WidthsAre, SizeToIs DEF OpField
    <3>3. 1 \in 1 .. Len(Fields(msgs[j]))
      <4>1. \A last \in {5, 9} : 1 \in 1 .. last
        OBVIOUS
      <4> QED BY <3>2, <4>1
    <3> QED BY <1>1, <3>2, <3>3 DEF ReadsMessage, Unread, OpField, OidSize, DataLength
  <2> QED BY <2>4, <2>5, <2>6
<1> QED BY <1>11, <1>14, <1>15, <1>18, <1>19 DEF InPlace

----------------------------------------------------------------------------
LEMMA WInvInit == Init => WInv
<1> SUFFICES ASSUME Init PROVE WInv
  OBVIOUS
<1>1. Len(msgs) = 0 /\ Len(stream) = 0 /\ Len(received) = 0
  BY DEF Init
<1>2. TypeOK
  BY DEF Init, TypeOK, Unread, Known
<1>3. BytesAreSent /\ LockHeld /\ SuccessIsKnown /\ FailedIsCut
  BY <1>1, NoThreadAssumption DEF Init, BytesAreSent, LockHeld, SuccessIsKnown, FailedIsCut
<1>4. PICK base : base = [i \in 1 .. 1 |-> 0]
  OBVIOUS
<1>5. IsBase(base)
  BY <1>1, <1>4 DEF IsBase
<1>6. Taken(base) = 0
  BY <1>1, <1>4 DEF Taken
<1>7. StreamInPlace(base)
  BY <1>1 DEF StreamInPlace
<1>8. ReaderInPlace(base)
  <2>1. base[1] = 0
    BY <1>4
  <2> QED BY <1>1, <1>6, <2>1 DEF Init, ReaderInPlace
<1>9. ReadAsSent
  BY <1>1 DEF ReadAsSent
<1> QED BY <1>2, <1>3, <1>5, <1>7, <1>8, <1>9 DEF WInv, SendInv, InPlace

LEMMA WInvStep == WInv /\ [Next]_vars => WInv'
<1> SUFFICES ASSUME WInv, [Next]_vars PROVE WInv'
  OBVIOUS
<1>1. SendInv /\ TypeOK /\ LockHeld
  BY DEF WInv, SendInv
<1>2. ASSUME NEW t \in Threads, NEW n, GoesOn(t, n) \/ Fails(t, n) PROVE WInv'
  <2>1. Sends(t, n)
    BY <1>2 DEF GoesOn, Fails
  <2>2. SendInv' /\ \A i \in 1 .. Len(msgs) : Exact(i)' => Exact(i)
    BY <1>1, <1>2, GoesOnExact, FailsExact
  <2>3. InPlace' /\ ReadAsSent'
    BY <2>1, <2>2, SendsInPlace
  <2> QED BY <2>2, <2>3 DEF WInv
<1>3. ASSUME NEW t \in Threads, NEW m \in Messages, BeginMessage(t, m) PROVE WInv'
  <2>1. SendInv'
    BY <1>1, <1>3, BeginExact
  <2>2. InPlace' /\ ReadAsSent'
    BY <1>3, BeginsInPlace
  <2> QED BY <2>1, <2>2 DEF WInv
<1>4. ASSUME NEW t \in Threads, SendField(t) PROVE WInv'
  BY <1>1, <1>2, <1>4, SendCases
<1>5. ASSUME NEW t \in Threads, NEW n \in 0 .. IntWidth, SendFieldShort(t, n) PROVE WInv'
  BY <1>1, <1>2, <1>5, SendCases
<1>6. ASSUME NEW t \in Threads, NEW n \in 0 .. IntWidth, SendFieldFails(t, n) PROVE WInv'
  BY <1>1, <1>2, <1>6, SendCases
<1>7. ASSUME NEW n \in 1 .. IntWidth, RecvBytes(n) PROVE WInv'
  <2>1. n \in Nat
    BY WidthAssumption
  <2> QED BY <1>7, <2>1, ReceivesInPlace
<1>8. CASE ConnClosed \/ ConnReset
  BY <1>8, StopsInPlace DEF ConnClosed, ConnReset
<1>9. CASE RecvField
  BY <1>9, OpInPlace, LogIdInPlace, OidSizeInPlace, DataLengthInPlace, OtherInPlace, LastInPlace
     DEF RecvField
<1>10. CASE UNCHANGED vars
  BY <1>10, StopsInPlace DEF vars, recv_vars
<1> QED BY <1>3, <1>4, <1>5, <1>6, <1>7, <1>8, <1>9, <1>10 DEF Next

\* A message that is sent whole, or whose turn it is, was sent as it should.
LEMMA WholeIsExact ==
  ASSUME SendInv, NEW i \in Nat, \A j \in 1 .. i : j <= Len(msgs) => Whole(j)
  PROVE  ExactTo(i)
<1> SUFFICES ASSUME NEW j \in 1 .. i, j <= Len(msgs), InProgress(j)
             PROVE  out[j] = SizeTo(msgs[j], field[lock] - 1)
  BY DEF ExactTo, Exact
<1> DEFINE m == msgs[j]
           f == field[lock]
<1>1. NameIsSent(m) /\ out[j] = Size(m) /\ j = Len(msgs) /\ lock # NoThread
  BY DEF Whole, InProgress
<1>2. m \in Messages /\ f \in 1 .. Len(Fields(m)) /\ out[j] <= SizeTo(m, f - 1)
  BY <1>1 DEF SendInv, TypeOK, LockHeld
<1>3. f - 1 \in 0 .. Len(Fields(m))
  <2>1. Len(Fields(m)) \in Nat
    BY <1>2, WidthsAre
  <2> QED BY <1>2, <2>1
<1>4. SizeTo(m, f - 1) \in Nat /\ Size(m) \in Nat /\ SizeTo(m, f - 1) <= Size(m)
  BY <1>1, <1>2, <1>3, SizeIsMost
<1> QED BY <1>1, <1>2, <1>4

\* Whatever is cut off, fails or is in progress behind it, and whichever thread
\* wrote it: the messages the other end reads (cceph_messenger_read_msg) are
\* those that were sent with success (write_message), each once, whole and in
\* their order, as long as no send was short unseen; and with the names they
\* were given, if those fit the length field.
THEOREM ReadsWhatWasSent == Spec => []ReceivedAsSent
<1>1. WInv => ReceivedAsSent
  <2> SUFFICES ASSUME WInv, NEW i \in 1 .. Len(received),
                      \A j \in 1 .. i : j <= Len(msgs) => Whole(j)
               PROVE  /\ i \in success \/ msgs[i].data = 0
                      /\ IsImage(received[i].bytes, i)
                      /\ NameFits(msgs[i]) => received[i].message = msgs[i]
    BY DEF ReceivedAsSent
  <2>1. SendInv /\ ReadAsSent /\ Len(msgs) \in Nat /\ Len(received) \in Nat
    BY DEF WInv, SendInv, TypeOK
  <2>2. ExactTo(i)
    BY <2>1, WholeIsExact
  <2>3. /\ i <= Len(msgs) /\ Whole(i)
        /\ IsImage(received[i].bytes, i)
        /\ NameFits(msgs[i]) => received[i].message = msgs[i]
    BY <2>1, <2>2 DEF ReadAsSent
  <2>4. i \in 1 .. Len(msgs)
    BY <2>1, <2>3
  <2>5. i \in success \/ msgs[i].data = 0
    BY <2>1, <2>3, <2>4 DEF SendInv, FailedIsCut
  <2> QED BY <2>3, <2>5
<1> QED BY <1>1, WInvInit, WInvStep, PTL DEF Spec
=============================================================================
