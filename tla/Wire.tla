-------------------------------- MODULE Wire --------------------------------
(***************************************************************************)
(* Messages on one connection, in one direction (message/io.c,             *)
(* msg_header.c, msg_write_obj.c and their callers in messenger.c).        *)
(* Threads write messages field by field, one send each, under conn->lock; *)
(* at the other end the worker that owns the socket reads them field by    *)
(* field, one recv loop each.                                              *)
(*                                                                         *)
(* A byte on its way is <<i, f, k>>: byte k of field f of the i-th message *)
(* written.  An integer has IntWidth bytes.  A value read from other bytes *)
(* than its own can be any value.                                          *)
(***************************************************************************)
EXTENDS Integers, Sequences

CONSTANTS Threads,    \* threads that send on the connection
          NoThread,
          Messages,   \* what they send: [op, oid, data], the last two as lengths
          MaxMsgs,    \* bound: messages written in all
          IntWidth,   \* bytes of an int16_t, int32_t or int64_t
          SizeLimit   \* an int16_t holds -SizeLimit .. SizeLimit - 1

ASSUME NoThreadAssumption == NoThread \notin Threads
ASSUME WidthAssumption == IntWidth \in Nat \ {0} /\ SizeLimit \in Nat \ {0}

\* The client sends writes, the OSD acks.
ASSUME MessagesAssumption ==
  \A m \in Messages : /\ m \in [op : {"WRITE", "WRITE_ACK"}, oid : Nat, data : Nat]
                      /\ m.op = "WRITE_ACK" => m.oid = 0 /\ m.data = 0

VARIABLES
  \* the sending end
  state,      \* conn->state: "OPEN" or "CLOSED"
  lock,       \* conn->lock: its holder or NoThread
  msg,        \* msg[t]: number of the message t writes, 0 if none
  field,      \* field[t]: the field t sends next
  msgs,       \* the messages written so far, the last one perhaps not to its end
  out,        \* out[i]: bytes of message i that send has taken
  success,    \* the messages for which send_msg has returned 0
  \* the socket
  stream,     \* bytes taken by send and not yet by recv
  \* the receiving end
  reader,     \* "reading", "closed", "dropped" or "ended"
  header,     \* what the worker knows of the message it reads
  rfield,     \* the field it reads
  part,       \* the bytes of that field it has
  got,        \* the bytes of the fields before
  received    \* the messages read: their bytes and values

send_vars == <<state, lock, msg, field, msgs, out, success>>
recv_vars == <<reader, header, rfield, part, got, received>>
vars == <<send_vars, stream, recv_vars>>

----------------------------------------------------------------------------
\* The format.  A field is sent by one call of send; a short send of a checked
\* field returns an error, of an unchecked one a number >= 0 (io.c:27, 36, 45),
\* which CCEPH_SEND_FIELD takes for success.
Checked(width)   == [width |-> width, checked |-> TRUE]
Unchecked(width) == [width |-> width, checked |-> FALSE]

\* int16_t size = strlen(string)
AsInt16(n) == ((n + SizeLimit) % (2 * SizeLimit)) - SizeLimit

\* op, log_id
Header == <<Checked(1), Unchecked(IntWidth)>>

\* client_id, req_id, then oid and its size, offset, data and its length; or
\* the result of an ack.
Body(m) == CASE m.op = "WRITE" ->
                  <<Unchecked(IntWidth), Unchecked(IntWidth),
                    Checked(IntWidth), Checked(AsInt16(m.oid)), Unchecked(IntWidth),
                    Checked(IntWidth), Checked(m.data)>>
             [] m.op = "WRITE_ACK" -> <<Unchecked(IntWidth), Unchecked(IntWidth), Checked(1)>>
             [] OTHER -> << >>

Fields(m) == Header \o Body(m)

OpField     == 1
OidSize     == 5    \* in a WRITE
DataLength  == 8

\* The bytes of the first n fields, and of all of them.
SizeTo(m, n) ==
  LET to[f \in 0 .. Len(Fields(m))] == IF f = 0 THEN 0 ELSE to[f - 1] + Fields(m)[f].width
  IN  to[n]
Size(m) == SizeTo(m, Len(Fields(m)))

\* The first n bytes of field f of message i.
Bytes(i, f, n) == [k \in 1 .. n |-> <<i, f, k>>]

----------------------------------------------------------------------------
Unread == [op |-> "none", oid |-> 0, data |-> 0]

Init == /\ state = "OPEN"
        /\ lock = NoThread
        /\ msg = [t \in Threads |-> 0]
        /\ field = [t \in Threads |-> 0]
        /\ msgs = << >>
        /\ out = << >>
        /\ success = {}
        /\ stream = << >>
        /\ reader = "reading"
        /\ header = Unread
        /\ rfield = 1
        /\ part = << >>
        /\ got = << >>
        /\ received = << >>

----------------------------------------------------------------------------
\* cceph_messenger_send_msg and write_message

\* conn->lock is held for the whole message; conn->state is looked at under it.
BeginMessage(t, m) ==
  /\ msg[t] = 0
  /\ lock = NoThread
  /\ state = "OPEN"
  /\ Len(msgs) < MaxMsgs
  /\ msgs' = Append(msgs, m)
  /\ out' = Append(out, 0)
  /\ msg' = [msg EXCEPT ![t] = Len(msgs) + 1]
  /\ field' = [field EXCEPT ![t] = 1]
  /\ lock' = t
  /\ UNCHANGED <<state, success, stream, recv_vars>>

Writing(t) == msg[t] # 0
Current(t) == Fields(msgs[msg[t]])[field[t]]

\* send takes n bytes of the field.
Takes(t, n) == /\ stream' = stream \o Bytes(msg[t], field[t], n)
               /\ out' = [out EXCEPT ![msg[t]] = @ + n]

\* The call for the message of t returns.
Unlocks(t) == /\ lock' = NoThread
              /\ msg' = [msg EXCEPT ![t] = 0]
              /\ field' = [field EXCEPT ![t] = 0]

\* The next field, or, after the last one, the return of 0.
NextField(t) ==
  IF field[t] < Len(Fields(msgs[msg[t]]))
  THEN /\ field' = [field EXCEPT ![t] = @ + 1]
       /\ UNCHANGED <<lock, msg, success>>
  ELSE Unlocks(t) /\ success' = success \cup {msg[t]}

SendField(t) ==
  /\ Writing(t)
  /\ Current(t).width >= 0
  /\ Takes(t, Current(t).width)
  /\ NextField(t)
  /\ UNCHANGED <<state, msgs, recv_vars>>

\* A short send that is not seen; bound: the first on this connection.
SendFieldShort(t, n) ==
  /\ Writing(t)
  /\ \A i \in 1 .. Len(msgs) :
       out[i] >= SizeTo(msgs[i], IF i = msg[t] THEN field[t] - 1 ELSE Len(Fields(msgs[i])))
  /\ ~Current(t).checked
  /\ n \in 1 .. Current(t).width - 1
  /\ Takes(t, n)
  /\ NextField(t)
  /\ UNCHANGED <<state, msgs, recv_vars>>

\* mutation: the connection of a failed write is not closed.
SendFieldFailsOpen(t, n) ==
  /\ Writing(t)
  /\ n = 0 \/ (Current(t).checked /\ n < Current(t).width)
  /\ Takes(t, n)
  /\ Unlocks(t)
  /\ UNCHANGED <<state, msgs, success, recv_vars>>

\* An error of send, or a short send of a checked field: the connection is
\* closed.  A negative size asks send for more bytes than there are.
SendFieldFails(t, n) ==
  /\ Writing(t)
  /\ n = 0 \/ (Current(t).checked /\ n < Current(t).width)
  /\ Takes(t, n)
  /\ Unlocks(t)
  /\ state' = "CLOSED"
  /\ UNCHANGED <<msgs, success, recv_vars>>

----------------------------------------------------------------------------
\* cceph_recv_from_conn

Reading == reader = "reading"
Wanted  == Fields(header)[rfield].width

\* One recv; the loop repeats it until the field is complete, and after EAGAIN.
RecvBytes(n) ==
  /\ Reading
  /\ n \in 1 .. Wanted - Len(part)
  /\ n <= Len(stream)
  /\ part' = part \o SubSeq(stream, 1, n)
  /\ stream' = SubSeq(stream, n + 1, Len(stream))
  /\ UNCHANGED <<send_vars, reader, header, rfield, got, received>>

\* recv returns 0, or an error: CCEPH_ERR_CONN_CLOSED, and read_msg closes.
ConnClosed ==
  /\ Reading
  /\ Len(part) < Wanted
  /\ stream = << >> /\ state = "CLOSED"
  /\ reader' = "closed"
  /\ UNCHANGED <<send_vars, stream, header, rfield, part, got, received>>

\* The connection is reset at any moment.
ConnReset ==
  /\ Reading
  /\ reader' = "closed"
  /\ UNCHANGED <<send_vars, stream, header, rfield, part, got, received>>

----------------------------------------------------------------------------
\* cceph_messenger_read_msg: the fields one after the other

\* mutation: what one recv returns is taken for the field.
HaveFieldShort == Reading /\ (part # << >> \/ Wanted = 0)

HaveField == Reading /\ Len(part) = Wanted

\* The value of the field just read: v(m) if its bytes are field f of a message
\* m, one of others if not.
Values(f, v(_), others) ==
  IF part # << >> /\ part = Bytes(part[1][1], f, Len(part))
  THEN {v(msgs[part[1][1]])} ELSE others

Ops == {"WRITE", "WRITE_ACK", "READ", "unknown"}

\* On to the next field of the message, of which more is known now.
GoOn(known) ==
  /\ header' = known
  /\ rfield' = rfield + 1
  /\ got' = got \o part
  /\ part' = << >>
  /\ UNCHANGED <<send_vars, stream, reader, received>>

\* The worker is done with the message; it reads on only if it re-arms.
StopReading(why) ==
  /\ reader' = why
  /\ UNCHANGED <<send_vars, stream, header, rfield, part, got, received>>

IsLastField(m) == rfield = Len(Fields(m))

RecvOp ==
  /\ HaveField
  /\ rfield = OpField
  /\ \E op \in Values(OpField, LAMBDA m : m.op, Ops) : GoOn([header EXCEPT !.op = op])

\* log_id ends the header.  For an op that is not implemented message stays NULL
\* (the assert of messenger.c:144 holds) and is written to.
RecvLogId ==
  /\ HaveField
  /\ rfield = Len(Header)
  /\ \/ header.op \in {"WRITE", "WRITE_ACK"} /\ GoOn(header)
     \/ header.op = "READ" /\ StopReading("ended")
     \/ header.op = "unknown" /\ StopReading("dropped")   \* neither closed nor re-armed

\* malloc(*size + 1), and a '\0' behind the string: a negative size writes
\* outside of it.
RecvOidSize ==
  /\ HaveField
  /\ header.op = "WRITE" /\ rfield = OidSize
  /\ \E size \in Values(OidSize, LAMBDA m : AsInt16(m.oid), -1 .. 1) :
       IF size < 0 THEN StopReading("ended") ELSE GoOn([header EXCEPT !.oid = size])

RecvDataLength ==
  /\ HaveField
  /\ header.op = "WRITE" /\ rfield = DataLength
  /\ \E length \in Values(DataLength, LAMBDA m : m.data, 0 .. 1) :
       GoOn([header EXCEPT !.data = length])

RecvOther ==
  /\ HaveField
  /\ rfield > Len(Header) /\ ~IsLastField(header)
  /\ ~(header.op = "WRITE" /\ rfield \in {OidSize, DataLength})
  /\ GoOn(header)

\* The message is complete: the handler gets it, and the worker re-arms.
RecvLast ==
  /\ HaveField
  /\ rfield > Len(Header) /\ IsLastField(header)
  /\ received' = Append(received, [bytes |-> got \o part, message |-> header])
  /\ header' = Unread
  /\ rfield' = 1
  /\ part' = << >>
  /\ got' = << >>
  /\ UNCHANGED <<send_vars, stream, reader>>

RecvField == RecvOp \/ RecvLogId \/ RecvOidSize \/ RecvDataLength \/ RecvOther \/ RecvLast

----------------------------------------------------------------------------
Next ==
  \/ \E t \in Threads :
       \/ \E m \in Messages : BeginMessage(t, m)
       \/ SendField(t)
       \/ \E n \in 0 .. IntWidth : SendFieldShort(t, n) \/ SendFieldFails(t, n)
  \/ \E n \in 1 .. IntWidth : RecvBytes(n)
  \/ ConnClosed \/ ConnReset \/ RecvField

Spec == Init /\ [][Next]_vars

\* Both ends run, and the kernel takes and delivers bytes, or fails.
FairSpec ==
  /\ Spec
  /\ \A t \in Threads : WF_vars(SendField(t) \/ SendFieldFails(t, 0))
  /\ WF_vars(ConnClosed \/ RecvField \/ \E n \in 1 .. IntWidth : RecvBytes(n))

----------------------------------------------------------------------------
\* A name with a negative size is never sent.
NameIsSent(m) == AsInt16(m.oid) >= 0

\* All bytes of message i are in the hands of the kernel.
Whole(i) == NameIsSent(msgs[i]) /\ out[i] = Size(msgs[i])

\* bytes is message i: its fields one behind the other, each with all its bytes.
IsImage(bytes, i) ==
  LET m == msgs[i]
  IN  /\ Len(bytes) = Size(m)
      /\ \A f \in 1 .. Len(Fields(m)) : \A k \in 1 .. Fields(m)[f].width :
           bytes[SizeTo(m, f - 1) + k] = <<i, f, k>>

NameFits(m) == m.oid < SizeLimit

\* Whatever is cut off, fails or is in progress behind it, and whichever thread
\* wrote it: the messages the other end reads are those that were sent with
\* success, each once, whole and in their order, as long as no send was short
\* unseen; and with the names they were given, if those fit the length field.
\* (The empty data of a write is a send that may fail when all has arrived.)
ReceivedAsSent ==
  \A i \in 1 .. Len(received) :
     (\A j \in 1 .. i : j <= Len(msgs) => Whole(j)) =>
        /\ i \in success \/ msgs[i].data = 0
        /\ IsImage(received[i].bytes, i)
        /\ NameFits(msgs[i]) => received[i].message = msgs[i]

\* messenger.h:89: "if success return 0, else -1 and close the conn".  When
\* send_msg returns 0, the message has gone out.
SuccessMeansSent == \A i \in success : Whole(i)

\* A worker that has begun to read a message comes to its end, or to the end of
\* the connection, and is free again: unless the stream was cut.
WorkersGetFree ==
  (Reading /\ got \o part # << >>) ~> (got \o part = << >> \/ ~Reading \/ ~SuccessMeansSent)
=============================================================================
