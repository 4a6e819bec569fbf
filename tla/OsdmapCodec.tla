---------------------------- MODULE OsdmapCodec ----------------------------
(***************************************************************************)
(* Encoding an osdmap into a buffer and decoding it by a reader            *)
(* (common/osdmap.c, common/encode.c), next to other users of the buffer.  *)
(* Each field is one append or one read; neither side looks at what these  *)
(* return.  Bytes are bits here and an integer has two of them.            *)
(***************************************************************************)
EXTENDS Buffer, SequencesExt

CONSTANT Maps     \* the osdmaps callers encode: [epoch, pg_count, osds], the
                  \* last a sequence of ids

NoMap == [epoch |-> 0, pg_count |-> 0, osds |-> << >>]

VARIABLES
  encoding,   \* whether cceph_encode_osdmap is running
  todo,       \* the fields it has still to append
  map,        \* the map of the last call of it
  start,      \* where in the buffer its bytes begin
  lost,       \* history: an append of that call failed
  decoding,   \* "no", "ask" or "take" a field, "ended", or "aborted"
  result,     \* the map it fills in
  osd_count,  \* result->osd_count
  fields,     \* how many fields it has read
  from        \* where in the buffer it began, Ended if the reader was at its end

codec_vars == <<encoding, todo, map, start, lost, decoding, result, osd_count, fields, from>>

Ended == 0 - 1

\* CCEPH_ENCODE_BASIC_TYPE, least significant byte first.
Version   == <<1>>
IntBytes(v)    == <<v % 2, v \div 2>>
IntOf(b)  == b[1] + 2 * b[2]
IntValues == 0 .. 3

ASSUME BitsAssumption == Byte = {0, 1}
ASSUME MapsAssumption ==
  /\ Maps \subseteq [epoch : IntValues, pg_count : IntValues, osds : Seq(IntValues)]
  /\ \A m \in Maps : Len(m.osds) \in IntValues

\* mutation: an entity is written before its version.
EncodedOsdFirst(id) == <<IntBytes(id), Version>>

\* The fields of an osdmap in their order, each osd with a version of its own.
EncodedOsd(id) == <<Version, IntBytes(id)>>

Encoded(m) == <<Version, IntBytes(m.epoch), IntBytes(m.pg_count), IntBytes(Len(m.osds))>>
              \o [f \in 1 .. 2 * Len(m.osds) |->
                   EncodedOsd(m.osds[(f + 1) \div 2])[IF f % 2 = 1 THEN 1 ELSE 2]]

CodecInit == /\ Init
             /\ encoding = FALSE
             /\ todo = << >>
             /\ map = NoMap
             /\ start = Ended
             /\ lost = FALSE
             /\ decoding = "no"
             /\ result = NoMap
             /\ osd_count = 0
             /\ fields = 0
             /\ from = Ended

Idle == pc = "idle" /\ ~encoding /\ decoding = "no"

----------------------------------------------------------------------------
\* cceph_encode_osdmap

EncodeOsdmap(m) ==
  /\ Idle
  /\ offset + Len(FlattenSeq(Encoded(m))) <= MaxLength
  /\ encoding' = TRUE
  /\ todo' = Encoded(m)
  /\ map' = m
  /\ start' = offset
  /\ lost' = FALSE
  /\ UNCHANGED <<vars, decoding, result, osd_count, fields, from>>

EncodeField ==
  /\ encoding /\ todo # << >>
  /\ AppendCall(Head(todo))
  /\ todo' = Tail(todo)
  /\ UNCHANGED <<encoding, map, start, lost, decoding, result, osd_count, fields, from>>

\* return CCEPH_OK
EncodeReturns ==
  /\ pc = "idle"
  /\ encoding /\ todo = << >>
  /\ encoding' = FALSE
  /\ UNCHANGED <<vars, todo, map, start, lost, decoding, result, osd_count, fields, from>>

----------------------------------------------------------------------------
\* cceph_decode_osdmap

\* Callers decode where they have encoded, though the reader may have ended
\* there before the map was appended.
DecodeOsdmap ==
  /\ Idle
  /\ start = Len(consumed)
  /\ decoding' = "ask"
  /\ result' = NoMap
  /\ fields' = 0
  /\ from' = IF rnode = NULL THEN Ended ELSE Len(consumed)
  /\ UNCHANGED <<vars, encoding, todo, map, start, lost, osd_count>>

\* The field read next is a version, or else an integer.
AtVersion == fields = 0 \/ (fields >= 4 /\ fields % 2 = 0)

DecodeAsk ==
  /\ decoding = "ask"
  /\ Read(IF AtVersion THEN 1 ELSE 2)
  /\ decoding' = "take"
  /\ UNCHANGED <<encoding, todo, map, start, lost, result, osd_count, fields, from>>

\* The last n bytes read.
LastRead(n) == SubSeq(consumed, Len(consumed) - n + 1, Len(consumed))

\* Back from the read of a field.
Takes == /\ decoding = "take" /\ pc = "idle"
         /\ UNCHANGED <<vars, encoding, todo, map, start, lost, from>>

\* After the last field the call returns.
Continue(count) ==
  /\ fields' = fields + 1
  /\ decoding' = IF fields + 1 = 4 + 2 * count THEN "ended" ELSE "ask"

\* v is 0 unless it was read.
DecodeVersion ==
  /\ Takes
  /\ AtVersion
  /\ IF ret = "OK" /\ LastRead(1) = Version
     THEN Continue(osd_count)
     ELSE decoding' = "aborted" /\ UNCHANGED fields     \* assert(log_id, v == 1)
  /\ UNCHANGED <<result, osd_count>>

\* What the field holds after the read: what was there before if it failed.
IntRead == IF ret = "OK" THEN {IntOf(LastRead(2))} ELSE IntValues

DecodeInt ==
  /\ Takes
  /\ ~AtVersion /\ fields # 3
  /\ \E v \in IntRead :
       result' = CASE fields = 1 -> [result EXCEPT !.epoch = v]
                   [] fields = 2 -> [result EXCEPT !.pg_count = v]
                   [] OTHER      -> [result EXCEPT !.osds = Append(@, v)]
  /\ Continue(osd_count)
  /\ UNCHANGED osd_count

\* result->osds is allocated for as many as osd_count says.
DecodeOsdCount ==
  /\ Takes
  /\ fields = 3
  /\ \E v \in IntRead :
       /\ osd_count' = v
       /\ \/ Continue(v)
          \/ MallocMayFail /\ decoding' = "no" /\ UNCHANGED fields
  /\ UNCHANGED result

\* The call returns, and the caller is done with the result.
DecodeReturns ==
  /\ decoding = "ended"
  /\ decoding' = "no"
  /\ result' = NoMap
  /\ osd_count' = 0
  /\ fields' = 0
  /\ from' = Ended
  /\ UNCHANGED <<vars, encoding, todo, map, start, lost>>

----------------------------------------------------------------------------
\* The other users of the buffer, and the calls in progress.
UsersCall ==
  /\ Idle
  /\ \/ \E bytes \in Chunks : AppendCall(bytes)
     \/ \E n \in ReadLengths : Read(n)
     \/ FlatEmpty \/ FlatFails \/ Flat \/ NewReader
  /\ UNCHANGED codec_vars

CallGoesOn ==
  /\ Turn
  /\ lost' = (lost \/ (encoding /\ ret' = "NO_ENOUGH_MEM"))
  /\ UNCHANGED <<encoding, todo, map, start, decoding, result, osd_count, fields, from>>

CodecNext ==
  \/ \E m \in Maps : EncodeOsdmap(m)
  \/ EncodeField \/ EncodeReturns
  \/ DecodeOsdmap \/ DecodeAsk \/ DecodeVersion \/ DecodeInt \/ DecodeOsdCount
  \/ DecodeReturns
  \/ UsersCall \/ CallGoesOn

CodecSpec == CodecInit /\ [][CodecNext]_<<vars, codec_vars>>

----------------------------------------------------------------------------
\* Wherever its fields fall on nodes, and whatever else is in the buffer, a map
\* that was encoded without a failed append comes out as it went in, to a
\* reader that is where it begins; and the asserts on the versions hold.
RoundTrip ==
  start # Ended /\ from = start /\ ~encoding /\ ~lost =>
     /\ decoding = "ended" => result = map /\ osd_count = Len(map.osds)
     /\ decoding # "aborted"
=============================================================================
