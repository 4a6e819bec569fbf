------------------------------- MODULE Buffer -------------------------------
(***************************************************************************)
(* A buffer (common/buffer.c): a chain of nodes of NODE_LENGTH bytes, to   *)
(* which a caller appends, which it flattens, and from which a reader      *)
(* reads.  A turn of the loop of a call is an action.                      *)
(*                                                                         *)
(* The nodes are numbered along the chain.  node->ptr - node->data is used *)
(* below, reader->ptr - reader->node->data is rptr.                        *)
(***************************************************************************)
EXTENDS Integers, Sequences

CONSTANTS Byte,
          Unset,         \* what malloc leaves in a byte
          NODE_LENGTH,   \* CCEPH_BUFFER_NODE_LENGTH
          Chunks,        \* what callers append, sequences of bytes
          ReadLengths,   \* how much they read at once
          MaxLength,     \* bound: bytes a buffer is asked to hold
          MallocMayFail

ASSUME NodeLengthAssumption == NODE_LENGTH \in Nat \ {0}
ASSUME ChunksAssumption     == Chunks \subseteq Seq(Byte) \ {<< >>}
ASSUME ReadsAssumption      == ReadLengths \subseteq Nat \ {0}
ASSUME MaxLengthAssumption  == MaxLength \in Nat
ASSUME MallocAssumption     == MallocMayFail \in BOOLEAN

VARIABLES
  data,      \* data[i][j]: byte j of node i
  used,      \* used[i]: bytes of node i in use
  length,    \* buffer->length
  offset,    \* buffer->offset
  appended,  \* history: the bytes memcpy has put into nodes
  pc,        \* the call in progress: "idle", "append", "flat", "read"; or "aborted"
  left,      \* append: the bytes still to copy
  node,      \* flat: the node it is at
  flat,      \* flat: the bytes copied so far
  rnode,     \* reader->node, NULL at the end
  rptr,      \* reader->ptr, as an offset
  wanted,    \* read: length, the bytes still to read
  consumed,  \* history: the bytes the reader has read
  ret        \* what the last call returned, "none" during a call

buffer_vars == <<data, used, length, offset, appended>>
reader_vars == <<rnode, rptr, consumed>>
vars == <<buffer_vars, pc, left, node, flat, reader_vars, wanted, ret>>

NULL  == 0
Nodes == 1 .. Len(data)
Tail_ == Len(data)       \* buffer->current
NewNode == [j \in 1 .. NODE_LENGTH |-> Unset]

MinOf(a, b) == IF a <= b THEN a ELSE b

\* cceph_buffer_new and cceph_buffer_reader_new
Init == /\ data = <<NewNode>>
        /\ used = <<0>>
        /\ length = NODE_LENGTH
        /\ offset = 0
        /\ appended = << >>
        /\ pc = "idle"
        /\ left = << >>
        /\ node = NULL
        /\ flat = << >>
        /\ rnode = 1
        /\ rptr = 0
        /\ wanted = 0
        /\ consumed = << >>
        /\ ret = "none"

Returns(code) == pc' = "idle" /\ ret' = code
Calls(call)   == pc = "idle" /\ pc' = call /\ ret' = "none"

----------------------------------------------------------------------------
\* cceph_buffer_append

AppendCall(bytes) ==
  /\ Calls("append")
  /\ offset + Len(bytes) <= MaxLength
  /\ left' = bytes
  /\ UNCHANGED <<buffer_vars, node, flat, reader_vars, wanted>>

Full == used[Tail_] = NODE_LENGTH

\* n bytes go to the node i, behind the u bytes it has.
Copied(i, u, n, d) ==
  [d EXCEPT ![i] = [j \in 1 .. NODE_LENGTH |->
                      IF j \in u + 1 .. u + n THEN left[j - u] ELSE d[i][j]]]

\* The end of a turn: n bytes have been copied.
Advance(n) ==
  /\ offset' = offset + n
  /\ appended' = appended \o SubSeq(left, 1, n)
  /\ left' = SubSeq(left, n + 1, Len(left))
  /\ IF n = Len(left) THEN Returns("OK") ELSE UNCHANGED <<pc, ret>>
  /\ UNCHANGED <<node, flat, reader_vars, wanted>>

CopyToNode ==
  LET n == MinOf(Len(left), NODE_LENGTH - used[Tail_])
  IN /\ pc = "append"
     /\ ~Full
     /\ data' = Copied(Tail_, used[Tail_], n, data)
     /\ used' = [used EXCEPT ![Tail_] = @ + n]
     /\ Advance(n)
     /\ UNCHANGED length

\* mutation: node_empty_size keeps its old value, and nothing is copied into
\* the new node before the next turn, but the length grows.
CopyToNewNodeUncounted ==
  LET n == MinOf(Len(left), NODE_LENGTH)
  IN /\ pc = "append"
     /\ Full
     /\ data' = Copied(Tail_ + 1, 0, n, Append(data, NewNode))
     /\ used' = Append(used, n)
     /\ length' = length + n
     /\ Advance(n)

CopyToNewNode ==
  LET n == MinOf(Len(left), NODE_LENGTH)
  IN /\ pc = "append"
     /\ Full
     /\ data' = Copied(Tail_ + 1, 0, n, Append(data, NewNode))
     /\ used' = Append(used, n)
     /\ length' = length + NODE_LENGTH
     /\ Advance(n)

\* No memory for a node: what was copied before stays in the buffer.
NewNodeFails ==
  /\ pc = "append"
  /\ Full
  /\ MallocMayFail
  /\ left' = << >>
  /\ Returns("NO_ENOUGH_MEM")
  /\ UNCHANGED <<buffer_vars, node, flat, reader_vars, wanted>>

----------------------------------------------------------------------------
\* cceph_buffer_flat

FlatEmpty ==
  /\ pc = "idle"
  /\ offset = 0
  /\ flat' = << >>
  /\ Returns("OK")
  /\ UNCHANGED <<buffer_vars, left, node, reader_vars, wanted>>

FlatFails ==
  /\ pc = "idle"
  /\ offset # 0 /\ MallocMayFail
  /\ flat' = << >>
  /\ Returns("NO_ENOUGH_MEM")
  /\ UNCHANGED <<buffer_vars, left, node, reader_vars, wanted>>

Flat ==
  /\ Calls("flat")
  /\ offset # 0
  /\ node' = 1
  /\ flat' = << >>
  /\ UNCHANGED <<buffer_vars, left, reader_vars, wanted>>

\* mutation: the length of the node is copied, not of its content.
FlatNodeWhole ==
  /\ pc = "flat"
  /\ flat' = flat \o data[node]
  /\ IF node < Tail_ THEN node' = node + 1 /\ UNCHANGED <<pc, ret>>
                     ELSE node' = NULL /\ Returns("OK")
  /\ UNCHANGED <<buffer_vars, left, reader_vars, wanted>>

FlatNode ==
  /\ pc = "flat"
  /\ flat' = flat \o SubSeq(data[node], 1, used[node])
  /\ IF node < Tail_ THEN node' = node + 1 /\ UNCHANGED <<pc, ret>>
                     ELSE node' = NULL /\ Returns("OK")
  /\ UNCHANGED <<buffer_vars, left, reader_vars, wanted>>

----------------------------------------------------------------------------
\* cceph_buffer_reader_free, then cceph_buffer_reader_new

NewReader ==
  /\ pc = "idle"
  /\ rnode' = 1
  /\ rptr' = 0
  /\ consumed' = << >>
  /\ ret' = "none"
  /\ UNCHANGED <<buffer_vars, pc, left, node, flat, wanted>>

\* cceph_buffer_reader_read
Read(n) ==
  /\ Calls("read")
  /\ wanted' = n
  /\ UNCHANGED <<buffer_vars, left, node, flat, reader_vars>>

ReadLength == MinOf(wanted, used[rnode] - rptr)

\* After the end no read finds anything.
ReadAtEnd ==
  /\ pc = "read"
  /\ rnode = NULL
  /\ wanted' = 0
  /\ Returns("BUFFER_END")
  /\ UNCHANGED <<buffer_vars, left, node, flat, reader_vars>>

\* assert(log_id, read_length > 0)
ReadAborts ==
  /\ pc = "read"
  /\ rnode # NULL
  /\ ReadLength <= 0
  /\ pc' = "aborted"
  /\ UNCHANGED <<buffer_vars, left, node, flat, reader_vars, wanted, ret>>

\* A turn of the loop: what is left of the node is copied as far as wanted, the
\* reader moves to byte ptr of the node next, and over says whether the loop ends.
ReadTurn(next, ptr, over) ==
  LET n == ReadLength
  IN /\ pc = "read"
     /\ rnode # NULL
     /\ n > 0
     /\ consumed' = consumed \o SubSeq(data[rnode], rptr + 1, rptr + n)
     /\ rnode' = next
     /\ rptr' = ptr
     /\ IF over \/ wanted = n
        THEN wanted' = 0 /\ Returns(IF wanted = n THEN "OK" ELSE "BUFFER_END")
        ELSE wanted' = wanted - n /\ UNCHANGED <<pc, ret>>
     /\ UNCHANGED <<buffer_vars, left, node, flat>>

AtNodeEnd == rptr + ReadLength = used[rnode]
NextNode  == IF ~AtNodeEnd THEN rnode ELSE IF rnode < Tail_ THEN rnode + 1 ELSE NULL
NextPtr   == IF AtNodeEnd THEN 0 ELSE rptr + ReadLength

\* mutation: reader->ptr does not move within a node.
ReadNodeKeepingPtr == ReadTurn(NextNode, IF AtNodeEnd THEN 0 ELSE rptr, NextNode = NULL)

\* mutation: the reader stays behind the last byte of the last node.
ReadNodeStaying ==
  IF NextNode = NULL THEN ReadTurn(rnode, rptr + ReadLength, TRUE)
                     ELSE ReadTurn(NextNode, NextPtr, FALSE)

\* mutation: the loop breaks at the end of every node.
ReadNodeNoFurther == ReadTurn(NextNode, NextPtr, AtNodeEnd)

\* The last byte in use of the last node ends the reader.
ReadNode == ReadTurn(NextNode, NextPtr, NextNode = NULL)

----------------------------------------------------------------------------
\* What goes on inside of a call.
Turn == \/ CopyToNode \/ CopyToNewNode \/ NewNodeFails
        \/ FlatNode
        \/ ReadAtEnd \/ ReadAborts \/ ReadNode

Next == \/ \E bytes \in Chunks : AppendCall(bytes)
        \/ \E n \in ReadLengths : Read(n)
        \/ FlatEmpty \/ FlatFails \/ Flat \/ NewReader
        \/ Turn

Spec == Init /\ [][Next]_vars

----------------------------------------------------------------------------
TypeOK ==
  /\ Len(data) > 0 /\ Len(used) = Len(data)
  /\ data \in Seq([1 .. NODE_LENGTH -> Byte \cup {Unset}])
  /\ used \in Seq(0 .. NODE_LENGTH)
  /\ length \in Nat /\ offset \in Nat
  /\ appended \in Seq(Byte) /\ left \in Seq(Byte)
  /\ flat \in Seq(Byte) /\ consumed \in Seq(Byte)
  /\ node \in Nodes \cup {NULL}
  /\ rnode \in Nodes \cup {NULL}
  /\ rptr \in 0 .. NODE_LENGTH
  /\ wanted \in Nat
  /\ pc \in {"idle", "append", "flat", "read", "aborted"}
  /\ ret \in {"none", "OK", "NO_ENOUGH_MEM", "BUFFER_END"}

\* The assert of buffer.c:128, for every append, also after one that found no
\* memory half way: the chain has room for what offset says it holds, and holds
\* just what was copied, in order, each node but the last full.
ChainIsExact ==
  /\ length = NODE_LENGTH * Len(data)
  /\ offset = Len(appended) /\ offset <= length
  /\ \A i \in Nodes : i # Tail_ => used[i] = NODE_LENGTH
  /\ \A i \in Nodes : \A j \in 1 .. used[i] :
       data[i][j] = appended[NODE_LENGTH * (i - 1) + j]

\* A flattened buffer is all that was appended, in order (buffer.h:39).
FlatCopiesAll ==
  [][(flat' # flat \/ pc = "flat") /\ pc' = "idle" /\ ret' = "OK"
        => flat' = appended]_vars

\* However reads and appends alternate and wherever the nodes end, a reader
\* gets every byte once and in order.
ReadsInOrder == consumed = SubSeq(appended, 1, Len(consumed))

\* A read that returns CCEPH_ERR_BUFFER_END has come to the end of what there
\* is, or the reader had been at the end before: appends after that it cannot
\* see.
EndIsTheEnd ==
  [][pc = "read" /\ ret' = "BUFFER_END" => rnode = NULL \/ consumed' = appended]_vars

\* buffer.c:217: only a read of a buffer with nothing in it meets the assert.
AbortsOnlyWhenEmpty == pc = "aborted" => offset = 0
=============================================================================
