------------------------------- MODULE MCWire -------------------------------
(***************************************************************************)
(* Two threads that send on one connection: acks, and writes of a name     *)
(* that fits its length field, of one that makes the length negative, and  *)
(* of one whose length comes round to 1.                                   *)
(***************************************************************************)
EXTENDS Wire

Ack         == [op |-> "WRITE_ACK", oid |-> 0, data |-> 0]
Write(n, d) == [op |-> "WRITE", oid |-> n, data |-> d]

MCMessages == {Ack, Write(1, 1), Write(2, 1), Write(5, 0)}
=============================================================================
