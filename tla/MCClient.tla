------------------------------ MODULE MCClient ------------------------------
(* Small instances of Client for TLC. *)
EXTENDS Client

CONSTANTS w1, w2    \* model values for threads

TwoWriters == {w1, w2}
=============================================================================
