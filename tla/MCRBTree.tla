------------------------------ MODULE MCRBTree ------------------------------
(* A red-black tree of at most ten nodes for TLC. *)
EXTENDS RBTree

TenKeys == 1 .. 10
=============================================================================
