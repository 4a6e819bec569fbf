----------------------------- MODULE MCCluster -----------------------------
(* One caller, three OSDs and two writes to one object. *)
EXTENDS Cluster

CONSTANT w1

OneWriter == {w1}
=============================================================================
