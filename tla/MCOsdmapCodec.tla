--------------------------- MODULE MCOsdmapCodec ---------------------------
(***************************************************************************)
(* Nodes of three bytes, so that integers and maps lie across their ends;  *)
(* a map of one OSD and one of none, next to chunks of four bytes.         *)
(***************************************************************************)
EXTENDS OsdmapCodec

MCMaps == {[epoch |-> 2, pg_count |-> 1, osds |-> <<2>>],
           [epoch |-> 1, pg_count |-> 2, osds |-> << >>]}

MCChunks == {<<0, 1, 1, 0>>}
=============================================================================
