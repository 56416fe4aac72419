--------------------------- MODULE MCHnswSegment ---------------------------
(***************************************************************************)
(* The HNSW segment with the six files of the code and a bound on saves.   *)
(***************************************************************************)
EXTENDS HnswSegment
=============================================================================
