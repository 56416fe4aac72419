-------------------------- MODULE MCStreamingIndex --------------------------
(***************************************************************************)
(* Small instances of the streaming coordinator for TLC.  The two metrics  *)
(* order the vectors in opposite ways, and their distances interleave;     *)
(* vectors over 2 have another dimension than the index.                   *)
(***************************************************************************)
EXTENDS StreamingProperties

Distances == [m \in Metrics |-> [v \in Vecs |-> IF m = L2 THEN 2 * v ELSE 7 - 2 * v]]
Dims == [v \in Vecs |-> IF v <= 2 THEN 4 ELSE 5]
=============================================================================
