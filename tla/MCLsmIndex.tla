---------------------------- MODULE MCLsmIndex ----------------------------
(***************************************************************************)
(* Small instances of the LSM index for TLC.  The first vector of the      *)
(* instance is nearest to the query.                                       *)
(***************************************************************************)
EXTENDS LsmProperties

Distances == [v \in Vecs |-> v]
=============================================================================
