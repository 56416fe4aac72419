---------------------------- MODULE MCLsmSnapshot ----------------------------
(***************************************************************************)
(* A small instance of the LSM index with its snapshot directory.          *)
(***************************************************************************)
EXTENDS LsmSnapshot

Distances == [v \in Vecs |-> v]
=============================================================================
