--------------------------- MODULE MCInPlaceGraph ---------------------------
(***************************************************************************)
(* In-place graphs over a few points of a line.                            *)
(***************************************************************************)
EXTENDS InPlaceGraph, TLC

Symmetry == Permutations(Slots)
Abs(n) == IF n < 0 THEN -n ELSE n
OnLine == [p \in Vecs \X Vecs |-> Abs(p[1] - p[2])]
=============================================================================
