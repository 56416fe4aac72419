---------------------------- MODULE MCFreshGraph ----------------------------
(***************************************************************************)
(* Small instances of the fresh graph for TLC: the vectors are corners of  *)
(* a regular hexagon, their cosine distances doubled are integers.         *)
(***************************************************************************)
EXTENDS FreshProperties

CONSTANTS d1, d2

Around(a, b) == IF a >= b THEN a - b ELSE b - a
OnHexagon == [pair \in Vecs \X Vecs |->
                LET steps == Around(pair[1], pair[2])
                IN  CASE steps = 0 -> 0
                      [] steps \in {1, 5} -> 1
                      [] steps \in {2, 4} -> 3
                      [] steps = 3 -> 4]

\* One id with two vectors, and one with a vector between them.
TwoDocs == {<<d1, 0>>, <<d1, 3>>, <<d2, 1>>}
=============================================================================
