------------------------------ MODULE MCStore ------------------------------
(***************************************************************************)
(* A small instance of the store, its writer and a snapshot beside it, for *)
(* TLC.                                                                    *)
(***************************************************************************)
EXTENDS StoreSnapshot, TLC

CONSTANTS BatchVec    \* the vector that comes in batches

\* Batches of two ids, in either order.
Pairs == {<<[id |-> i, vec |-> BatchVec], [id |-> j, vec |-> BatchVec]>> :
            <<i, j>> \in {p \in Ids \X Ids : p[1] # p[2]}}

Symmetry == Permutations(Ids)
=============================================================================
