----------------------------- MODULE VectorMap -----------------------------
(***************************************************************************)
(* What an updatable vector index promises: a map from ids to the vector   *)
(* inserted last, or Missing.  Reorganising the index (compaction, merges, *)
(* rebuilding graphs) changes nothing.                                     *)
(***************************************************************************)
CONSTANTS
    Ids, Vecs,
    Rejected,    \* the vectors a graph builder refuses
    Missing      \* the id was never inserted, or was deleted

VARIABLE map

Maps == [Ids -> Vecs \cup {Missing}]

Init == map = [id \in Ids |-> Missing]

Put(id, v) == map' = [map EXCEPT ![id] = v]

Remove(id) == map' = [map EXCEPT ![id] = Missing]

\* A full rebuild that a refused vector makes fail gives up everything.
Lose ==
    /\ \E id \in Ids : map[id] \in Rejected
    /\ map' = [id \in Ids |-> Missing]

Next ==
    \/ \E id \in Ids : Remove(id) \/ \E v \in Vecs : Put(id, v)
    \/ Lose

Spec == Init /\ [][Next]_map
=============================================================================
