--------------------------- MODULE LsmProperties ---------------------------
(***************************************************************************)
(* What the LSM index must guarantee, over the state of LsmIndex, and the  *)
(* search it answers from that state.                                      *)
(***************************************************************************)
EXTENDS LsmIndex

CONSTANT Missing    \* the content of an id that is not visible

ASSUME MissingAssumption == Missing \notin Vecs

\* Every variable has the type its declaration states.
TypeOK ==
    /\ levels \in [LevelIdx -> SUBSET Copies]
    /\ depth \in 1 .. Deepest + 1
    /\ tombstones \in SUBSET Ids
    /\ live_level \in [Ids -> LevelIdx \cup {None}]
    /\ phase \in Phases

\* The copy that a search may return for id.
VisibleCopies(id) == {c \in AllLive : c.id = id}

\* What the index holds: the vector of each visible id.
VecOf(copies) == IF copies = {} THEN Missing ELSE (CHOOSE c \in copies : TRUE).vec
Contents == [id \in Ids |-> VecOf(VisibleCopies(id))]

\* No level holds two copies of one id: an update of a buffered id overwrites
\* it, and merges never bring a superseded copy along.
OneCopyPerLevel ==
    \A i \in LevelIdx : \A c, d \in levels[i] : c.id = d.id => c = d

\* live_levels(): the level of each id's newest copy as a restart recomputes
\* it, the shallowest level that holds a copy of an id without a tombstone.
Holding(id) == {i \in LevelIdx : id \in IdsOf(levels[i])}

\* Mutant: the deepest copy wins.
RecomputedDeepest(id) ==
    IF id \in tombstones \/ Holding(id) = {} THEN None
    ELSE CHOOSE i \in Holding(id) : \A j \in Holding(id) : i >= j

RecomputedLevel(id) ==
    IF id \in tombstones \/ Holding(id) = {} THEN None
    ELSE CHOOSE i \in Holding(id) : \A j \in Holding(id) : i <= j

\* The level tracked through every insert, delete, merge and cascade is the
\* one a restart would recompute from the levels and the tombstones alone, so
\* a reload neither revives a deleted id nor goes back to an older vector.
LiveLevelsAgree ==
    \A id \in Ids :
        RecomputedLevel(id) = IF VisibleCopies(id) = {} THEN None ELSE live_level[id]

\* The index is a map from ids to their newest vectors, whatever compactions,
\* cascades, failed builds and merges happen between the updates.
Abstract == INSTANCE VectorMap WITH map <- Contents
ImplementsMap == Abstract!Spec

-----------------------------------------------------------------------------
(* Search, with exact search inside each level                             *)

CONSTANTS K, Distance    \* results asked for; distance of a vector to the query

\* An id is a u32; distances are compared, so their ranks stand for them.
ASSUME SearchAssumption ==
    /\ Ids \subseteq Int
    /\ K \in Nat
    /\ Distance \in [Vecs -> Int]

\* The k copies of a set nearest to the query, ties broken by id.
Nearer(c, d) ==
    \/ Distance[c.vec] < Distance[d.vec]
    \/ Distance[c.vec] = Distance[d.vec] /\ c.id < d.id
NearestOf(copies) ==
    {c \in copies : Cardinality({d \in copies : Nearer(d, c)}) < K}

\* Mutant: results are filtered by the tombstones alone.
SearchLevelByTombstone(i) == {c \in NearestOf(levels[i]) : c.id \notin tombstones}

\* A graph level is searched for its k nearest copies and what is not live
\* there is dropped afterwards; L0 is filtered while it is scanned.
SearchLevel(i) ==
    IF i = 0 THEN NearestOf(LiveCopies(0))
    ELSE {c \in NearestOf(levels[i]) : live_level[c.id] = i}

\* search_with_ef: the k nearest of what the levels answered.
Search == NearestOf(UNION {SearchLevel(i) : i \in LevelIdx})

\* A search never returns two versions of an id, and as long as no graph
\* level stores a copy that was superseded or deleted, it returns exactly the
\* K nearest of the vectors that were inserted last.
SearchExactWhenClean ==
    /\ \A c, d \in Search : c.id = d.id => c = d
    /\ (\A i \in LevelIdx \ {0} : levels[i] = LiveCopies(i))
           => Search = NearestOf({[id |-> id, vec |-> Contents[id]] :
                                    id \in {x \in Ids : Contents[x] # Missing}})

-----------------------------------------------------------------------------
(* Statements of the source                                                *)

\* lsm.rs:269-271, the field live_level: "Level holding the newest copy of
\* each live ID."
LiveLevelHoldsCopy ==
    \A id \in Ids : live_level[id] # None => VisibleCopies(id) # {}
=============================================================================
