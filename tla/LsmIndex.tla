------------------------------ MODULE LsmIndex ------------------------------
(***************************************************************************)
(* streaming/lsm.rs: a flat buffer L0 above levels that each hold one HNSW *)
(* graph.  A level is the set of the copies it stores; live_level names    *)
(* the level of every id's newest copy and hides all the others.           *)
(*                                                                         *)
(* Methods take &mut self, so calls do not interleave.  A call that        *)
(* compacts is several steps (the merge of L0, then the cascade), and no   *)
(* other call is possible until it returns.  Statistics counters are left  *)
(* out, and so is the order of copies inside a level.                      *)
(***************************************************************************)
EXTENDS Integers, FiniteSets

CONSTANTS
    Ids, Vecs,
    Rejected,        \* vectors that hnsw.add_slice refuses: not finite, or of
                     \* zero norm under the cosine metric
    None,            \* not a level: the id has no live copy
    BufferCapacity,
    SizeRatio,
    MaxLevels

\* Ids are u32, so an index stores finitely many of them.
ASSUME LsmAssumption ==
    /\ IsFiniteSet(Ids)
    /\ Rejected \subseteq Vecs
    /\ None \notin Int
    /\ BufferCapacity \in Nat \ {0}
    /\ SizeRatio \in Nat \ {0}
    /\ MaxLevels \in Nat \ {0}

\* compact and force_merge_all make L1 whatever max_levels says.
Deepest == IF MaxLevels = 1 THEN 1 ELSE MaxLevels - 1
LevelIdx == 0 .. Deepest
Copies == [id : Ids, vec : Vecs]

VARIABLES
    levels,       \* [LevelIdx -> SUBSET Copies]
    depth,        \* levels.len()
    tombstones,   \* SUBSET Ids
    live_level,   \* [Ids -> LevelIdx \cup {None}]
    phase         \* "idle", or the step a call in progress takes next

lsmVars == <<levels, depth, tombstones, live_level, phase>>

Idle == [at |-> "idle", level |-> 0]
MergeL0 == [at |-> "merge", level |-> 0]
Cascade(i) == [at |-> "cascade", level |-> i]
Phases == {Idle, MergeL0} \cup {Cascade(i) : i \in LevelIdx}

Init ==
    /\ levels = [i \in LevelIdx |-> {}]
    /\ depth = 1
    /\ tombstones = {}
    /\ live_level = [id \in Ids |-> None]
    /\ phase = Idle

\* The copies of a level that are live there.
LiveCopies(i) == {c \in levels[i] : live_level[c.id] = i}

\* An HNSW graph over these copies can be built.
Buildable(copies) == \A c \in copies : c.vec \notin Rejected

IdsOf(copies) == {c.id : c \in copies}

\* Compaction is due once L0 is full.
AfterInsert(l0) == IF Cardinality(l0) >= BufferCapacity THEN MergeL0 ELSE Idle

Insert(id, v) ==
    /\ phase = Idle
    /\ tombstones' = tombstones \ {id}
    /\ levels' = [levels EXCEPT ![0] =
                     {c \in @ : c.id # id} \cup {[id |-> id, vec |-> v]}]
    /\ live_level' = [live_level EXCEPT ![id] = 0]
    /\ phase' = AfterInsert(levels'[0])
    /\ UNCHANGED depth

\* Mutant: the deletion is recorded in live_level only.
DeleteUnrecorded(id) ==
    /\ phase = Idle
    /\ live_level' = [live_level EXCEPT ![id] = None]
    /\ levels' = [levels EXCEPT ![0] = {c \in @ : c.id # id}]
    /\ UNCHANGED <<depth, phase, tombstones>>

\* delete does not ask whether the id exists.
Delete(id) ==
    /\ phase = Idle
    /\ tombstones' = tombstones \cup {id}
    /\ live_level' = [live_level EXCEPT ![id] = None]
    /\ levels' = [levels EXCEPT ![0] = {c \in @ : c.id # id}]
    /\ UNCHANGED <<depth, phase>>

\* compact(): nothing to do while L0 is empty.
Compact ==
    /\ phase = Idle
    /\ levels[0] # {}
    /\ phase' = MergeL0
    /\ UNCHANGED <<levels, depth, tombstones, live_level>>

\* Mutant: superseded copies of the target are kept.
MergedKeepingTarget(i) == levels[i + 1] \cup LiveCopies(i)

\* What merge_into_level(i, i + 1) puts into the target.
Merged(i) == LiveCopies(i + 1) \cup LiveCopies(i)

\* A merge that succeeds: the target is replaced and the caller drains the source.
MergeInto(i) ==
    /\ Buildable(Merged(i))
    /\ levels' = [levels EXCEPT ![i + 1] = Merged(i), ![i] = {}]
    /\ live_level' = [id \in Ids |->
                         IF id \in IdsOf(Merged(i)) THEN i + 1 ELSE live_level[id]]
    /\ phase' = Cascade(i + 1)
    /\ UNCHANGED tombstones

\* L1 exists before the merge; a graph that cannot be built fails the call
\* and leaves L0 in place.
CompactL0 ==
    /\ phase = MergeL0
    /\ depth' = IF depth < 2 THEN 2 ELSE depth
    /\ \/ MergeInto(0)
       \/ /\ ~Buildable(Merged(0))
          /\ phase' = Idle
          /\ UNCHANGED <<levels, tombstones, live_level>>

\* Level i is not the last one and large enough to be merged into the next.
ShouldCompact(i) ==
    /\ i < MaxLevels - 1
    /\ LET size == Cardinality(levels[i])
           next == Cardinality(levels[i + 1])
       IN  IF next = 0 THEN size >= BufferCapacity * SizeRatio
                       ELSE size >= SizeRatio * next

\* cascade_compact(i); the recursive call is the next step.  Graph levels
\* hold buildable copies only, so this merge does not fail.
CascadeCompact(i) ==
    /\ phase = Cascade(i)
    /\ \/ /\ ShouldCompact(i)
          /\ depth' = IF depth < i + 2 THEN i + 2 ELSE depth
          /\ MergeInto(i)
       \/ /\ ~ShouldCompact(i)
          /\ phase' = Idle
          /\ UNCHANGED <<levels, depth, tombstones, live_level>>

\* Every live copy of the index.
AllLive == UNION {LiveCopies(i) : i \in LevelIdx}

\* force_merge_all clears the levels before it builds the graph, so a vector
\* the builder refuses loses everything and leaves live_level as it was.
ForceMergeAll ==
    /\ phase = Idle
    /\ \/ /\ AllLive # {} /\ Buildable(AllLive)
          /\ levels' = [i \in LevelIdx |-> IF i = 1 THEN AllLive ELSE {}]
          /\ live_level' = [id \in Ids |->
                               IF id \in IdsOf(AllLive) THEN 1 ELSE live_level[id]]
          /\ depth' = 2
          /\ tombstones' = {}
       \/ /\ AllLive = {} \/ ~Buildable(AllLive)
          /\ levels' = [i \in LevelIdx |-> {}]
          /\ depth' = 1
          /\ UNCHANGED <<live_level, tombstones>>
    /\ UNCHANGED phase

\* The steps of the calls in progress.
InCall == CompactL0 \/ \E i \in LevelIdx : CascadeCompact(i)

Next ==
    \/ \E id \in Ids : Delete(id) \/ \E v \in Vecs : Insert(id, v)
    \/ Compact \/ InCall \/ ForceMergeAll

Spec == Init /\ [][Next]_lsmVars
=============================================================================
