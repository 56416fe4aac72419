---------------------------- MODULE SegmentStore ----------------------------
(***************************************************************************)
(* The segmented store of the segstore crate, as src/store.rs uses it: a   *)
(* buffer of unflushed vectors, immutable segments, and the place of every *)
(* id's live copy.  Only what the callers and the tests of store.rs rely   *)
(* on is stated:                                                           *)
(*   - a segment never changes, and its number is not given again;         *)
(*   - a buffer that reaches the flush threshold is sealed as a segment;   *)
(*   - what a call logged survives a restart: the state below is also the  *)
(*     state after a replay of the log;                                    *)
(*   - a checkpoint seals the buffer, and merges end with a checkpoint.    *)
(* The operators are parts of the actions of UpdatableStore.               *)
(***************************************************************************)
EXTENDS Integers, FiniteSets, Sequences

CONSTANTS
    Ids, Vecs,
    FlushThreshold,
    MaxSegments,     \* bound: segments that are ever sealed
    InBuffer,        \* the live copy of an id is in the buffer
    Nowhere          \* the id was never added, or is tombstoned

ASSUME StoreAssumption ==
    /\ IsFiniteSet(Ids)
    /\ FlushThreshold \in Nat \ {0}
    /\ MaxSegments \in Nat
    /\ InBuffer \notin Int /\ Nowhere \notin Int /\ InBuffer # Nowhere

Copies == [id : Ids, vec : Vecs]
SegIds == 0 .. MaxSegments - 1
Places == SegIds \cup {InBuffer, Nowhere}

VARIABLES
    buffer,      \* SUBSET Copies, at most one of an id
    segs,        \* [SegIds -> SUBSET Copies], the content a segment was sealed with
    present,     \* the segments of the store
    home,        \* [Ids -> Places], where the live copy of an id is
    next,        \* the number the next segment gets
    manifest     \* the segments and homes of the last checkpoint

Manifests == [segments : SUBSET SegIds, home : [Ids -> Places]]

storeVars == <<buffer, segs, present, home, next, manifest>>

StoreInit ==
    /\ buffer = {}
    /\ segs = [s \in SegIds |-> {}]
    /\ present = {}
    /\ home = [id \in Ids |-> Nowhere]
    /\ next = 0
    /\ manifest = [segments |-> {}, home |-> home]

IdsOf(copies) == {c.id : c \in copies}

\* The copies of a segment that are live there (is_live_in), and those of the
\* buffer (is_live).
LiveIn(s) == {c \in segs[s] : home[c.id] = s}
LiveBuffer == {c \in buffer : home[c.id] # Nowhere}

\* The copies `sealed` become segment `next`; homes are those of h.
Seal(sealed, h) ==
    /\ next \in SegIds
    /\ segs' = [segs EXCEPT ![next] = sealed]
    /\ present' = present \cup {next}
    /\ home' = [id \in Ids |-> IF h[id] = InBuffer THEN next ELSE h[id]]
    /\ next' = next + 1
    /\ buffer' = {}

\* An added copy supersedes every other one of its id.  A tombstoned copy stays
\* in the buffer until then.
StoreAdd(c) ==
    LET buffered == {d \in buffer : d.id # c.id} \cup {c}
        moved == [home EXCEPT ![c.id] = InBuffer]
    IN  /\ \/ /\ Cardinality(buffered) < FlushThreshold
              /\ buffer' = buffered
              /\ home' = moved
              /\ UNCHANGED <<segs, present, next>>
           \/ /\ Cardinality(buffered) >= FlushThreshold
              /\ Seal(buffered, moved)
        /\ UNCHANGED manifest

StoreDelete(id) ==
    /\ home' = [home EXCEPT ![id] = Nowhere]
    /\ UNCHANGED <<buffer, segs, present, next, manifest>>

StoreFlush ==
    \/ /\ buffer = {}
       /\ UNCHANGED <<buffer, segs, present, home, next>>
    \/ /\ buffer # {}
       /\ Seal(buffer, home)

WriteManifest == manifest' = [segments |-> present', home |-> home']

StoreCheckpoint == StoreFlush /\ WriteManifest

\* The live copies of the segments S and of the buffer become one segment.
Merged(S) == LiveBuffer \cup UNION {LiveIn(s) : s \in S}

StoreMerge(S) ==
    /\ next \in SegIds
    /\ segs' = [segs EXCEPT ![next] = Merged(S)]
    /\ present' = (present \ S) \cup {next}
    /\ home' = [id \in Ids |-> IF home[id] \in S \cup {InBuffer} THEN next ELSE home[id]]
    /\ next' = next + 1
    /\ buffer' = {}
    /\ WriteManifest
=============================================================================
