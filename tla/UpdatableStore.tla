--------------------------- MODULE UpdatableStore ---------------------------
(***************************************************************************)
(* UpdatableIndex of src/store.rs: one HNSW graph per segment, cached in   *)
(* memory and written to a sidecar file, and one over the unflushed        *)
(* buffer.  A graph is the set of the copies it was built over; a graph of *)
(* none is the None of the code.                                           *)
(*                                                                         *)
(* Methods that change the index take &mut self.  A batch is applied copy  *)
(* by copy, so that it can fail or be cut short half way.  live_epoch is   *)
(* left out: it changes when live_cache is cleared, and at no other time.  *)
(***************************************************************************)
EXTENDS SegmentStore

CONSTANTS
    Rejected,      \* vectors HNSWIndex::add refuses: not finite, or of norm zero
    Batches,       \* what extend is called with
    Absent,        \* no graph: not cached, no file, or a file that does not decode
    NoBatch        \* no call of extend in progress

ASSUME UpdatableAssumption ==
    /\ Rejected \subseteq Vecs
    /\ Batches \subseteq Seq(Copies)
    /\ NoBatch \notin Seq(Copies)
    /\ \A graph \in SUBSET Copies : graph # Absent

Graphs == SUBSET Copies

VARIABLES
    cache,         \* [SegIds -> {Absent} \cup Graphs], by_segment_id
    persisted,     \* the segments whose sidecar is known to be current
    live_cache,    \* the graph over the buffer
    pending,       \* what extend has still to apply
    sidecar        \* [SegIds -> {Absent} \cup Graphs], the files

processVars == <<cache, persisted, live_cache, pending>>
writerVars == <<storeVars, processVars, sidecar>>

NoGraphs == [s \in SegIds |-> Absent]

Init ==
    /\ StoreInit
    /\ cache = NoGraphs
    /\ persisted = {}
    /\ live_cache = Absent
    /\ pending = NoBatch
    /\ sidecar = NoGraphs

\* build_live_index_from: a copy the graph refuses is skipped.
GraphOver(copies) == {c \in copies : c.vec \notin Rejected}

\* load_sidecar: the ids of the graph are those that are live in the segment.
Accepts(graph, live) ==
    /\ graph # Absent
    /\ Cardinality(graph) = Cardinality(IdsOf(live))
    /\ IdsOf(graph) \subseteq IdsOf(live)

\* Mutant: the graph stays in the cache.
DropFileOnly(S) ==
    /\ cache' = cache
    /\ persisted' = persisted \ S
    /\ \E gone \in SUBSET S :
         sidecar' = [s \in SegIds |-> IF s \in gone THEN Absent ELSE sidecar[s]]

\* What invalidate_live_segment_of does to the segments S; a sidecar whose
\* file cannot be deleted stays.
Drop(S) ==
    /\ cache' = [s \in SegIds |-> IF s \in S THEN Absent ELSE cache[s]]
    /\ persisted' = persisted \ S
    /\ \E gone \in SUBSET S :
         sidecar' = [s \in SegIds |-> IF s \in gone THEN Absent ELSE sidecar[s]]

\* live_segment_of, for each of the ids.
Owners(ids) == {home[id] : id \in ids} \cap SegIds

\* Mutant: the graph over the buffer is kept.
AddKeepingLive(c) ==
    /\ pending = NoBatch
    /\ StoreAdd(c)
    /\ Drop(Owners({c.id}))
    /\ UNCHANGED <<live_cache, pending>>

Add(c) ==
    /\ pending = NoBatch
    /\ StoreAdd(c)
    /\ Drop(Owners({c.id}))
    /\ live_cache' = Absent
    /\ UNCHANGED pending

Delete(id) ==
    /\ pending = NoBatch
    /\ StoreDelete(id)
    /\ Drop(Owners({id}))
    /\ live_cache' = Absent
    /\ UNCHANGED pending

\* An add or a delete that segstore fails, after the graphs were dropped.
WriteFails(id) ==
    /\ pending = NoBatch
    /\ Drop(Owners({id}))
    /\ live_cache' = Absent
    /\ UNCHANGED <<storeVars, pending>>

\* extend drops the graphs of all segments concerned, writes, and only then
\* drops the graph over the buffer; an error returns before that.
BeginExtend(batch) ==
    /\ pending = NoBatch
    /\ Drop(Owners({batch[i].id : i \in DOMAIN batch}))
    /\ pending' = batch
    /\ UNCHANGED <<storeVars, live_cache>>

ExtendOne ==
    /\ pending \notin {NoBatch, <<>>}
    /\ StoreAdd(Head(pending))
    /\ pending' = Tail(pending)
    /\ UNCHANGED <<cache, persisted, live_cache, sidecar>>

EndExtend ==
    /\ pending = <<>>
    /\ pending' = NoBatch
    /\ live_cache' = Absent
    /\ UNCHANGED <<storeVars, cache, persisted, sidecar>>

ExtendFails ==
    /\ pending # NoBatch
    /\ pending' = NoBatch
    /\ UNCHANGED <<storeVars, cache, persisted, live_cache, sidecar>>

\* Mutant: any sidecar that is there is taken for current.
PersistMissing(removed, written) ==
    LET candidates == present' \ persisted
        current == {s \in candidates : sidecar[s] # Absent}
        rebuilt == {s \in (candidates \ current) \cap written : GraphOver(LiveIn(s)') # {}}
    IN  /\ persisted' = (persisted \cap present') \cup current \cup rebuilt
        /\ sidecar' = [s \in SegIds |->
                         IF s \in rebuilt THEN GraphOver(LiveIn(s)')
                         ELSE IF s \in removed THEN Absent ELSE sidecar[s]]

\* persist_new_segments after the store dropped the segments `removed` and
\* their files: a sidecar that loads is noted, any other is rebuilt.  The
\* write succeeds for the segments `written`.
Persist(removed, written) ==
    LET candidates == present' \ persisted
        current == {s \in candidates : Accepts(sidecar[s], LiveIn(s)')}
        rebuilt == {s \in (candidates \ current) \cap written : GraphOver(LiveIn(s)') # {}}
    IN  /\ persisted' = (persisted \cap present') \cup current \cup rebuilt
        /\ sidecar' = [s \in SegIds |->
                         IF s \in rebuilt THEN GraphOver(LiveIn(s)')
                         ELSE IF s \in removed THEN Absent ELSE sidecar[s]]

Checkpoint ==
    /\ pending = NoBatch
    /\ StoreCheckpoint
    /\ live_cache' = Absent
    /\ \E written \in SUBSET SegIds : Persist({}, written)
    /\ UNCHANGED <<cache, pending>>

\* compact, and a round of compact_tiers or reclaim that merged something.
Compact(S) ==
    /\ pending = NoBatch
    /\ StoreMerge(S)
    /\ live_cache' = Absent
    /\ cache' = [s \in SegIds |-> IF s \in present' THEN cache[s] ELSE Absent]
    /\ \E written \in SUBSET SegIds : Persist(S, written)
    /\ UNCHANGED pending

\* compact_tiers or reclaim without a merge.
CompactNothing ==
    /\ pending = NoBatch
    /\ live_cache' = Absent
    /\ UNCHANGED <<storeVars, cache, persisted, pending, sidecar>>

\* A checkpoint or a merge that segstore fails, perhaps after the buffer was
\* sealed; the call returns without touching any graph.
CompactFails ==
    /\ pending = NoBatch
    /\ StoreFlush
    /\ UNCHANGED <<manifest, processVars, sidecar>>

\* build_or_load.
GraphFor(s) ==
    IF Accepts(sidecar[s], LiveIn(s)) THEN sidecar[s] ELSE GraphOver(LiveIn(s))

\* The graphs a search goes through: cached ones, or what it finds instead.
SegmentGraph(s) == IF cache[s] = Absent THEN GraphFor(s) ELSE cache[s]
BufferGraph == IF live_cache = Absent THEN GraphOver(LiveBuffer) ELSE live_cache

\* search: fills the cache; a graph that was built is written through.
Search ==
    LET missing == {s \in present : cache[s] = Absent}
        loaded == {s \in missing : Accepts(sidecar[s], LiveIn(s))}
        built == {s \in missing \ loaded : GraphFor(s) # {}}
    IN  /\ pending = NoBatch
        /\ cache' = [s \in SegIds |-> IF s \in missing THEN GraphFor(s) ELSE cache[s]]
        /\ live_cache' = BufferGraph
        /\ \E written \in SUBSET built :
             /\ persisted' = persisted \cup loaded \cup written
             /\ sidecar' = [s \in SegIds |->
                              IF s \in written THEN GraphFor(s) ELSE sidecar[s]]
        /\ UNCHANGED <<storeVars, pending>>

\* The process stops, at any point of any call, and opens the index again.
Reopen ==
    /\ cache' = NoGraphs
    /\ persisted' = {}
    /\ live_cache' = Absent
    /\ pending' = NoBatch
    /\ UNCHANGED <<storeVars, sidecar>>

Next ==
    \/ \E c \in Copies : Add(c)
    \/ \E id \in Ids : Delete(id) \/ WriteFails(id)
    \/ \E batch \in Batches : BeginExtend(batch)
    \/ ExtendOne \/ EndExtend \/ ExtendFails
    \/ Checkpoint
    \/ \E S \in SUBSET present : Compact(S)
    \/ CompactNothing \/ CompactFails
    \/ Search \/ Reopen

Spec == Init /\ [][Next]_writerVars
=============================================================================
