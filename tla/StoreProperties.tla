-------------------------- MODULE StoreProperties --------------------------
(***************************************************************************)
(* What the store must guarantee, over the state of UpdatableStore.        *)
(***************************************************************************)
EXTENDS UpdatableStore

\* Every variable has the type its declaration states.
TypeOK ==
    /\ buffer \in SUBSET Copies
    /\ segs \in [SegIds -> SUBSET Copies]
    /\ present \in SUBSET SegIds
    /\ home \in [Ids -> Places]
    /\ next \in 0 .. MaxSegments
    /\ manifest \in Manifests
    /\ cache \in [SegIds -> {Absent} \cup Graphs]
    /\ persisted \in SUBSET SegIds
    /\ live_cache \in {Absent} \cup Graphs
    /\ pending \in {NoBatch} \cup Seq(Copies)
    /\ sidecar \in [SegIds -> {Absent} \cup Graphs]

\* Between two calls, the graph a search takes for a segment, cached, read
\* from a sidecar or built, is over exactly the copies that are live in it: a
\* deleted id does not come back from memory or from a file, an old vector is
\* not served, no live copy is missing.  This is so after failed writes,
\* sidecars that could not be deleted, and restarts.
SegmentGraphsCurrent ==
    pending = NoBatch =>
        \A s \in present : SegmentGraph(s) = GraphOver(LiveIn(s))

\* A segment that a checkpoint skips because it is noted as persisted has its
\* current graph on disk, where the next start finds it.
PersistedCurrent ==
    \A s \in persisted \cap present : sidecar[s] = GraphOver(LiveIn(s))

BufferGraphCurrent == BufferGraph = GraphOver(LiveBuffer)

\* The graph over the buffer, unlike those of the segments, can go stale, and
\* then a search returns what was replaced, or an id twice.  Two error returns
\* are the only steps that end a call so: a batch that fails half way, and a
\* checkpoint or merge that fails after it sealed the buffer.
OnlyErrorsLeaveBufferStale ==
    [][(pending' = NoBatch /\ ~BufferGraphCurrent')
          => \/ pending = NoBatch /\ ~BufferGraphCurrent
             \/ ExtendFails \/ CompactFails]_writerVars
=============================================================================
