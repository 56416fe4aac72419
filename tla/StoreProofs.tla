---------------------------- MODULE StoreProofs ----------------------------
(***************************************************************************)
(* Proofs about the store and its snapshots, for any ids, vectors, flush   *)
(* threshold, batches and number of segments.                              *)
(***************************************************************************)
EXTENDS StoreSnapshot, TLAPS

-----------------------------------------------------------------------------
(* The segmented store                                                     *)

StoreTypes ==
    /\ buffer \in SUBSET Copies
    /\ segs \in [SegIds -> SUBSET Copies]
    /\ present \in SUBSET SegIds
    /\ home \in [Ids -> Places]
    /\ next \in 0 .. MaxSegments
    /\ manifest \in Manifests

\* A set of copies with at most one of an id.
OnePerId(copies) == \A c, d \in copies : c.id = d.id => c = d

\* Numbers that were not given yet name nothing.
UnusedSegments ==
    \A s \in SegIds : s >= next =>
        /\ s \notin present /\ s \notin manifest.segments
        /\ \A id \in Ids : home[id] # s

\* What is live in a checkpointed segment was live there at the checkpoint.
ManifestHomes ==
    \A s \in manifest.segments, id \in Ids : home[id] = s => manifest.home[id] = s

\* A buffered id is live there or not at all.
BufferHomes == \A c \in buffer : home[c.id] \in {InBuffer, Nowhere}

StoreInv ==
    /\ StoreTypes /\ BufferHomes
    /\ OnePerId(buffer) /\ \A s \in SegIds : OnePerId(segs[s])
    /\ UnusedSegments /\ ManifestHomes

\* A step of the store changes no segment, and what is live in a segment only
\* becomes less, and only in the segments S.
Kept(S) ==
    /\ next <= next' /\ next' \in 0 .. MaxSegments
    /\ \A s \in SegIds : s < next =>
         /\ segs'[s] = segs[s]
         /\ \A id \in Ids : home'[id] = s => home[id] = s
         /\ s \notin S => \A id \in Ids : home[id] = s => home'[id] = s
         /\ s \in present' => s \in present

\* Segment numbers are integers, and places that are not segments are none.
LEMMA PlaceFacts ==
    /\ MaxSegments \in Nat
    /\ \A s \in SegIds : s \in Nat /\ s < MaxSegments
    /\ \A s \in Nat : s < MaxSegments => s \in SegIds
    /\ InBuffer \notin SegIds /\ Nowhere \notin SegIds /\ InBuffer # Nowhere
BY StoreAssumption DEF SegIds

\* What is live in a segment, before and after a step.
LEMMA KeptLive ==
    ASSUME StoreInv, NEW S, Kept(S), NEW s \in SegIds, s < next
    PROVE  /\ LiveIn(s)' \subseteq LiveIn(s)
           /\ s \notin S => LiveIn(s)' = LiveIn(s)
<1>1. \A c \in segs[s] : c.id \in Ids
  BY DEF StoreInv, StoreTypes, Copies
<1> QED BY <1>1 DEF Kept, LiveIn

\* Sealing a set of copies under homes h that differ from the present ones
\* only by moving ids to the buffer.
LEMMA SealKept ==
    ASSUME StoreInv, NEW sealed \in SUBSET Copies, OnePerId(sealed),
           NEW h \in [Ids -> Places], NEW ids \in SUBSET Ids,
           \A id \in Ids : h[id] = IF id \in ids THEN InBuffer ELSE home[id],
           Seal(sealed, h), manifest' = manifest \/ WriteManifest
    PROVE  StoreInv' /\ Kept(Owners(ids)) /\ present \subseteq present'
<1>1. StoreTypes'
  <2>1. next' \in 0 .. MaxSegments
    BY PlaceFacts DEF Seal, StoreInv, StoreTypes
  <2>2. home' \in [Ids -> Places]
    BY DEF Seal, Places
  <2>3. segs' \in [SegIds -> SUBSET Copies] /\ present' \in SUBSET SegIds /\ buffer' \in SUBSET Copies
    BY DEF Seal, StoreInv, StoreTypes
  <2>4. manifest' \in Manifests
    BY <2>2, <2>3 DEF WriteManifest, StoreInv, StoreTypes, Manifests
  <2> QED BY <2>1, <2>2, <2>3, <2>4 DEF StoreTypes
<1>2. OnePerId(buffer') /\ \A s \in SegIds : OnePerId(segs'[s])
  BY DEF Seal, StoreInv, StoreTypes, OnePerId
<1>3. next' = next + 1 /\ next \in SegIds /\ next \in Nat
  BY PlaceFacts DEF Seal, StoreInv, StoreTypes
<1>4. \A id \in Ids : home'[id] # next => home'[id] = home[id] /\ id \notin ids /\ home[id] # InBuffer
  BY PlaceFacts DEF Seal
<1>5. Kept(Owners(ids))
  <2>1. \A s \in SegIds : s < next => segs'[s] = segs[s] /\ (s \in present' => s \in present)
    BY <1>3, PlaceFacts DEF Seal, StoreInv, StoreTypes
  <2>2. \A s \in SegIds, id \in Ids : s < next /\ home'[id] = s => home[id] = s
    BY <1>3, <1>4, PlaceFacts
  <2>3. \A s \in SegIds, id \in Ids :
           s < next /\ s \notin Owners(ids) /\ home[id] = s => home'[id] = s
    BY <1>3, PlaceFacts DEF Seal, Owners
  <2>4. next <= next' /\ next' \in 0 .. MaxSegments
    BY <1>3, <1>1 DEF StoreTypes
  <2> QED BY <2>1, <2>2, <2>3, <2>4 DEF Kept
<1>6. UnusedSegments'
  <2>1. \A s \in SegIds : s >= next' => s >= next /\ s # next
    BY <1>3, PlaceFacts
  <2>2. \A s \in SegIds : s >= next' => s \notin present' /\ \A id \in Ids : home'[id] # s
    BY <2>1, <1>3, <1>4 DEF Seal, StoreInv, UnusedSegments
  <2>3. \A s \in SegIds : s >= next' => s \notin manifest'.segments
    BY <2>1, <2>2 DEF StoreInv, UnusedSegments, WriteManifest
  <2> QED BY <2>2, <2>3 DEF UnusedSegments
<1>7. ManifestHomes'
  <2>1. CASE WriteManifest
    BY <2>1 DEF WriteManifest, ManifestHomes
  <2>2. CASE manifest' = manifest
    <3>1. next \notin manifest.segments
      BY <1>3 DEF StoreInv, UnusedSegments
    <3> QED BY <2>2, <3>1, <1>4 DEF StoreInv, ManifestHomes
  <2> QED BY <2>1, <2>2
<1>8. present \subseteq present' /\ BufferHomes'
  BY DEF Seal, BufferHomes
<1> QED BY <1>1, <1>2, <1>5, <1>6, <1>7, <1>8 DEF StoreInv

\* An added copy takes its id away from the segment that held it, and from no other.
LEMMA AddKept ==
    ASSUME StoreInv, NEW c \in Copies, StoreAdd(c)
    PROVE  StoreInv' /\ Kept(Owners({c.id})) /\ present \subseteq present'
<1> DEFINE b == {d \in buffer : d.id # c.id} \cup {c}
           h == [home EXCEPT ![c.id] = InBuffer]
<1>1. c.id \in Ids /\ b \in SUBSET Copies /\ OnePerId(b)
  BY DEF StoreInv, StoreTypes, OnePerId, Copies
<1>2. /\ h \in [Ids -> Places]
      /\ \A id \in Ids : h[id] = IF id \in {c.id} THEN InBuffer ELSE home[id]
  BY <1>1 DEF StoreInv, StoreTypes, Places
<1>3. \/ buffer' = b /\ home' = h /\ UNCHANGED <<segs, present, next, manifest>>
      \/ Seal(b, h) /\ manifest' = manifest
  BY DEF StoreAdd
<1>4. CASE Seal(b, h) /\ manifest' = manifest
  <2> HIDE DEF b, h
  <2> QED BY <1>1, <1>2, <1>4, SealKept
<1>5. CASE buffer' = b /\ home' = h /\ UNCHANGED <<segs, present, next, manifest>>
  <2> HIDE DEF b, h
  <2>1. \A id \in Ids : home'[id] # home[id] => id = c.id /\ home'[id] = InBuffer
    BY <1>2, <1>5
  <2>2. \A s \in SegIds, id \in Ids : home'[id] = s => home[id] = s
    BY <2>1, PlaceFacts
  <2>3. \A s \in SegIds, id \in Ids : s \notin Owners({c.id}) /\ home[id] = s => home'[id] = s
    BY <2>1 DEF Owners
  <2>4. next <= next' /\ next' \in 0 .. MaxSegments
    BY <1>5, PlaceFacts DEF StoreInv, StoreTypes
  <2>5. Kept(Owners({c.id}))
    BY <1>5, <2>2, <2>3, <2>4 DEF Kept
  <2>6. StoreTypes' /\ OnePerId(buffer')
    BY <1>1, <1>2, <1>5 DEF StoreInv, StoreTypes
  <2>7. UnusedSegments' /\ ManifestHomes'
    BY <1>5, <2>2 DEF StoreInv, StoreTypes, Manifests, UnusedSegments, ManifestHomes
  <2>8. BufferHomes'
    <3> SUFFICES ASSUME NEW d \in b PROVE home'[d.id] \in {InBuffer, Nowhere}
      BY <1>5 DEF BufferHomes
    <3>1. d.id \in Ids /\ (d.id # c.id => d \in buffer)
      BY <1>1 DEF b, Copies
    <3> QED BY <3>1, <1>2, <1>5 DEF StoreInv, BufferHomes
  <2> QED BY <1>5, <2>5, <2>6, <2>7, <2>8 DEF StoreInv
<1> QED BY <1>3, <1>4, <1>5

LEMMA DeleteKept ==
    ASSUME StoreInv, NEW id \in Ids, StoreDelete(id)
    PROVE  StoreInv' /\ Kept(Owners({id})) /\ present \subseteq present'
<1>1. \A x \in Ids : home'[x] # home[x] => x = id /\ home'[x] = Nowhere
  BY DEF StoreDelete, StoreInv, StoreTypes
<1>2. \A s \in SegIds, x \in Ids : home'[x] = s => home[x] = s
  BY <1>1, PlaceFacts
<1>3. \A s \in SegIds, x \in Ids : s \notin Owners({id}) /\ home[x] = s => home'[x] = s
  BY <1>1 DEF Owners
<1>4. next <= next' /\ next' \in 0 .. MaxSegments
  BY PlaceFacts DEF StoreDelete, StoreInv, StoreTypes
<1>5. Kept(Owners({id}))
  BY <1>2, <1>3, <1>4 DEF Kept, StoreDelete
<1>6. StoreTypes'
  BY DEF StoreDelete, StoreInv, StoreTypes, Places
<1>7. UnusedSegments' /\ ManifestHomes'
  BY <1>2 DEF StoreDelete, StoreInv, StoreTypes, Manifests, UnusedSegments, ManifestHomes
<1>8. BufferHomes'
  <2>1. \A c \in buffer : c.id \in Ids
    BY DEF StoreInv, StoreTypes, Copies
  <2> QED BY <2>1, <1>1 DEF StoreInv, BufferHomes, StoreDelete
<1> QED BY <1>5, <1>6, <1>7, <1>8 DEF StoreInv, StoreDelete

\* Nothing of the store changes, or at most the manifest.
LEMMA SameKept ==
    ASSUME StoreInv, UNCHANGED <<buffer, segs, present, home, next>>,
           manifest' = manifest \/ WriteManifest
    PROVE  StoreInv' /\ Kept({}) /\ present \subseteq present'
<1>1. StoreTypes'
  BY DEF StoreInv, StoreTypes, WriteManifest, Manifests
<1>2. UnusedSegments' /\ ManifestHomes'
  BY DEF StoreInv, WriteManifest, UnusedSegments, ManifestHomes
<1>3. Kept({})
  BY PlaceFacts DEF StoreInv, StoreTypes, Kept
<1> QED BY <1>1, <1>2, <1>3 DEF StoreInv, BufferHomes

LEMMA FlushKept ==
    ASSUME StoreInv, StoreFlush, manifest' = manifest \/ WriteManifest
    PROVE  StoreInv' /\ Kept({}) /\ present \subseteq present'
<1>1. CASE UNCHANGED <<buffer, segs, present, home, next>>
  BY <1>1, SameKept
<1>2. CASE Seal(buffer, home)
  <2>1. home \in [Ids -> Places] /\ buffer \in SUBSET Copies /\ OnePerId(buffer)
    BY DEF StoreInv, StoreTypes
  <2>2. Owners({}) = {}
    BY DEF Owners
  <2> QED BY <1>2, <2>1, <2>2, SealKept
<1> QED BY <1>1, <1>2 DEF StoreFlush

\* A merge empties the segments it reads and keeps what the others hold live.
LEMMA MergeKept ==
    ASSUME StoreInv, NEW S \in SUBSET present, StoreMerge(S)
    PROVE  StoreInv' /\ Kept(S) /\ present' \cap S = {} /\ present \ S \subseteq present'
<1>1. next' = next + 1 /\ next \in SegIds /\ next \in Nat
  BY PlaceFacts DEF StoreMerge, StoreInv, StoreTypes
<1>2. next \notin S /\ next \notin present /\ next \notin manifest.segments
  BY <1>1 DEF StoreInv, UnusedSegments
<1>3. \A id \in Ids : home'[id] # next =>
          home'[id] = home[id] /\ home[id] \notin S /\ home[id] # InBuffer
  BY DEF StoreMerge
<1>4. Merged(S) \in SUBSET Copies /\ OnePerId(Merged(S))
  <2>1. \A s \in S : s \in SegIds /\ s # InBuffer /\ s # Nowhere
    BY PlaceFacts DEF StoreInv, StoreTypes
  <2>2. Merged(S) \in SUBSET Copies
    BY <2>1 DEF Merged, LiveBuffer, LiveIn, StoreInv, StoreTypes
  <2>3. \A c \in Merged(S) :
           \/ c \in buffer /\ home[c.id] = InBuffer
           \/ home[c.id] \in S /\ c \in segs[home[c.id]]
    BY DEF Merged, LiveBuffer, LiveIn, StoreInv, BufferHomes
  <2> QED BY <2>1, <2>2, <2>3 DEF OnePerId, StoreInv
<1>5. StoreTypes'
  <2>1. next' \in 0 .. MaxSegments
    BY <1>1, PlaceFacts
  <2>2. home' \in [Ids -> Places]
    BY <1>1 DEF StoreMerge, StoreInv, StoreTypes, Places
  <2>3. segs' \in [SegIds -> SUBSET Copies] /\ present' \in SUBSET SegIds /\ buffer' \in SUBSET Copies
    BY <1>1, <1>4 DEF StoreMerge, StoreInv, StoreTypes
  <2>4. manifest' \in Manifests
    BY <2>2, <2>3 DEF StoreMerge, WriteManifest, Manifests
  <2> QED BY <2>1, <2>2, <2>3, <2>4 DEF StoreTypes
<1>6. Kept(S)
  <2>1. \A s \in SegIds : s < next => segs'[s] = segs[s] /\ (s \in present' => s \in present)
    BY <1>1, PlaceFacts DEF StoreMerge, StoreInv, StoreTypes
  <2>2. \A s \in SegIds, id \in Ids : s < next /\ home'[id] = s => home[id] = s
    BY <1>1, <1>3, PlaceFacts
  <2>3. \A s \in SegIds, id \in Ids : s < next /\ s \notin S /\ home[id] = s => home'[id] = s
    BY <1>1, PlaceFacts DEF StoreMerge
  <2>4. next <= next' /\ next' \in 0 .. MaxSegments
    BY <1>1, <1>5 DEF StoreTypes
  <2> QED BY <2>1, <2>2, <2>3, <2>4 DEF Kept
<1>7. UnusedSegments'
  <2>1. \A s \in SegIds : s >= next' => s >= next /\ s # next
    BY <1>1, PlaceFacts
  <2>2. \A s \in SegIds : s >= next' => s \notin present' /\ \A id \in Ids : home'[id] # s
    BY <2>1, <1>1, <1>3 DEF StoreMerge, StoreInv, UnusedSegments
  <2> QED BY <2>2 DEF UnusedSegments, StoreMerge, WriteManifest
<1>8. ManifestHomes' /\ BufferHomes'
  BY DEF StoreMerge, WriteManifest, ManifestHomes, BufferHomes
<1>9. OnePerId(buffer') /\ \A s \in SegIds : OnePerId(segs'[s])
  BY <1>1, <1>4 DEF StoreMerge, StoreInv, StoreTypes, OnePerId
<1>10. present' \cap S = {} /\ present \ S \subseteq present'
  BY <1>2 DEF StoreMerge
<1> QED BY <1>5, <1>6, <1>7, <1>8, <1>9, <1>10 DEF StoreInv

-----------------------------------------------------------------------------
(* The graphs of the segments                                              *)

\* A graph of segment s from some moment since it was sealed: over copies of
\* it, and over all that are live in it now.
Honest(graph, s) ==
    graph \subseteq GraphOver(segs[s]) /\ GraphOver(LiveIn(s)) \subseteq graph

GraphTypes ==
    /\ cache \in [SegIds -> {Absent} \cup Graphs]
    /\ persisted \in SUBSET present
    /\ live_cache \in {Absent} \cup Graphs
    /\ pending \in {NoBatch} \cup Seq(Copies)
    /\ sidecar \in [SegIds -> {Absent} \cup Graphs]
    /\ \A s \in SegIds : s >= next => cache[s] = Absent /\ sidecar[s] = Absent

SidecarsHonest == \A s \in SegIds : sidecar[s] # Absent => Honest(sidecar[s], s)

CacheCurrent == \A s \in SegIds : cache[s] # Absent => cache[s] = GraphOver(LiveIn(s))

\* What extend has still to write takes copies only from segments whose graphs
\* were dropped before the first write.
BatchDropped ==
    pending # NoBatch =>
        \A i \in DOMAIN pending :
            home[pending[i].id] \in SegIds =>
                cache[home[pending[i].id]] = Absent /\ home[pending[i].id] \notin persisted

Inv == StoreInv /\ GraphTypes /\ SidecarsHonest /\ CacheCurrent /\ BatchDropped

\* A graph is a set of copies, and none is Absent.
LEMMA GraphFacts ==
    /\ Absent \notin Graphs
    /\ \A copies \in SUBSET Copies : GraphOver(copies) \in Graphs
BY UpdatableAssumption DEF Graphs, GraphOver

LEMMA LiveTypes ==
    ASSUME StoreInv, NEW s \in SegIds
    PROVE  LiveIn(s) \subseteq segs[s] /\ LiveIn(s) \in SUBSET Copies
BY DEF LiveIn, StoreInv, StoreTypes

\* A graph over copies of a segment that covers the live ones, and whose ids
\* load_sidecar accepts, is the graph over the live ones.
LEMMA AcceptedIsCurrent ==
    ASSUME NEW base, NEW live \in SUBSET base, NEW graph \in SUBSET GraphOver(base), OnePerId(base),
           GraphOver(live) \subseteq graph, Accepts(graph, live)
    PROVE  graph = GraphOver(live)
<1>1. ASSUME NEW c \in graph PROVE c \in GraphOver(live)
  <2>1. c \in base /\ c.vec \notin Rejected
    BY DEF GraphOver
  <2>2. PICK d \in live : d.id = c.id
    BY DEF Accepts, IdsOf
  <2>3. c = d
    BY <2>1, <2>2 DEF OnePerId
  <2> QED BY <2>1, <2>2, <2>3 DEF GraphOver
<1> QED BY <1>1

\* What build_or_load returns is the graph over what is live.
LEMMA GraphForCurrent ==
    ASSUME StoreInv, SidecarsHonest, NEW s \in SegIds
    PROVE  GraphFor(s) = GraphOver(LiveIn(s))
<1>1. CASE Accepts(sidecar[s], LiveIn(s))
  <2>1. Honest(sidecar[s], s)
    BY <1>1 DEF SidecarsHonest, Accepts
  <2>2. OnePerId(segs[s]) /\ LiveIn(s) \in SUBSET segs[s]
    BY LiveTypes DEF StoreInv
  <2>3. sidecar[s] = GraphOver(LiveIn(s))
    BY <1>1, <2>1, <2>2, AcceptedIsCurrent DEF Honest
  <2> QED BY <1>1, <2>3 DEF GraphFor
<1> QED BY <1>1 DEF GraphFor

\* The graph over what is live, after a step.
LEMMA NextCurrentHonest ==
    ASSUME StoreInv', NEW s \in SegIds
    PROVE  (GraphOver(LiveIn(s)) \subseteq GraphOver(segs[s]))' /\ (GraphOver(LiveIn(s)) \in Graphs)'
BY DEF GraphOver, LiveIn, Graphs, StoreInv, StoreTypes

\* Graphs stay right when every one is dropped, rebuilt, or belongs to a
\* segment that lost nothing; a sidecar may also stay that did.
LEMMA GraphsKept ==
    ASSUME Inv, StoreInv', GraphTypes', NEW S, Kept(S),
           \A s \in SegIds : \/ cache'[s] = Absent
                             \/ cache'[s] = cache[s] /\ s \notin S
                             \/ cache'[s] = GraphOver(LiveIn(s)'),
           \A s \in SegIds : \/ sidecar'[s] \in {Absent, sidecar[s]}
                             \/ sidecar'[s] = GraphOver(LiveIn(s)')
    PROVE  CacheCurrent' /\ SidecarsHonest'
<1>1. next \in Nat /\ \A s \in SegIds : s \in Nat
  BY PlaceFacts DEF Inv, StoreInv, StoreTypes
<1>2. ASSUME NEW s \in SegIds, cache'[s] # Absent PROVE cache'[s] = GraphOver(LiveIn(s)')
  <2>1. CASE cache'[s] = cache[s] /\ s \notin S
    <3>1. s < next /\ cache[s] = GraphOver(LiveIn(s))
      BY <1>1, <1>2, <2>1 DEF Inv, GraphTypes, CacheCurrent
    <3>2. LiveIn(s)' = LiveIn(s)
      BY <2>1, <3>1, KeptLive DEF Inv
    <3> QED BY <2>1, <3>1, <3>2
  <2> QED BY <1>2, <2>1
<1>3. ASSUME NEW s \in SegIds, sidecar'[s] # Absent PROVE Honest(sidecar[s], s)'
  <2>1. CASE sidecar'[s] = sidecar[s]
    <3>1. s < next /\ Honest(sidecar[s], s)
      BY <1>1, <1>3, <2>1 DEF Inv, GraphTypes, SidecarsHonest
    <3>2. LiveIn(s)' \subseteq LiveIn(s) /\ segs'[s] = segs[s]
      BY <3>1, KeptLive DEF Inv, Kept
    <3> QED BY <2>1, <3>1, <3>2 DEF Honest, GraphOver
  <2>2. CASE sidecar'[s] = GraphOver(LiveIn(s)')
    BY <2>2, NextCurrentHonest DEF Honest, GraphOver
  <2> QED BY <1>3, <2>1, <2>2
<1>4. CacheCurrent'
  BY <1>2 DEF CacheCurrent, GraphOver, LiveIn
<1> QED BY <1>3, <1>4 DEF SidecarsHonest

-----------------------------------------------------------------------------
(* The steps of the writer                                                 *)

\* What Drop leaves.
LEMMA DropFacts ==
    ASSUME Inv, NEW S \in SUBSET SegIds, Drop(S)
    PROVE  /\ cache' \in [SegIds -> {Absent} \cup Graphs]
           /\ sidecar' \in [SegIds -> {Absent} \cup Graphs]
           /\ persisted' = persisted \ S
           /\ \A s \in SegIds : cache'[s] = IF s \in S THEN Absent ELSE cache[s]
           /\ \A s \in SegIds : sidecar'[s] \in {Absent, sidecar[s]}
           /\ \A s \in SegIds : s \notin S => sidecar'[s] = sidecar[s]
BY DEF Drop, Inv, GraphTypes

\* A write: the store moves, the graphs of the segments concerned are dropped,
\* and nothing is left of a batch.
LEMMA DropStep ==
    ASSUME Inv, StoreInv', NEW S \in SUBSET SegIds, Kept(S), present \subseteq present', Drop(S),
           pending' = NoBatch, live_cache' \in {Absent} \cup Graphs
    PROVE  Inv'
<1>1. next <= next' /\ next \in Nat /\ next' \in Nat /\ \A s \in SegIds : s \in Nat
  BY PlaceFacts DEF Kept, Inv, StoreInv, StoreTypes
<1>2. \A s \in SegIds : s >= next' => cache'[s] = Absent /\ sidecar'[s] = Absent
  <2> SUFFICES ASSUME NEW s \in SegIds, s >= next' PROVE cache'[s] = Absent /\ sidecar'[s] = Absent
    OBVIOUS
  <2>1. s >= next
    BY <1>1
  <2>2. cache[s] = Absent /\ sidecar[s] = Absent
    BY <2>1 DEF Inv, GraphTypes
  <2> QED BY <2>2, DropFacts
<1>3. GraphTypes'
  <2>1. persisted' \in SUBSET present'
    BY DropFacts DEF Inv, GraphTypes
  <2> QED BY <1>2, <2>1, DropFacts DEF GraphTypes
<1>4. CacheCurrent' /\ SidecarsHonest'
  <2>1. \A s \in SegIds : cache'[s] = Absent \/ (cache'[s] = cache[s] /\ s \notin S)
    BY DropFacts
  <2>2. \A s \in SegIds : sidecar'[s] \in {Absent, sidecar[s]}
    BY DropFacts
  <2> QED BY <1>3, <2>1, <2>2, GraphsKept
<1> QED BY <1>3, <1>4 DEF Inv, BatchDropped

LEMMA OwnersTypes == \A ids : Owners(ids) \in SUBSET SegIds
BY DEF Owners

LEMMA WriteStep ==
    ASSUME Inv
    PROVE  /\ \A c \in Copies : Add(c) => Inv'
           /\ \A id \in Ids : Delete(id) \/ WriteFails(id) => Inv'
<1>1. ASSUME NEW c \in Copies, Add(c) PROVE Inv'
  <2>1. StoreInv' /\ Kept(Owners({c.id})) /\ present \subseteq present'
    BY <1>1, AddKept DEF Add, Inv
  <2> QED BY <1>1, <2>1, DropStep, OwnersTypes DEF Add
<1>2. ASSUME NEW id \in Ids, Delete(id) PROVE Inv'
  <2>1. StoreInv' /\ Kept(Owners({id})) /\ present \subseteq present'
    BY <1>2, DeleteKept DEF Delete, Inv
  <2> QED BY <1>2, <2>1, DropStep, OwnersTypes DEF Delete
<1>3. ASSUME NEW id \in Ids, WriteFails(id) PROVE Inv'
  <2>1. StoreInv' /\ Kept({}) /\ present \subseteq present'
    BY <1>3, SameKept DEF WriteFails, storeVars, Inv
  <2>2. Kept(Owners({id}))
    BY <2>1 DEF Kept
  <2> QED BY <1>3, <2>1, <2>2, DropStep, OwnersTypes DEF WriteFails
<1> QED BY <1>1, <1>2, <1>3

\* extend drops the graphs of all the segments it will take copies from.
LEMMA BeginExtendStep ==
    ASSUME Inv, NEW batch \in Batches, BeginExtend(batch)
    PROVE  Inv'
<1> DEFINE S == Owners({batch[i].id : i \in DOMAIN batch})
<1>1. StoreInv' /\ Kept({}) /\ present \subseteq present' /\ next' = next /\ home' = home
  BY SameKept DEF BeginExtend, storeVars, Inv
<1>2. Kept(S) /\ S \in SUBSET SegIds /\ Drop(S)
  BY <1>1, OwnersTypes DEF Kept, BeginExtend
<1>3. GraphTypes'
  <2>1. pending' \in Seq(Copies)
    BY UpdatableAssumption DEF BeginExtend
  <2>2. persisted' \in SUBSET present'
    BY <1>1, <1>2, DropFacts DEF Inv, GraphTypes
  <2>3. \A s \in SegIds : s >= next' => cache'[s] = Absent /\ sidecar'[s] = Absent
    BY <1>1, <1>2, DropFacts DEF Inv, GraphTypes
  <2>4. live_cache' = live_cache
    BY DEF BeginExtend
  <2> HIDE DEF S
  <2> QED BY <2>1, <2>2, <2>3, <2>4, <1>2, DropFacts DEF GraphTypes, Inv
<1>4. CacheCurrent' /\ SidecarsHonest'
  <2> HIDE DEF S
  <2>1. \A s \in SegIds : cache'[s] = Absent \/ (cache'[s] = cache[s] /\ s \notin S)
    BY <1>2, DropFacts
  <2>2. \A s \in SegIds : sidecar'[s] \in {Absent, sidecar[s]}
    BY <1>2, DropFacts
  <2> QED BY <1>1, <1>2, <1>3, <2>1, <2>2, GraphsKept
<1>5. BatchDropped'
  <2>1. pending' = batch
    BY DEF BeginExtend
  <2>2. \A i \in DOMAIN batch : home[batch[i].id] \in SegIds => home[batch[i].id] \in S
    BY DEF Owners
  <2> HIDE DEF S
  <2> QED BY <2>1, <2>2, <1>1, <1>2, DropFacts DEF BatchDropped
<1> QED BY <1>1, <1>3, <1>4, <1>5 DEF Inv

\* The copy that a batch writes comes from no segment with a graph.
LEMMA ExtendOneStep == Inv /\ ExtendOne => Inv'
<1> SUFFICES ASSUME Inv, ExtendOne PROVE Inv'
  OBVIOUS
<1> DEFINE c == Head(pending)
           S == Owners({c.id})
<1>1. pending \in Seq(Copies) /\ pending # <<>> /\ c \in Copies /\ c.id \in Ids
  <2>1. pending \in Seq(Copies) /\ pending # <<>>
    BY DEF ExtendOne, Inv, GraphTypes
  <2>2. c \in Copies
    BY <2>1
  <2>3. c.id \in Ids
    BY <2>2 DEF Copies
  <2> QED BY <2>1, <2>2, <2>3
<1>2. StoreInv' /\ Kept(S) /\ present \subseteq present'
  BY <1>1, AddKept DEF ExtendOne, Inv
<1>3. \A s \in S : cache[s] = Absent /\ s \notin persisted
  <2>1. 1 \in DOMAIN pending /\ pending[1] = c /\ pending # NoBatch
    BY <1>1, UpdatableAssumption
  <2> QED BY <2>1 DEF Inv, BatchDropped, Owners
<1>4. UNCHANGED <<cache, persisted, live_cache, sidecar>> /\ pending' = Tail(pending)
  BY DEF ExtendOne
<1>5. next <= next' /\ next \in Nat /\ next' \in Nat /\ \A s \in SegIds : s \in Nat
  BY <1>2, PlaceFacts DEF Kept, Inv, StoreInv, StoreTypes
<1>6. GraphTypes'
  <2>1. pending' \in Seq(Copies)
    BY <1>1, <1>4
  <2>2. \A s \in SegIds : s >= next' => s >= next
    BY <1>5
  <2> QED BY <2>1, <2>2, <1>2, <1>4 DEF Inv, GraphTypes
<1>7. CacheCurrent' /\ SidecarsHonest'
  <2>1. \A s \in SegIds : cache'[s] = Absent \/ (cache'[s] = cache[s] /\ s \notin S)
    BY <1>3, <1>4
  <2> HIDE DEF S
  <2> QED BY <1>2, <1>4, <1>6, <2>1, GraphsKept
<1>8. BatchDropped'
  <2> SUFFICES ASSUME NEW i \in DOMAIN Tail(pending), home'[Tail(pending)[i].id] \in SegIds
               PROVE  /\ cache[home'[Tail(pending)[i].id]] = Absent
                      /\ home'[Tail(pending)[i].id] \notin persisted
    BY <1>4 DEF BatchDropped
  <2>1. i + 1 \in DOMAIN pending /\ Tail(pending)[i] = pending[i + 1] /\ pending[i + 1] \in Copies
    BY <1>1
  <2> DEFINE x == pending[i + 1].id
             s == home'[x]
  <2>2. x \in Ids /\ s \in SegIds
    BY <2>1 DEF Copies
  <2>3. CASE s >= next
    BY <2>1, <2>2, <2>3 DEF Inv, GraphTypes, StoreInv, UnusedSegments
  <2>4. CASE s < next
    <3>1. home[x] = s
      BY <2>2, <2>4, <1>2 DEF Kept
    <3>2. pending # NoBatch
      BY <1>1, UpdatableAssumption
    <3> QED BY <3>1, <3>2, <2>1, <2>2 DEF Inv, BatchDropped
  <2> QED BY <2>2, <2>3, <2>4, <1>5
<1> QED BY <1>2, <1>6, <1>7, <1>8 DEF Inv

\* The steps of a batch that write nothing, errors of merges, and restarts.
LEMMA QuietStep ==
    ASSUME Inv, EndExtend \/ ExtendFails \/ CompactNothing \/ CompactFails \/ Reopen
    PROVE  Inv'
<1>1. StoreInv' /\ Kept({}) /\ present \subseteq present'
  <2>1. CASE CompactFails
    BY <2>1, FlushKept DEF CompactFails, Inv
  <2>2. CASE EndExtend \/ ExtendFails \/ CompactNothing \/ Reopen
    BY <2>2, SameKept DEF EndExtend, ExtendFails, CompactNothing, Reopen, storeVars, Inv
  <2> QED BY <2>1, <2>2
<1>2. /\ cache' \in {cache, NoGraphs} /\ sidecar' = sidecar /\ persisted' \in {persisted, {}}
      /\ live_cache' \in {live_cache, Absent} /\ pending' \in {NoBatch, pending}
  BY DEF EndExtend, ExtendFails, CompactNothing, CompactFails, Reopen, processVars
<1>3. next <= next' /\ next \in Nat /\ next' \in Nat /\ \A s \in SegIds : s \in Nat
  BY <1>1, PlaceFacts DEF Kept, Inv, StoreInv, StoreTypes
<1>4. GraphTypes'
  <2>1. \A s \in SegIds : s >= next' => s >= next
    BY <1>3
  <2> QED BY <2>1, <1>1, <1>2 DEF Inv, GraphTypes, NoGraphs
<1>5. CacheCurrent' /\ SidecarsHonest'
  <2>1. \A s \in SegIds : cache'[s] = Absent \/ (cache'[s] = cache[s] /\ s \notin {})
    BY <1>2 DEF NoGraphs
  <2> QED BY <1>1, <1>2, <1>4, <2>1, GraphsKept
<1>6. pending' = NoBatch
  BY DEF EndExtend, ExtendFails, CompactNothing, CompactFails, Reopen, processVars
<1> QED BY <1>1, <1>4, <1>5, <1>6 DEF Inv, BatchDropped

\* persist_new_segments: what it writes, and what it then notes as persisted.
LEMMA PersistFacts ==
    ASSUME Inv, StoreInv', NEW removed, NEW written, Persist(removed, written)
    PROVE  /\ persisted' \in SUBSET present'
           /\ sidecar' \in [SegIds -> {Absent} \cup Graphs]
           /\ \A s \in SegIds : \/ sidecar'[s] \in {Absent, sidecar[s]}
                                \/ s \in present' /\ sidecar'[s] = GraphOver(LiveIn(s)')
<1>1. \A s \in SegIds : GraphOver(LiveIn(s)') \in Graphs
  BY NextCurrentHonest DEF GraphOver
<1>2. \A s \in SegIds : sidecar[s] \in {Absent} \cup Graphs
  BY DEF Inv, GraphTypes
<1>3. present' \in SUBSET SegIds
  BY DEF StoreInv, StoreTypes
<1> QED BY <1>1, <1>2, <1>3 DEF Persist

\* A checkpoint, or a merge of the segments S.
LEMMA PersistStep ==
    ASSUME Inv, StoreInv', NEW S \in SUBSET SegIds, Kept(S), present' \cap S = {},
           NEW written, Persist(S, written), pending' = NoBatch, live_cache' = Absent,
           \A s \in SegIds : cache'[s] = Absent \/ (cache'[s] = cache[s] /\ s \notin S),
           cache' \in [SegIds -> {Absent} \cup Graphs]
    PROVE  Inv'
<1>1. next <= next' /\ next \in Nat /\ next' \in Nat /\ \A s \in SegIds : s \in Nat
  BY PlaceFacts DEF Kept, Inv, StoreInv, StoreTypes
<1>2. GraphTypes'
  <2>1. ASSUME NEW s \in SegIds, s >= next' PROVE cache'[s] = Absent /\ sidecar'[s] = Absent
    <3>1. s >= next /\ s \notin present'
      BY <1>1, <2>1 DEF StoreInv, UnusedSegments
    <3>2. cache[s] = Absent /\ sidecar[s] = Absent
      BY <3>1 DEF Inv, GraphTypes
    <3> QED BY <3>1, <3>2, PersistFacts
  <2> QED BY <2>1, PersistFacts DEF GraphTypes
<1>3. \A s \in SegIds : sidecar'[s] \in {Absent, sidecar[s]} \/ sidecar'[s] = GraphOver(LiveIn(s)')
  BY PersistFacts
<1>4. CacheCurrent' /\ SidecarsHonest'
  BY <1>2, <1>3, GraphsKept
<1> QED BY <1>2, <1>4 DEF Inv, BatchDropped

LEMMA CheckpointStep == Inv /\ Checkpoint => Inv'
<1> SUFFICES ASSUME Inv, Checkpoint PROVE Inv'
  OBVIOUS
<1>1. StoreInv' /\ Kept({})
  BY FlushKept DEF Checkpoint, StoreCheckpoint, Inv
<1>2. PICK written \in SUBSET SegIds : Persist({}, written)
  BY DEF Checkpoint
<1>3. cache' = cache /\ pending' = NoBatch /\ live_cache' = Absent
  BY DEF Checkpoint
<1>4. cache' \in [SegIds -> {Absent} \cup Graphs]
  BY <1>3 DEF Inv, GraphTypes
<1> QED BY <1>1, <1>2, <1>3, <1>4, PersistStep

LEMMA CompactStep ==
    ASSUME Inv, NEW S \in SUBSET present, Compact(S)
    PROVE  Inv'
<1>1. StoreInv' /\ Kept(S) /\ present' \cap S = {} /\ S \in SUBSET SegIds
  BY MergeKept DEF Compact, Inv, StoreInv, StoreTypes
<1>2. PICK written \in SUBSET SegIds : Persist(S, written)
  BY DEF Compact
<1>3. cache' = [s \in SegIds |-> IF s \in present' THEN cache[s] ELSE Absent]
  BY DEF Compact
<1>4. cache' \in [SegIds -> {Absent} \cup Graphs]
  BY <1>3 DEF Inv, GraphTypes
<1>5. \A s \in SegIds : cache'[s] = Absent \/ (cache'[s] = cache[s] /\ s \notin S)
  BY <1>1, <1>3
<1>6. pending' = NoBatch /\ live_cache' = Absent
  BY DEF Compact
<1> QED BY <1>1, <1>2, <1>4, <1>5, <1>6, PersistStep

\* A search fills the cache with current graphs and writes current sidecars.
LEMMA SearchStep == Inv /\ Search => Inv'
<1> SUFFICES ASSUME Inv, Search PROVE Inv'
  OBVIOUS
<1>1. StoreInv' /\ Kept({}) /\ present' = present /\ next' = next /\ pending' = NoBatch
  BY SameKept DEF Search, storeVars, Inv
<1>2. \A s \in SegIds : LiveIn(s)' = LiveIn(s) /\ GraphFor(s) = GraphOver(LiveIn(s)) /\ GraphFor(s) \in Graphs
  BY GraphForCurrent, LiveTypes, GraphFacts DEF Search, storeVars, LiveIn, Inv
<1>3. present \in SUBSET SegIds /\ \A s \in SegIds : s >= next => s \notin present
  BY DEF Inv, StoreInv, StoreTypes, UnusedSegments
<1>4. /\ cache' \in [SegIds -> {Absent} \cup Graphs]
      /\ \A s \in SegIds : \/ cache'[s] = cache[s]
                           \/ s \in present /\ cache'[s] = GraphOver(LiveIn(s)')
  BY <1>2 DEF Search, Inv, GraphTypes
<1>5. /\ persisted' \in SUBSET present
      /\ sidecar' \in [SegIds -> {Absent} \cup Graphs]
      /\ \A s \in SegIds : \/ sidecar'[s] = sidecar[s]
                           \/ s \in present /\ sidecar'[s] = GraphOver(LiveIn(s)')
  BY <1>2, <1>3 DEF Search, Inv, GraphTypes
<1>6. live_cache' \in {Absent} \cup Graphs
  <2>1. LiveBuffer \in SUBSET Copies
    BY DEF LiveBuffer, Inv, StoreInv, StoreTypes
  <2> QED BY <2>1, GraphFacts DEF Search, BufferGraph, Inv, GraphTypes
<1>7. GraphTypes'
  BY <1>1, <1>3, <1>4, <1>5, <1>6 DEF Inv, GraphTypes
<1>8. CacheCurrent' /\ SidecarsHonest'
  <2>1. \A s \in SegIds : \/ cache'[s] = Absent
                          \/ cache'[s] = cache[s] /\ s \notin {}
                          \/ cache'[s] = GraphOver(LiveIn(s)')
    BY <1>4
  <2>2. \A s \in SegIds : sidecar'[s] \in {Absent, sidecar[s]} \/ sidecar'[s] = GraphOver(LiveIn(s)')
    BY <1>5
  <2> QED BY <1>1, <1>7, <2>1, <2>2, GraphsKept
<1> QED BY <1>1, <1>7, <1>8 DEF Inv, BatchDropped

LEMMA WriterStep == Inv /\ [Next]_writerVars => Inv'
<1> SUFFICES ASSUME Inv, [Next]_writerVars PROVE Inv'
  OBVIOUS
<1>1. CASE UNCHANGED writerVars
  BY <1>1 DEF writerVars, storeVars, processVars, Inv, StoreInv, StoreTypes, BufferHomes, UnusedSegments,
     ManifestHomes, GraphTypes, SidecarsHonest, Honest, LiveIn, CacheCurrent, BatchDropped
<1> QED BY <1>1, WriteStep, BeginExtendStep, ExtendOneStep, QuietStep, CheckpointStep, CompactStep, SearchStep DEF Next

LEMMA InitInv == Init => Inv
<1> SUFFICES ASSUME Init PROVE Inv
  OBVIOUS
<1>1. StoreInv
  BY PlaceFacts DEF Init, StoreInit, StoreInv, StoreTypes, Manifests, Places, BufferHomes, UnusedSegments, ManifestHomes, OnePerId
<1> QED BY <1>1 DEF Init, StoreInit, NoGraphs, Inv, GraphTypes, SidecarsHonest, CacheCurrent, BatchDropped

-----------------------------------------------------------------------------
(* What the writer guarantees                                              *)

LEMMA InvAlways == Spec => []Inv
BY InitInv, WriterStep, PTL DEF Spec

\* Every variable of the store and of its writer keeps its type.
THEOREM TypeCorrect == Spec => []TypeOK
<1>1. Inv => TypeOK
  BY DEF Inv, StoreInv, StoreTypes, GraphTypes, TypeOK
<1> QED BY <1>1, InvAlways, PTL

LEMMA InvCurrent == Inv => SegmentGraphsCurrent
<1> SUFFICES ASSUME Inv, NEW s \in present PROVE SegmentGraph(s) = GraphOver(LiveIn(s))
  BY DEF SegmentGraphsCurrent
<1>1. s \in SegIds
  BY DEF Inv, StoreInv, StoreTypes
<1> QED BY <1>1, GraphForCurrent DEF SegmentGraph, Inv, CacheCurrent

\* UpdatableIndex::search takes, for every segment, a graph over exactly what
\* is live in it, whatever add, extend, delete, checkpoint, compact and
\* restarts did before.
THEOREM SegmentGraphsCurrentAlways == Spec => []SegmentGraphsCurrent
BY InvCurrent, InvAlways, PTL

\* A noted segment that loses nothing and keeps its file stays current.
LEMMA PersistedKept ==
    ASSUME Inv, PersistedCurrent, NEW S, Kept(S), StoreInv',
           \A s \in persisted' \cap present' :
               \/ s \in persisted /\ s \notin S /\ sidecar'[s] = sidecar[s]
               \/ sidecar'[s] = GraphOver(LiveIn(s)')
    PROVE  PersistedCurrent'
<1> SUFFICES ASSUME NEW s \in persisted' \cap present' PROVE sidecar'[s] = GraphOver(LiveIn(s)')
  BY DEF PersistedCurrent, GraphOver
<1>1. CASE s \in persisted /\ s \notin S /\ sidecar'[s] = sidecar[s]
  <2>1. s \in present /\ s \in SegIds /\ s \in Nat /\ next \in Nat
    BY <1>1, PlaceFacts DEF Inv, GraphTypes, StoreInv, StoreTypes
  <2>2. s < next
    BY <2>1 DEF Inv, StoreInv, UnusedSegments
  <2>3. LiveIn(s)' = LiveIn(s)
    BY <1>1, <2>1, <2>2, KeptLive DEF Inv
  <2> QED BY <1>1, <2>1, <2>3 DEF PersistedCurrent
<1> QED BY <1>1

LEMMA PersistedAfterDrop ==
    ASSUME Inv, PersistedCurrent, NEW S \in SUBSET SegIds, Kept(S), StoreInv', Drop(S)
    PROVE  PersistedCurrent'
<1>1. persisted' = persisted \ S /\ \A s \in SegIds : s \notin S => sidecar'[s] = sidecar[s]
  BY DropFacts
<1>2. persisted \in SUBSET SegIds
  BY DEF Inv, GraphTypes, StoreInv, StoreTypes
<1> QED BY <1>1, <1>2, PersistedKept

LEMMA PersistedAfterWrite ==
    ASSUME Inv, PersistedCurrent
    PROVE  /\ \A c \in Copies : Add(c) => PersistedCurrent'
           /\ \A id \in Ids : Delete(id) \/ WriteFails(id) => PersistedCurrent'
           /\ \A batch \in Batches : BeginExtend(batch) => PersistedCurrent'
<1>1. ASSUME NEW c \in Copies, Add(c) PROVE PersistedCurrent'
  <2>1. StoreInv' /\ Kept(Owners({c.id}))
    BY <1>1, AddKept DEF Add, Inv
  <2> QED BY <1>1, <2>1, PersistedAfterDrop, OwnersTypes DEF Add
<1>2. ASSUME NEW id \in Ids, Delete(id) PROVE PersistedCurrent'
  <2>1. StoreInv' /\ Kept(Owners({id}))
    BY <1>2, DeleteKept DEF Delete, Inv
  <2> QED BY <1>2, <2>1, PersistedAfterDrop, OwnersTypes DEF Delete
<1>3. ASSUME NEW ids, Drop(Owners(ids)), UNCHANGED storeVars PROVE PersistedCurrent'
  <2>1. StoreInv' /\ Kept({})
    BY <1>3, SameKept DEF storeVars, Inv
  <2>2. Kept(Owners(ids))
    BY <2>1 DEF Kept
  <2> QED BY <1>3, <2>1, <2>2, PersistedAfterDrop, OwnersTypes
<1>4. ASSUME NEW id \in Ids, WriteFails(id) PROVE PersistedCurrent'
  BY <1>3, <1>4 DEF WriteFails
<1>5. ASSUME NEW batch \in Batches, BeginExtend(batch) PROVE PersistedCurrent'
  BY <1>3, <1>5 DEF BeginExtend
<1> QED BY <1>1, <1>2, <1>4, <1>5

LEMMA PersistedAfterExtendOne == Inv /\ PersistedCurrent /\ ExtendOne => PersistedCurrent'
<1> SUFFICES ASSUME Inv, PersistedCurrent, ExtendOne PROVE PersistedCurrent'
  OBVIOUS
<1> DEFINE c == Head(pending)
           S == Owners({c.id})
<1>1. pending \in Seq(Copies) /\ pending # <<>>
  BY DEF ExtendOne, Inv, GraphTypes
<1>2. c \in Copies /\ 1 \in DOMAIN pending /\ pending[1] = c /\ pending # NoBatch
  BY <1>1, UpdatableAssumption
<1>3. StoreInv' /\ Kept(S)
  BY <1>2, AddKept DEF ExtendOne, Inv
<1>4. \A s \in S : s \notin persisted
  BY <1>2 DEF Inv, BatchDropped, Owners
<1>5. UNCHANGED <<persisted, sidecar>>
  BY DEF ExtendOne
<1> HIDE DEF S
<1> QED BY <1>3, <1>4, <1>5, PersistedKept

LEMMA PersistedAfterQuiet ==
    ASSUME Inv, PersistedCurrent, EndExtend \/ ExtendFails \/ CompactNothing \/ CompactFails \/ Reopen
    PROVE  PersistedCurrent'
<1>1. StoreInv' /\ Kept({})
  <2>1. CASE CompactFails
    BY <2>1, FlushKept DEF CompactFails, Inv
  <2>2. CASE EndExtend \/ ExtendFails \/ CompactNothing \/ Reopen
    BY <2>2, SameKept DEF EndExtend, ExtendFails, CompactNothing, Reopen, storeVars, Inv
  <2> QED BY <2>1, <2>2
<1>2. sidecar' = sidecar /\ persisted' \in {persisted, {}}
  BY DEF EndExtend, ExtendFails, CompactNothing, CompactFails, Reopen, processVars
<1> QED BY <1>1, <1>2, PersistedKept

\* A sidecar that persist_new_segments notes without rebuilding it is current.
LEMMA PersistedAfterPersist ==
    ASSUME Inv, PersistedCurrent, StoreInv', NEW S \in SUBSET SegIds, Kept(S), present' \cap S = {},
           NEW written, Persist(S, written)
    PROVE  PersistedCurrent'
<1> DEFINE candidates == present' \ persisted
           current == {s \in candidates : Accepts(sidecar[s], LiveIn(s)')}
           rebuilt == {s \in (candidates \ current) \cap written : GraphOver(LiveIn(s)') # {}}
<1>1. /\ persisted' = (persisted \cap present') \cup current \cup rebuilt
      /\ sidecar' = [s \in SegIds |->
                       IF s \in rebuilt THEN GraphOver(LiveIn(s)')
                       ELSE IF s \in S THEN Absent ELSE sidecar[s]]
  BY DEF Persist, GraphOver
<1>2. ASSUME NEW s \in current PROVE sidecar[s] = GraphOver(LiveIn(s)')
  <2>1. s \in SegIds /\ s \in Nat /\ next \in Nat /\ Accepts(sidecar[s], LiveIn(s)')
    BY PlaceFacts DEF Inv, StoreInv, StoreTypes
  <2>2. sidecar[s] # Absent
    BY <2>1 DEF Accepts
  <2>3. s < next /\ Honest(sidecar[s], s) /\ OnePerId(segs[s])
    BY <2>1, <2>2 DEF Inv, GraphTypes, SidecarsHonest, StoreInv
  <2>4. LiveIn(s)' \subseteq LiveIn(s) /\ LiveIn(s) \subseteq segs[s]
    BY <2>1, <2>3, KeptLive, LiveTypes DEF Inv
  <2>5. GraphOver(LiveIn(s)') \subseteq sidecar[s] /\ sidecar[s] \subseteq GraphOver(segs[s])
    BY <2>3, <2>4 DEF Honest, GraphOver
  <2> QED BY <2>1, <2>3, <2>4, <2>5, AcceptedIsCurrent
<1>3. present' \in SUBSET SegIds /\ rebuilt \cap current = {} /\ rebuilt \cap persisted = {}
  BY DEF StoreInv, StoreTypes
<1> HIDE DEF current, rebuilt
<1>4. rebuilt \subseteq present' /\ current \subseteq present'
  BY DEF current, rebuilt
<1>5. ASSUME NEW s \in persisted' \cap present'
      PROVE  \/ s \in persisted /\ s \notin S /\ sidecar'[s] = sidecar[s]
             \/ sidecar'[s] = GraphOver(LiveIn(s)')
  <2>1. s \in SegIds /\ s \notin S
    BY <1>3
  <2>2. CASE s \in rebuilt
    BY <1>1, <2>1, <2>2
  <2>3. CASE s \notin rebuilt
    <3>1. sidecar'[s] = sidecar[s] /\ (s \in persisted \/ s \in current)
      BY <1>1, <2>1, <2>3
    <3> QED BY <3>1, <2>1, <1>2
  <2> QED BY <2>2, <2>3
<1> QED BY <1>5, PersistedKept

LEMMA PersistedAfterMerge ==
    ASSUME Inv, PersistedCurrent
    PROVE  /\ Checkpoint => PersistedCurrent'
           /\ \A S \in SUBSET present : Compact(S) => PersistedCurrent'
<1>1. ASSUME Checkpoint PROVE PersistedCurrent'
  <2>1. StoreInv' /\ Kept({}) /\ present' \cap {} = {}
    BY <1>1, FlushKept DEF Checkpoint, StoreCheckpoint, Inv
  <2>2. PICK written \in SUBSET SegIds : Persist({}, written)
    BY <1>1 DEF Checkpoint
  <2> QED BY <2>1, <2>2, PersistedAfterPersist
<1>2. ASSUME NEW S \in SUBSET present, Compact(S) PROVE PersistedCurrent'
  <2>1. StoreInv' /\ Kept(S) /\ present' \cap S = {} /\ S \in SUBSET SegIds
    BY <1>2, MergeKept DEF Compact, Inv, StoreInv, StoreTypes
  <2>2. PICK written \in SUBSET SegIds : Persist(S, written)
    BY <1>2 DEF Compact
  <2> QED BY <2>1, <2>2, PersistedAfterPersist
<1> QED BY <1>1, <1>2

LEMMA PersistedAfterSearch == Inv /\ PersistedCurrent /\ Search => PersistedCurrent'
<1> SUFFICES ASSUME Inv, PersistedCurrent, Search PROVE PersistedCurrent'
  OBVIOUS
<1> DEFINE missing == {s \in present : cache[s] = Absent}
           loaded == {s \in missing : Accepts(sidecar[s], LiveIn(s))}
           built == {s \in missing \ loaded : GraphFor(s) # {}}
<1>1. StoreInv' /\ Kept({})
  BY SameKept DEF Search, storeVars, Inv
<1>2. \A s \in SegIds : GraphFor(s) = GraphOver(LiveIn(s)')
  BY GraphForCurrent DEF Search, storeVars, LiveIn, Inv
<1>3. PICK written \in SUBSET built :
          /\ persisted' = persisted \cup loaded \cup written
          /\ sidecar' = [s \in SegIds |-> IF s \in written THEN GraphFor(s) ELSE sidecar[s]]
  BY DEF Search
<1>4. \A s \in loaded : s \in SegIds /\ sidecar[s] = GraphFor(s)
  BY DEF GraphFor, Inv, StoreInv, StoreTypes
<1>5. present' = present /\ present \in SUBSET SegIds
  BY DEF Search, storeVars, Inv, StoreInv, StoreTypes
<1> HIDE DEF loaded, built
<1>6. ASSUME NEW s \in persisted' \cap present'
      PROVE  \/ s \in persisted /\ s \notin {} /\ sidecar'[s] = sidecar[s]
             \/ sidecar'[s] = GraphOver(LiveIn(s)')
  BY <1>2, <1>3, <1>4, <1>5
<1> QED BY <1>1, <1>6, PersistedKept

LEMMA PersistedStep == Inv /\ PersistedCurrent /\ [Next]_writerVars => PersistedCurrent'
<1> SUFFICES ASSUME Inv, PersistedCurrent, [Next]_writerVars PROVE PersistedCurrent'
  OBVIOUS
<1>1. CASE UNCHANGED writerVars
  BY <1>1 DEF writerVars, storeVars, processVars, PersistedCurrent, LiveIn
<1> QED BY <1>1, PersistedAfterWrite, PersistedAfterExtendOne, PersistedAfterQuiet, PersistedAfterMerge,
           PersistedAfterSearch DEF Next

\* persist_new_segments skips only segments whose sidecar is current.
THEOREM PersistedCurrentAlways == Spec => []PersistedCurrent
<1>1. Init => PersistedCurrent
  BY DEF Init, PersistedCurrent
<1> QED BY <1>1, PersistedStep, InvAlways, PTL DEF Spec

\* No call is in progress and the graph over the buffer is not current.
Stale == pending = NoBatch /\ ~BufferGraphCurrent

LEMMA StaleStep ==
    ASSUME Inv, [Next]_writerVars, Stale'
    PROVE  Stale \/ ExtendFails \/ CompactFails
<1>1. live_cache' # Absent
  BY DEF Stale, BufferGraphCurrent, BufferGraph
<1>2. ASSUME NEW batch \in Batches, BeginExtend(batch) PROVE FALSE
  BY <1>2, UpdatableAssumption DEF BeginExtend, Stale
<1>3. ASSUME ExtendOne PROVE FALSE
  <2>1. pending \in Seq(Copies) /\ pending # <<>> /\ pending' = Tail(pending)
    BY <1>3 DEF ExtendOne, Inv, GraphTypes
  <2>2. Tail(pending) \in Seq(Copies)
    BY <2>1
  <2> QED BY <2>1, <2>2, UpdatableAssumption DEF Stale
<1>4. ASSUME Search PROVE Stale
  <2>1. pending = NoBatch /\ live_cache' = BufferGraph /\ UNCHANGED <<buffer, home>>
    BY <1>4 DEF Search, storeVars
  <2>2. CASE live_cache = Absent
    <3>1. LiveBuffer \in SUBSET Copies
      BY DEF LiveBuffer, Inv, StoreInv, StoreTypes
    <3>2. GraphOver(LiveBuffer) # Absent
      BY <3>1, GraphFacts
    <3> QED BY <2>1, <2>2, <3>2 DEF Stale, BufferGraphCurrent, BufferGraph, LiveBuffer, GraphOver
  <2>3. CASE live_cache # Absent
    BY <2>1, <2>3 DEF Stale, BufferGraphCurrent, BufferGraph, LiveBuffer, GraphOver
  <2> QED BY <2>2, <2>3
<1>5. CASE UNCHANGED writerVars
  BY <1>5 DEF writerVars, storeVars, processVars, Stale, BufferGraphCurrent, BufferGraph, LiveBuffer, GraphOver
<1>6. \A c \in Copies : ~Add(c)
  BY <1>1 DEF Add
<1>7. \A id \in Ids : ~Delete(id) /\ ~WriteFails(id)
  BY <1>1 DEF Delete, WriteFails
<1>8. ~EndExtend /\ ~Checkpoint /\ ~CompactNothing /\ ~Reopen
  BY <1>1 DEF EndExtend, Checkpoint, CompactNothing, Reopen
<1>9. \A S \in SUBSET present : ~Compact(S)
  BY <1>1 DEF Compact
<1> QED BY <1>2, <1>3, <1>4, <1>5, <1>6, <1>7, <1>8, <1>9 DEF Next

\* Only a batch that fails, or a checkpoint or merge that fails, ends a call
\* with a graph over the buffer that is not over its live copies.
THEOREM OnlyErrorsLeaveBufferStaleAlways == Spec => OnlyErrorsLeaveBufferStale
<1>1. Inv /\ [Next]_writerVars
        => [(pending' = NoBatch /\ ~BufferGraphCurrent')
              => \/ pending = NoBatch /\ ~BufferGraphCurrent
                 \/ ExtendFails \/ CompactFails]_writerVars
  BY StaleStep DEF Stale
<1> QED BY <1>1, InvAlways, PTL DEF Spec, OnlyErrorsLeaveBufferStale

-----------------------------------------------------------------------------
(* Snapshots beside the writer                                             *)

\* What is live now in a segment of the view was live there when it was read.
ViewHomes ==
    view # NoView =>
        \A s \in view.segments : /\ s < next
                                 /\ \A id \in Ids : home[id] = s => view.home[id] = s

\* A graph of the snapshot is between what is live now and what was then.
ViewCacheHonest ==
    \A s \in SegIds : viewCache[s] # Absent =>
        /\ view # NoView /\ s \in view.segments
        /\ viewCache[s] \subseteq GraphOver(LiveInView(s))
        /\ GraphOver(LiveIn(s)) \subseteq viewCache[s]

SnapInv ==
    /\ Inv /\ SnapshotTypeOK /\ ViewHomes /\ ViewCacheHonest
    /\ writing # NoWrite => viewCache[writing] # Absent

\* Every step of the writer leaves what is live in a sealed segment alone or
\* makes it less.
LEMMA WriterKept == Inv /\ [Next]_writerVars => Kept(SegIds)
<1> SUFFICES ASSUME Inv, [Next]_writerVars PROVE Kept(SegIds)
  OBVIOUS
<1>1. ASSUME NEW S, Kept(S) PROVE Kept(SegIds)
  BY <1>1 DEF Kept
<1>2. ASSUME UNCHANGED storeVars PROVE Kept(SegIds)
  BY <1>1, <1>2, SameKept DEF storeVars, Inv
<1>3. ASSUME NEW c \in Copies, StoreAdd(c) PROVE Kept(SegIds)
  BY <1>1, <1>3, AddKept DEF Inv
<1>4. ASSUME NEW id \in Ids, StoreDelete(id) PROVE Kept(SegIds)
  BY <1>1, <1>4, DeleteKept DEF Inv
<1>5. ASSUME StoreFlush, manifest' = manifest \/ WriteManifest PROVE Kept(SegIds)
  BY <1>1, <1>5, FlushKept DEF Inv
<1>6. ASSUME NEW S \in SUBSET present, StoreMerge(S) PROVE Kept(SegIds)
  BY <1>1, <1>6, MergeKept DEF Inv
<1>7. ASSUME ExtendOne PROVE Kept(SegIds)
  <2>1. pending \in Seq(Copies) /\ pending # <<>> /\ StoreAdd(Head(pending))
    BY <1>7 DEF ExtendOne, Inv, GraphTypes
  <2>2. Head(pending) \in Copies
    BY <2>1
  <2> QED BY <2>1, <2>2, <1>3
<1>8. CASE UNCHANGED writerVars
  BY <1>2, <1>8 DEF writerVars
<1>9. CASE \E batch \in Batches : BeginExtend(batch)
  BY <1>2, <1>9 DEF BeginExtend
<1>10. CASE (\E id \in Ids : WriteFails(id)) \/ EndExtend \/ ExtendFails \/ CompactNothing \/ Search \/ Reopen
  BY <1>2, <1>10 DEF WriteFails, EndExtend, ExtendFails, CompactNothing, Search, Reopen
<1>11. CASE Checkpoint \/ CompactFails
  BY <1>5, <1>11 DEF Checkpoint, StoreCheckpoint, CompactFails
<1>12. CASE (\E c \in Copies : Add(c)) \/ (\E id \in Ids : Delete(id))
  BY <1>3, <1>4, <1>12 DEF Add, Delete
<1>13. CASE \E S \in SUBSET present : Compact(S)
  BY <1>6, <1>13 DEF Compact
<1> QED BY <1>7, <1>8, <1>9, <1>10, <1>11, <1>12, <1>13 DEF Next

LEMMA SnapAfterWriter == SnapInv /\ [Next]_writerVars /\ UNCHANGED snapshotVars => SnapInv'
<1> SUFFICES ASSUME SnapInv, [Next]_writerVars, UNCHANGED snapshotVars PROVE SnapInv'
  OBVIOUS
<1>1. Inv' /\ Kept(SegIds) /\ view' = view /\ viewCache' = viewCache /\ writing' = writing
  BY WriterStep, WriterKept DEF SnapInv, snapshotVars
<1>2. next <= next' /\ next \in Nat /\ next' \in Nat /\ \A s \in SegIds : s \in Nat
  BY <1>1, PlaceFacts DEF Kept, SnapInv, Inv, StoreInv, StoreTypes
<1>3. ASSUME view # NoView, NEW s \in view.segments
      PROVE  s \in SegIds /\ s < next /\ s < next' /\ \A id \in Ids : home'[id] = s => view.home[id] = s
  <2>1. s \in SegIds /\ s < next /\ \A id \in Ids : home[id] = s => view.home[id] = s
    BY <1>3 DEF SnapInv, ViewHomes, SnapshotTypeOK, Manifests
  <2> QED BY <2>1, <1>1, <1>2 DEF Kept
<1>4. ViewHomes'
  BY <1>1, <1>3 DEF ViewHomes
<1>5. ViewCacheHonest'
  <2> SUFFICES ASSUME NEW s \in SegIds, viewCache[s] # Absent
               PROVE  /\ view # NoView /\ s \in view.segments
                      /\ viewCache[s] \subseteq GraphOver(LiveInView(s)')
                      /\ GraphOver(LiveIn(s)') \subseteq viewCache[s]
    BY <1>1 DEF ViewCacheHonest, GraphOver
  <2>1. /\ view # NoView /\ s \in view.segments
        /\ viewCache[s] \subseteq GraphOver(LiveInView(s))
        /\ GraphOver(LiveIn(s)) \subseteq viewCache[s]
    BY DEF SnapInv, ViewCacheHonest
  <2>2. s < next
    BY <1>3, <2>1
  <2>3. LiveIn(s)' \subseteq LiveIn(s) /\ segs'[s] = segs[s]
    BY <1>1, <2>2, KeptLive DEF Kept, SnapInv, Inv
  <2>4. LiveInView(s)' = LiveInView(s)
    BY <1>1, <2>3 DEF LiveInView
  <2>5. GraphOver(LiveIn(s)') \subseteq viewCache[s]
    BY <2>1, <2>3 DEF GraphOver
  <2> QED BY <2>1, <2>4, <2>5
<1> QED BY <1>1, <1>4, <1>5 DEF SnapInv, SnapshotTypeOK

LEMMA SnapAfterOpen == SnapInv /\ SnapshotOpen => SnapInv'
<1> SUFFICES ASSUME SnapInv, SnapshotOpen PROVE SnapInv'
  OBVIOUS
<1>1. Inv'
  BY WriterStep DEF SnapshotOpen, SnapInv
<1>2. ViewHomes'
  <2> SUFFICES ASSUME NEW s \in manifest.segments
               PROVE  s < next /\ \A id \in Ids : home[id] = s => manifest.home[id] = s
    BY DEF ViewHomes, SnapshotOpen, writerVars, storeVars
  <2>1. s \in SegIds /\ s \in Nat /\ next \in Nat
    BY PlaceFacts DEF SnapInv, Inv, StoreInv, StoreTypes, Manifests
  <2> QED BY <2>1 DEF SnapInv, Inv, StoreInv, UnusedSegments, ManifestHomes
<1>3. SnapshotTypeOK' /\ ViewCacheHonest' /\ writing' = NoWrite
  BY DEF SnapshotOpen, SnapInv, Inv, StoreInv, StoreTypes, SnapshotTypeOK, ViewCacheHonest, NoGraphs
<1> QED BY <1>1, <1>2, <1>3 DEF SnapInv

\* A sidecar that the snapshot accepts is over copies of its view.
LEMMA SnapAfterLoad ==
    ASSUME SnapInv, NEW s \in SegIds, SnapshotLoad(s)
    PROVE  SnapInv'
<1>1. Inv' /\ UNCHANGED <<writerVars, view>>
  BY WriterStep DEF SnapshotLoad, SnapInv
<1>2. view # NoView /\ s \in view.segments /\ view.home \in [Ids -> Places]
  BY DEF SnapshotLoad, SnapInv, SnapshotTypeOK, Manifests
<1>3. LiveIn(s) \subseteq LiveInView(s) /\ LiveInView(s) \subseteq segs[s] /\ segs[s] \in SUBSET Copies
  BY <1>2 DEF LiveIn, LiveInView, SnapInv, ViewHomes, Inv, StoreInv, StoreTypes, Copies
<1>4. PICK graph \in Graphs : /\ viewCache' = [viewCache EXCEPT ![s] = graph]
                              /\ graph \subseteq GraphOver(LiveInView(s))
                              /\ GraphOver(LiveIn(s)) \subseteq graph
                              /\ writing' \in {writing, NoWrite, s}
  <2>1. CASE ViewAccepts(s) /\ viewCache' = [viewCache EXCEPT ![s] = sidecar[s]] /\ writing' = writing
    <3>1. sidecar[s] \in Graphs /\ Honest(sidecar[s], s)
      BY <2>1 DEF ViewAccepts, SnapInv, Inv, GraphTypes, SidecarsHonest
    <3>2. sidecar[s] \subseteq GraphOver(LiveInView(s))
      BY <2>1, <3>1 DEF ViewAccepts, Honest, GraphOver, LiveInView
    <3> QED BY <2>1, <3>1, <3>2 DEF Honest
  <2>2. CASE /\ viewCache' = [viewCache EXCEPT ![s] = GraphOver(LiveInView(s))]
             /\ writing' \in {NoWrite, s}
    <3>1. GraphOver(LiveInView(s)) \in Graphs
      BY <1>3, GraphFacts
    <3>2. GraphOver(LiveIn(s)) \subseteq GraphOver(LiveInView(s))
      BY <1>3 DEF GraphOver
    <3> QED BY <2>2, <3>1, <3>2
  <2> QED BY <2>1, <2>2 DEF SnapshotLoad
<1>5. SnapshotTypeOK'
  BY <1>1, <1>4 DEF SnapInv, SnapshotTypeOK
<1>6. viewCache'[s] = graph /\ \A t \in SegIds : t # s => viewCache'[t] = viewCache[t]
  BY <1>4 DEF SnapInv, SnapshotTypeOK
<1>7. ViewHomes' /\ ViewCacheHonest'
  <2>1. \A t \in SegIds : LiveIn(t)' = LiveIn(t) /\ LiveInView(t)' = LiveInView(t)
    BY <1>1 DEF writerVars, storeVars, LiveIn, LiveInView
  <2>2. \A t \in SegIds : GraphOver(LiveIn(t))' = GraphOver(LiveIn(t))
                       /\ GraphOver(LiveInView(t))' = GraphOver(LiveInView(t))
    BY <2>1 DEF GraphOver
  <2>3. ViewCacheHonest'
    BY <2>2, <1>1, <1>2, <1>4, <1>6 DEF SnapInv, ViewCacheHonest
  <2> QED BY <2>3, <1>1 DEF SnapInv, ViewHomes, writerVars, storeVars
<1>8. writing' # NoWrite => viewCache'[writing'] # Absent
  <2>1. graph # Absent
    BY GraphFacts
  <2>2. writing \in {NoWrite} \cup SegIds
    BY DEF SnapInv, SnapshotTypeOK
  <2> QED BY <2>1, <2>2, <1>4, <1>6 DEF SnapInv
<1> QED BY <1>1, <1>5, <1>7, <1>8 DEF SnapInv

\* The late write of a snapshot leaves an honest sidecar.
LEMMA SnapAfterWrite == SnapInv /\ SnapshotWrite => SnapInv'
<1> SUFFICES ASSUME SnapInv, SnapshotWrite PROVE SnapInv'
  OBVIOUS
<1>1. /\ writing \in SegIds /\ viewCache[writing] \in Graphs /\ writing' = NoWrite
      /\ UNCHANGED <<storeVars, processVars, view, viewCache>>
      /\ \/ sidecar' = sidecar
         \/ sidecar' = [sidecar EXCEPT ![writing] = viewCache[writing]]
  BY DEF SnapshotWrite, SnapInv, SnapshotTypeOK
<1>2. /\ view # NoView /\ writing \in view.segments /\ writing < next
      /\ viewCache[writing] \subseteq GraphOver(LiveInView(writing))
      /\ GraphOver(LiveIn(writing)) \subseteq viewCache[writing]
  BY <1>1 DEF SnapshotWrite, SnapInv, ViewCacheHonest, ViewHomes
<1>3. Honest(viewCache[writing], writing)
  BY <1>2 DEF Honest, GraphOver, LiveInView
<1>4. next \in Nat /\ \A s \in SegIds : s \in Nat
  BY PlaceFacts DEF SnapInv, Inv, StoreInv, StoreTypes
<1>5. GraphTypes'
  BY <1>1, <1>2, <1>4 DEF storeVars, processVars, SnapInv, Inv, GraphTypes
<1>6. \A s \in SegIds : sidecar'[s] = sidecar[s] \/ (s = writing /\ sidecar'[s] = viewCache[s])
  BY <1>1 DEF SnapInv, Inv, GraphTypes
<1>7. SidecarsHonest'
  <2> SUFFICES ASSUME NEW s \in SegIds, sidecar'[s] # Absent
               PROVE  /\ sidecar'[s] \subseteq GraphOver(segs[s])
                      /\ GraphOver(LiveIn(s)) \subseteq sidecar'[s]
    BY <1>1 DEF storeVars, SidecarsHonest, Honest, GraphOver, LiveIn
  <2> QED BY <1>3, <1>6 DEF SnapInv, Inv, SidecarsHonest, Honest
<1>8. StoreInv' /\ CacheCurrent' /\ BatchDropped'
  BY <1>1 DEF storeVars, processVars, SnapInv, Inv, StoreInv, StoreTypes, BufferHomes, UnusedSegments,
     ManifestHomes, CacheCurrent, LiveIn, BatchDropped
<1>9. ViewHomes' /\ ViewCacheHonest' /\ SnapshotTypeOK'
  BY <1>1 DEF storeVars, SnapInv, ViewHomes, ViewCacheHonest, SnapshotTypeOK, LiveIn, LiveInView, GraphOver
<1> QED BY <1>1, <1>5, <1>7, <1>8, <1>9 DEF SnapInv, Inv

LEMMA SnapStep == SnapInv /\ [SnapshotNext]_allVars => SnapInv'
<1> SUFFICES ASSUME SnapInv, [SnapshotNext]_allVars PROVE SnapInv'
  OBVIOUS
<1>1. CASE UNCHANGED allVars
  BY <1>1, SnapAfterWriter DEF allVars
<1> QED BY <1>1, SnapAfterWriter, SnapAfterOpen, SnapAfterLoad, SnapAfterWrite DEF SnapshotNext

LEMMA SnapInvAlways == SnapshotSpec => []SnapInv
<1>1. SnapshotInit => SnapInv
  BY InitInv DEF SnapshotInit, SnapInv, SnapshotTypeOK, ViewHomes, ViewCacheHonest, NoGraphs
<1> QED BY <1>1, SnapStep, PTL DEF SnapshotSpec

\* SnapshotIndex::search misses, of what was live at its checkpoint, only what
\* the writer deleted or replaced since.
THEOREM SnapshotMissesOnlyLaterWritesAlways == SnapshotSpec => []SnapshotMissesOnlyLaterWrites
<1>1. SnapInv => SnapshotMissesOnlyLaterWrites
  <2> SUFFICES ASSUME SnapInv, NEW s \in SegIds, viewCache[s] # Absent,
                      NEW c \in GraphOver(LiveInView(s)) \ viewCache[s], home[c.id] = s
               PROVE  FALSE
    BY DEF SnapshotMissesOnlyLaterWrites, SnapInv, ViewCacheHonest
  <2>1. c \in GraphOver(LiveIn(s))
    BY DEF GraphOver, LiveInView, LiveIn
  <2> QED BY <2>1 DEF SnapInv, ViewCacheHonest
<1> QED BY <1>1, SnapInvAlways, PTL

\* The sidecars a snapshot writes do not mislead the writer's searches.
THEOREM GraphsCurrentBesideSnapshots == SnapshotSpec => []SegmentGraphsCurrent
<1>1. SnapInv => Inv
  BY DEF SnapInv
<1> QED BY <1>1, InvCurrent, SnapInvAlways, PTL

\* Only the late write of a snapshot puts an older graph in the place of one
\* that persist_new_segments takes for current.
THEOREM OnlySnapshotsOverwriteAlways == SnapshotSpec => OnlySnapshotsOverwrite
<1>1. SnapInv /\ [SnapshotNext]_allVars
        => [PersistedCurrent => (PersistedCurrent' \/ SnapshotWrite)]_allVars
  <2> SUFFICES ASSUME SnapInv, [SnapshotNext]_allVars, PersistedCurrent
               PROVE  PersistedCurrent' \/ SnapshotWrite
    OBVIOUS
  <2>1. CASE [Next]_writerVars
    BY <2>1, PersistedStep DEF SnapInv
  <2> QED BY <2>1 DEF SnapshotNext, SnapshotOpen, SnapshotLoad, allVars
<1> QED BY <1>1, SnapInvAlways, PTL DEF SnapshotSpec, OnlySnapshotsOverwrite
=============================================================================
