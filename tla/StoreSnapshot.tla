--------------------------- MODULE StoreSnapshot ---------------------------
(***************************************************************************)
(* SnapshotIndex of src/store.rs beside a writer of the same directory: it *)
(* reads the manifest of the last checkpoint once, and takes the graph of  *)
(* every segment from its sidecar or builds it.  Writer and snapshot share *)
(* the files and nothing else.                                             *)
(***************************************************************************)
EXTENDS StoreProperties

CONSTANTS
    NoView,       \* no snapshot is open
    NoWrite       \* the snapshot is not writing a sidecar

ASSUME SnapshotAssumption == NoWrite \notin Int

VARIABLES
    view,         \* the manifest the snapshot was opened on
    viewCache,    \* [SegIds -> {Absent} \cup Graphs]
    writing       \* the segment whose graph it built and will write

snapshotVars == <<view, viewCache, writing>>
allVars == <<writerVars, snapshotVars>>

SnapshotInit ==
    /\ Init
    /\ view = NoView
    /\ viewCache = NoGraphs
    /\ writing = NoWrite

\* The copies of a segment that are live in the snapshot.
LiveInView(s) == {c \in segs[s] : view.home[c.id] = s}

SnapshotOpen ==
    /\ view' = manifest
    /\ viewCache' = NoGraphs
    /\ writing' = NoWrite
    /\ UNCHANGED writerVars

\* Mutant: the ids of the sidecar are not looked at.
ViewAcceptsAny(s) == sidecar[s] # Absent

\* The snapshot's load_sidecar: every id of the graph is live.
ViewAccepts(s) ==
    /\ sidecar[s] # Absent
    /\ \A c \in sidecar[s] : view.home[c.id] = s

\* Its build_or_load.  The payload of a segment that was merged away cannot
\* be read: the search fails and nothing changes.
SnapshotLoad(s) ==
    /\ view # NoView /\ s \in view.segments
    /\ viewCache[s] = Absent /\ writing = NoWrite
    /\ \/ /\ ViewAccepts(s)
          /\ viewCache' = [viewCache EXCEPT ![s] = sidecar[s]]
          /\ UNCHANGED writing
       \/ /\ ~ViewAccepts(s) /\ s \in present
          /\ viewCache' = [viewCache EXCEPT ![s] = GraphOver(LiveInView(s))]
          /\ writing' = IF viewCache'[s] = {} THEN NoWrite ELSE s
    /\ UNCHANGED <<writerVars, view>>

\* The write of its sidecar, which may come late, and may fail.
SnapshotWrite ==
    /\ writing # NoWrite
    /\ sidecar' \in {sidecar, [sidecar EXCEPT ![writing] = viewCache[writing]]}
    /\ writing' = NoWrite
    /\ UNCHANGED <<storeVars, processVars, view, viewCache>>

SnapshotNext ==
    \/ Next /\ UNCHANGED snapshotVars
    \/ SnapshotOpen \/ SnapshotWrite
    \/ \E s \in SegIds : SnapshotLoad(s)

SnapshotSpec == SnapshotInit /\ [][SnapshotNext]_allVars

-----------------------------------------------------------------------------
\* The types of this module's variables.
SnapshotTypeOK ==
    /\ view \in {NoView} \cup Manifests
    /\ viewCache \in [SegIds -> {Absent} \cup Graphs]
    /\ writing \in {NoWrite} \cup SegIds

\* A snapshot answers with copies that were live at its checkpoint, with the
\* vectors they had then, and what it misses of them is only what the writer
\* has deleted or replaced since.
SnapshotMissesOnlyLaterWrites ==
    \A s \in SegIds : viewCache[s] # Absent =>
        /\ viewCache[s] \subseteq GraphOver(LiveInView(s))
        /\ \A c \in GraphOver(LiveInView(s)) \ viewCache[s] : home[c.id] # s

\* A segment that the writer takes for persisted stays so, whatever the writer
\* does; only the late write of a snapshot can put an older graph in its place.
OnlySnapshotsOverwrite ==
    [][PersistedCurrent => (PersistedCurrent' \/ SnapshotWrite)]_allVars
=============================================================================
