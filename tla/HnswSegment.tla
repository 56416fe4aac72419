---------------------------- MODULE HnswSegment ----------------------------
(***************************************************************************)
(* persistence/hnsw.rs: HNSWSegmentWriter saves an index into a segment    *)
(* directory, again and again, as files that are sealed one by one between *)
(* an uncommitted and a committed header.  Any call of the Directory may   *)
(* fail and end the save, also when the rename in it was done but not its  *)
(* sync; a process that dies leaves the same states as a call that fails.  *)
(*                                                                         *)
(* A file is the number of the save it was written by, and a header says   *)
(* of which save it is.  Both have the value that processes see and the    *)
(* set of values that a power loss may leave, which a sync of the segment  *)
(* directory reduces to the one seen.  The contents of a file are synced   *)
(* before it gets its name.  One writer runs at a time, and the directory  *)
(* of the segment itself survives a power loss.                            *)
(***************************************************************************)
EXTENDS Integers

CONSTANTS
    NumFiles,      \* the files every save writes: six in the code
    MaxSaves,      \* bound on the saves
    Sidecar,       \* vectors_aos.bin, which a save may write too
    Absent         \* the file does not exist

ASSUME SegmentAssumption ==
    /\ NumFiles \in Nat \ {0} /\ MaxSaves \in Nat
    /\ Sidecar \notin Int /\ Absent \notin Int

Files == 1 .. NumFiles
Entries == Files \cup {Sidecar}

VARIABLES
    meta, metaDisk,    \* metadata.bin, and what a power loss may leave of it
    file, fileDisk,    \* [Entries -> Content], and [Entries -> SUBSET Content]
    save,              \* the last save that was started
    aos,               \* it is a write_hnsw_index_aos
    pc,                \* its next call
    next,              \* the next file it seals
    acked              \* history: the last save that returned Ok

diskVars == <<meta, metaDisk, file, fileDisk>>
segmentVars == <<diskVars, save, aos, pc, next, acked>>

Content == 1 .. MaxSaves \cup {Absent}
Header == [of : 0 .. MaxSaves, committed : BOOLEAN]
NoHeader == [of |-> 0, committed |-> FALSE]
SaveSteps == {"idle", "invalidate", "deleteSidecar", "files", "sidecar", "commit"}

SegmentInit ==
    /\ meta = NoHeader /\ metaDisk = {NoHeader}
    /\ file = [e \in Entries |-> Absent]
    /\ fileDisk = [e \in Entries |-> {Absent}]
    /\ save = 0 /\ aos = FALSE /\ pc = "idle" /\ next = 1 /\ acked = 0

-----------------------------------------------------------------------------
(* Calls of the Directory                                                  *)

\* The directory is synced: what is seen is what a power loss leaves.
SyncDirectory ==
    /\ metaDisk' = {meta'}
    /\ fileDisk' = [e \in Entries |-> {file'[e]}]

\* seal: sync the temporary file, rename it, sync the directory.
Seal(e) ==
    /\ file' = [file EXCEPT ![e] = save]
    /\ UNCHANGED meta
    /\ SyncDirectory

\* A seal whose last sync fails.
SealHalf(e) ==
    /\ file' = [file EXCEPT ![e] = save]
    /\ fileDisk' = [fileDisk EXCEPT ![e] = @ \cup {save}]
    /\ UNCHANGED <<meta, metaDisk>>

\* atomic_write of metadata.bin.
WriteHeader(committed) ==
    /\ meta' = [of |-> save, committed |-> committed]
    /\ UNCHANGED file
    /\ SyncDirectory

\* An atomic_write whose last sync fails.
WriteHeaderHalf(committed) ==
    /\ meta' = [of |-> save, committed |-> committed]
    /\ metaDisk' = metaDisk \cup {meta'}
    /\ UNCHANGED <<file, fileDisk>>

-----------------------------------------------------------------------------
(* The save                                                                *)

\* write_hnsw_index, or write_hnsw_index_aos.
StartSave(withSidecar) ==
    /\ pc = "idle" /\ save < MaxSaves
    /\ save' = save + 1
    /\ aos' = withSidecar
    /\ pc' = "invalidate" /\ next' = 1
    /\ UNCHANGED <<diskVars, acked>>

\* An error is returned at once, or the process dies: the save stays as it is.
Abandon ==
    /\ pc # "idle"
    /\ pc' = "idle"
    /\ UNCHANGED <<diskVars, save, aos, next, acked>>

\* Mutant: the old header stays until the new one is committed.
InvalidateNothing ==
    /\ pc = "invalidate"
    /\ pc' = "deleteSidecar"
    /\ UNCHANGED <<diskVars, save, aos, next, acked>>

Invalidate ==
    /\ pc = "invalidate"
    /\ \/ WriteHeader(FALSE) /\ pc' = "deleteSidecar"
       \/ WriteHeaderHalf(FALSE) /\ pc' = "idle"
    /\ UNCHANGED <<save, aos, next, acked>>

\* The deletion is durable with the next sync of the directory.
DeleteSidecar ==
    /\ pc = "deleteSidecar"
    /\ file' = [file EXCEPT ![Sidecar] = Absent]
    /\ fileDisk' = [fileDisk EXCEPT ![Sidecar] = @ \cup {Absent}]
    /\ pc' = "files"
    /\ UNCHANGED <<meta, metaDisk, save, aos, next, acked>>

AfterFile == IF next = NumFiles THEN (IF aos THEN "sidecar" ELSE "commit") ELSE "files"

WriteFile ==
    /\ pc = "files"
    /\ \/ Seal(next) /\ next' = next + 1 /\ pc' = AfterFile
       \/ SealHalf(next) /\ pc' = "idle" /\ UNCHANGED next
    /\ UNCHANGED <<save, aos, acked>>

WriteSidecar ==
    /\ pc = "sidecar"
    /\ \/ Seal(Sidecar) /\ pc' = "commit"
       \/ SealHalf(Sidecar) /\ pc' = "idle"
    /\ UNCHANGED <<save, aos, next, acked>>

\* Mutant: the sync of the committed header is not waited for.
CommitUnsynced ==
    /\ pc = "commit"
    /\ WriteHeaderHalf(TRUE)
    /\ acked' = save
    /\ pc' = "idle"
    /\ UNCHANGED <<save, aos, next>>

Commit ==
    /\ pc = "commit"
    /\ \/ WriteHeader(TRUE) /\ acked' = save
       \/ WriteHeaderHalf(TRUE) /\ UNCHANGED acked
    /\ pc' = "idle"
    /\ UNCHANGED <<save, aos, next>>

-----------------------------------------------------------------------------
\* The files that a power loss may change.
Loose == {e \in Entries : fileDisk[e] # {file[e]}}

PowerLoss ==
    /\ meta' \in metaDisk
    /\ \E lost \in [Loose -> Content] :
          /\ \A e \in Loose : lost[e] \in fileDisk[e]
          /\ file' = [e \in Entries |-> IF e \in Loose THEN lost[e] ELSE file[e]]
    /\ SyncDirectory
    /\ pc' = "idle"
    /\ UNCHANGED <<save, aos, next, acked>>

SegmentNext ==
    \/ \E withSidecar \in BOOLEAN : StartSave(withSidecar)
    \/ Invalidate \/ DeleteSidecar \/ WriteFile \/ WriteSidecar \/ Commit
    \/ Abandon \/ PowerLoss

SegmentSpec == SegmentInit /\ [][SegmentNext]_segmentVars

-----------------------------------------------------------------------------
(* What a segment must guarantee                                           *)

\* Every variable has the type its declaration states.
SegmentTypeOK ==
    /\ meta \in Header /\ metaDisk \in SUBSET Header
    /\ file \in [Entries -> Content] /\ fileDisk \in [Entries -> SUBSET Content]
    /\ save \in 0 .. MaxSaves /\ acked \in 0 .. MaxSaves
    /\ aos \in BOOLEAN /\ pc \in SaveSteps
    /\ next \in 1 .. NumFiles + 1 /\ (pc = "files" => next \in Files)

\* The test of HNSWSegmentReader::load and HNSWSegmentSearcher::open.
Accepted == meta.committed

\* An accepted segment is of one save: after any failures, deaths and power
\* losses all its files are those of its header, and so is the sidecar that
\* the file searcher prefers to vectors.bin, if there is one.
AcceptedIsWhole ==
    Accepted =>
        /\ \A f \in Files : file[f] = meta.of
        /\ file[Sidecar] \in {meta.of, Absent}

\* A save that returned Ok is what is read after a power loss, unless a later
\* save has invalidated it; it never gives way to an older one.
AckedKept ==
    acked # 0 =>
        \A m \in metaDisk \cup {meta} : m.of > acked \/ (m.of = acked /\ m.committed)
=============================================================================
