----------------------------- MODULE FileProofs -----------------------------
(***************************************************************************)
(* Proofs about the files of a segment.  HnswSegment, which writes them,   *)
(* for any number of files and saves: types, AcceptedIsWhole, AckedKept.   *)
(* BlockCache, through which they are read, for any file length, block     *)
(* size, budget and reads: types, coherence, and that a read returns the   *)
(* file.                                                                   *)
(***************************************************************************)
EXTENDS HnswSegment, BlockCacheProperties, SequenceTheorems, TLAPS

-----------------------------------------------------------------------------
(*                        HnswSegment: the writer                          *)

-----------------------------------------------------------------------------
(* The inductive invariant                                                 *)

\* What is seen is among what a power loss may leave, of saves that began.
SeenOnDisk ==
    /\ meta \in metaDisk
    /\ \A e \in Entries : file[e] \in fileDisk[e]
    /\ \A m \in metaDisk : m.of <= save

\* A committed header that a power loss may leave finds nothing but its files.
CommittedWhole ==
    \A m \in metaDisk : m.committed =>
        /\ \A f \in Files : fileDisk[f] = {m.of}
        /\ fileDisk[Sidecar] \subseteq {m.of, Absent}

\* What the save in progress has done: the old header is gone from the disk
\* before a file changes, and a sealed file is on the disk.
Sealed(n) == \A f \in 1 .. n : fileDisk[f] = {save}
Progress ==
    /\ pc # "idle" => acked < save
    /\ pc \in {"invalidate", "deleteSidecar"} => next = 1
    /\ pc = "invalidate" => \A m \in metaDisk : m.of < save
    /\ pc \in {"deleteSidecar", "files", "sidecar", "commit"} =>
           metaDisk = {[of |-> save, committed |-> FALSE]}
    /\ pc = "files" =>
           /\ Sealed(next - 1)
           /\ file[Sidecar] = Absent
    /\ pc \in {"sidecar", "commit"} => Sealed(NumFiles)
    /\ pc = "sidecar" => fileDisk[Sidecar] = {Absent}
    /\ pc = "commit" => fileDisk[Sidecar] \subseteq {save, Absent}

SegmentIInv == SegmentTypeOK /\ SeenOnDisk /\ CommittedWhole /\ Progress /\ AckedKept

\* The special values are no numbers.
LEMMA Specials ==
    /\ Sidecar \in Entries /\ Files \subseteq Entries
    /\ Sidecar \notin Files
    /\ Absent \in Content
    /\ NumFiles \in Files
BY SegmentAssumption DEF Entries, Files, Content

\* Nothing is on the disk at first.
LEMMA SegmentInitInv == SegmentInit => SegmentIInv
<1> SUFFICES ASSUME SegmentInit PROVE SegmentIInv
  OBVIOUS
<1>1. SegmentTypeOK
  <2>1. NoHeader \in Header /\ 0 \in 0 .. MaxSaves
    BY SegmentAssumption DEF Header, NoHeader
  <2>2. file \in [Entries -> Content] /\ fileDisk \in [Entries -> SUBSET Content]
    BY Specials DEF SegmentInit
  <2>3. next \in 1 .. NumFiles + 1
    BY SegmentAssumption DEF SegmentInit
  <2> QED BY <2>1, <2>2, <2>3 DEF SegmentInit, SegmentTypeOK, SaveSteps
<1>2. SeenOnDisk /\ CommittedWhole /\ Progress /\ AckedKept
  BY SegmentAssumption DEF SegmentInit, SeenOnDisk, CommittedWhole, Progress, AckedKept, NoHeader
<1> QED BY <1>1, <1>2 DEF SegmentIInv

-----------------------------------------------------------------------------
(* The steps                                                               *)

\* A save begins with everything as it was.
LEMMA StartStep ==
    ASSUME SegmentIInv, NEW withSidecar \in BOOLEAN, StartSave(withSidecar)
    PROVE  SegmentIInv'
<1> USE DEF StartSave, diskVars
<1>1. SegmentTypeOK'
  BY SegmentAssumption DEF SegmentIInv, SegmentTypeOK, SaveSteps
<1>2. SeenOnDisk' /\ CommittedWhole' /\ AckedKept'
  BY DEF SegmentIInv, SeenOnDisk, CommittedWhole, AckedKept, SegmentTypeOK, Header
<1>3. acked <= save
  BY DEF SegmentIInv, AckedKept, SeenOnDisk, SegmentTypeOK, Header
<1>4. Progress'
  BY <1>3 DEF SegmentIInv, Progress, SeenOnDisk, SegmentTypeOK, Header
<1> QED BY <1>1, <1>2, <1>4 DEF SegmentIInv

\* A save that ends early leaves everything as it is.
LEMMA AbandonStep == SegmentIInv /\ Abandon => SegmentIInv'
<1> SUFFICES ASSUME SegmentIInv, Abandon PROVE SegmentIInv'
  OBVIOUS
<1> USE DEF Abandon, diskVars
<1>1. SegmentTypeOK' /\ Progress'
  BY DEF SegmentIInv, SegmentTypeOK, Progress, SaveSteps
<1>2. SeenOnDisk' /\ CommittedWhole' /\ AckedKept'
  BY DEF SegmentIInv, SeenOnDisk, CommittedWhole, AckedKept
<1> QED BY <1>1, <1>2 DEF SegmentIInv

\* The invalidated header replaces the old one, or joins it on the disk.
LEMMA InvalidateStep == SegmentIInv /\ Invalidate => SegmentIInv'
<1> SUFFICES ASSUME SegmentIInv, Invalidate PROVE SegmentIInv'
  OBVIOUS
<1> DEFINE h == [of |-> save, committed |-> FALSE]
<1>1. /\ pc = "invalidate" /\ meta' = h /\ file' = file
      /\ h \in Header /\ h.of = save /\ ~h.committed
      /\ UNCHANGED <<save, aos, next, acked>>
  BY DEF Invalidate, WriteHeader, WriteHeaderHalf, SegmentIInv, SegmentTypeOK, Header
<1>2. acked < save /\ \A m \in metaDisk : m.of < save
  BY <1>1 DEF SegmentIInv, Progress
<1>3. CASE WriteHeader(FALSE) /\ pc' = "deleteSidecar"
  <2>1. metaDisk' = {h} /\ fileDisk' = [e \in Entries |-> {file[e]}]
    BY <1>1, <1>3 DEF WriteHeader, SyncDirectory
  <2> HIDE DEF h
  <2>2. SegmentTypeOK'
    BY <1>1, <1>3, <2>1 DEF SegmentIInv, SegmentTypeOK, SaveSteps
  <2>3. SeenOnDisk' /\ CommittedWhole' /\ AckedKept'
    BY <1>1, <1>2, <2>1 DEF SegmentIInv, SegmentTypeOK, SeenOnDisk, CommittedWhole, AckedKept
  <2>4. Progress'
    BY <1>1, <1>2, <1>3, <2>1 DEF SegmentIInv, Progress, h
  <2> QED BY <2>2, <2>3, <2>4 DEF SegmentIInv
<1>4. CASE WriteHeaderHalf(FALSE) /\ pc' = "idle"
  <2>1. metaDisk' = metaDisk \cup {h} /\ fileDisk' = fileDisk
    BY <1>1, <1>4 DEF WriteHeaderHalf
  <2> HIDE DEF h
  <2>2. SegmentTypeOK' /\ Progress'
    BY <1>1, <1>4, <2>1 DEF SegmentIInv, SegmentTypeOK, SaveSteps, Progress
  <2>3. SeenOnDisk' /\ CommittedWhole'
    BY <1>1, <2>1 DEF SegmentIInv, SegmentTypeOK, SeenOnDisk, CommittedWhole
  <2>4. AckedKept'
    BY <1>1, <1>2, <2>1 DEF SegmentIInv, AckedKept
  <2> QED BY <2>2, <2>3, <2>4 DEF SegmentIInv
<1> QED BY <1>3, <1>4 DEF Invalidate

\* While the header is invalidated, files may change in any way.
LEMMA FilesChange ==
    ASSUME SegmentIInv, pc \in {"deleteSidecar", "files", "sidecar"},
           meta' = meta, save' = save, acked' = acked,
           metaDisk' \in {metaDisk, {meta}},
           \A e \in Entries : file'[e] \in fileDisk'[e]
    PROVE  /\ metaDisk' = {[of |-> save, committed |-> FALSE]}
           /\ acked < save
           /\ SeenOnDisk' /\ CommittedWhole' /\ AckedKept'
<1> DEFINE h == [of |-> save, committed |-> FALSE]
<1>1. metaDisk = {h} /\ meta = h /\ acked < save /\ h.of = save /\ ~h.committed
  BY DEF SegmentIInv, Progress, SeenOnDisk
<1> HIDE DEF h
<1>2. metaDisk' = {h}
  BY <1>1
<1>3. SeenOnDisk' /\ CommittedWhole' /\ AckedKept'
  BY <1>1, <1>2 DEF SeenOnDisk, CommittedWhole, AckedKept, SegmentIInv, SegmentTypeOK
<1> QED BY <1>1, <1>2, <1>3 DEF h

\* The sidecar of an earlier save goes away.
LEMMA DeleteSidecarStep == SegmentIInv /\ DeleteSidecar => SegmentIInv'
<1> SUFFICES ASSUME SegmentIInv, DeleteSidecar PROVE SegmentIInv'
  OBVIOUS
<1>1. /\ pc = "deleteSidecar" /\ pc' = "files"
      /\ file \in [Entries -> Content] /\ fileDisk \in [Entries -> SUBSET Content]
      /\ file' = [file EXCEPT ![Sidecar] = Absent]
      /\ fileDisk' = [fileDisk EXCEPT ![Sidecar] = @ \cup {Absent}]
      /\ UNCHANGED <<meta, metaDisk, save, aos, next, acked>>
  BY DEF DeleteSidecar, SegmentIInv, SegmentTypeOK
<1>2. \A e \in Entries : file'[e] \in fileDisk'[e]
  BY <1>1 DEF SegmentIInv, SeenOnDisk
<1>3. /\ metaDisk' = {[of |-> save, committed |-> FALSE]} /\ acked < save
      /\ SeenOnDisk' /\ CommittedWhole' /\ AckedKept'
  BY <1>1, <1>2, FilesChange
<1>4. SegmentTypeOK'
  <2>1. Sidecar \in Entries /\ Absent \in Content
    BY Specials
  <2>2. file' \in [Entries -> Content] /\ fileDisk' \in [Entries -> SUBSET Content]
    BY <1>1, <2>1
  <2>3. next \in Files
    BY <1>1, SegmentAssumption DEF SegmentIInv, Progress, Files
  <2> QED BY <1>1, <2>2, <2>3 DEF SegmentIInv, SegmentTypeOK, SaveSteps
<1>5. Sealed(next - 1)' /\ file'[Sidecar] = Absent
  BY <1>1, Specials DEF Sealed, SegmentIInv, Progress
<1>6. Progress'
  BY <1>1, <1>3, <1>5 DEF Progress
<1> QED BY <1>3, <1>4, <1>6 DEF SegmentIInv

\* A sealed file is on the disk, with all that was changed before it.
LEMMA SealFacts ==
    ASSUME SegmentIInv, NEW e \in Entries, pc \in {"files", "sidecar"}, save \in 1 .. MaxSaves,
           Seal(e) \/ SealHalf(e)
    PROVE  /\ file' = [file EXCEPT ![e] = save] /\ meta' = meta
           /\ metaDisk' \in {metaDisk, {meta}}
           /\ file' \in [Entries -> Content] /\ fileDisk' \in [Entries -> SUBSET Content]
           /\ \A x \in Entries : file'[x] \in fileDisk'[x]
           /\ Seal(e) => fileDisk' = [x \in Entries |-> {file'[x]}]
           /\ \A x \in Entries \ {e} : fileDisk[x] = {save} => fileDisk'[x] = {save}
<1>1. /\ file \in [Entries -> Content] /\ fileDisk \in [Entries -> SUBSET Content]
      /\ \A x \in Entries : file[x] \in fileDisk[x]
      /\ save \in Content
  BY DEF SegmentIInv, SegmentTypeOK, SeenOnDisk, Content
<1> HIDE DEF Content
<1>2. CASE Seal(e)
  BY <1>1, <1>2 DEF Seal, SyncDirectory
<1>3. CASE SealHalf(e)
  BY <1>1, <1>3 DEF Seal, SealHalf, SyncDirectory
<1> QED BY <1>2, <1>3

\* The sealed files grow by one; the first seal makes the deletion of the
\* sidecar durable.
LEMMA WriteFileStep == SegmentIInv /\ WriteFile => SegmentIInv'
<1> SUFFICES ASSUME SegmentIInv, WriteFile PROVE SegmentIInv'
  OBVIOUS
<1>1. /\ pc = "files" /\ next \in Files /\ next \in Entries /\ NumFiles \in Nat
      /\ next # Sidecar
      /\ acked < save /\ save \in 1 .. MaxSaves /\ aos \in BOOLEAN
      /\ Sealed(next - 1) /\ file[Sidecar] = Absent
      /\ UNCHANGED <<save, aos, acked>>
  BY SegmentAssumption, Specials DEF WriteFile, SegmentIInv, SegmentTypeOK, Progress
<1>2. Seal(next) \/ SealHalf(next)
  BY DEF WriteFile
<1>3. /\ file' = [file EXCEPT ![next] = save] /\ meta' = meta
      /\ metaDisk' \in {metaDisk, {meta}}
      /\ file' \in [Entries -> Content] /\ fileDisk' \in [Entries -> SUBSET Content]
      /\ \A x \in Entries : file'[x] \in fileDisk'[x]
      /\ Seal(next) => fileDisk' = [x \in Entries |-> {file'[x]}]
      /\ \A x \in Entries \ {next} : fileDisk[x] = {save} => fileDisk'[x] = {save}
  BY <1>1, <1>2, SealFacts
<1>4. /\ metaDisk' = {[of |-> save, committed |-> FALSE]}
      /\ SeenOnDisk' /\ CommittedWhole' /\ AckedKept'
  BY <1>1, <1>3, FilesChange
<1>5. CASE SealHalf(next) /\ pc' = "idle" /\ UNCHANGED next
  <2>1. SegmentTypeOK'
    BY <1>1, <1>3, <1>4, <1>5 DEF SegmentIInv, SegmentTypeOK, SaveSteps
  <2>2. Progress'
    BY <1>5 DEF Progress
  <2> QED BY <1>4, <2>1, <2>2 DEF SegmentIInv
<1>6. CASE Seal(next) /\ next' = next + 1 /\ pc' = AfterFile
  <2>1. /\ pc' \in {"files", "sidecar", "commit"}
        /\ pc' = "files" <=> next # NumFiles
    BY <1>6 DEF AfterFile
  <2>2. next \in 1 .. NumFiles /\ next' \in 1 .. NumFiles + 1 /\ (pc' = "files" => next' \in Files)
    BY <1>1, <1>6, <2>1 DEF Files
  <2>3. \A f \in 1 .. next : fileDisk'[f] = {save}
    <3> SUFFICES ASSUME NEW f \in 1 .. next PROVE fileDisk'[f] = {save}
      OBVIOUS
    <3>1. f \in Entries /\ (f # next => f \in 1 .. next - 1)
      BY <1>1, <2>2 DEF Entries, Files
    <3>2. CASE f = next
      BY <1>1, <1>3, <1>6, <3>2 DEF SegmentIInv, SegmentTypeOK
    <3>3. CASE f # next
      BY <1>1, <1>3, <3>1, <3>3 DEF Sealed
    <3> QED BY <3>2, <3>3
  <2>4. fileDisk'[Sidecar] = {Absent} /\ file'[Sidecar] = Absent
    BY <1>1, <1>3, <1>6, Specials DEF SegmentIInv, SegmentTypeOK
  <2>5. SegmentTypeOK'
    BY <1>1, <1>3, <1>4, <2>1, <2>2 DEF SegmentIInv, SegmentTypeOK, SaveSteps
  <2>6. Progress'
    <3>1. pc' = "files" => Sealed(next - 1)'
      BY <1>1, <1>6, <2>2, <2>3 DEF Sealed
    <3>2. pc' # "files" => Sealed(NumFiles)'
      BY <1>1, <2>1, <2>3 DEF Sealed
    <3> QED BY <1>1, <1>4, <2>1, <2>4, <3>1, <3>2 DEF Progress
  <2> QED BY <1>4, <2>5, <2>6 DEF SegmentIInv
<1> QED BY <1>5, <1>6 DEF WriteFile

\* The sidecar is sealed beside the files of its save.
LEMMA WriteSidecarStep == SegmentIInv /\ WriteSidecar => SegmentIInv'
<1> SUFFICES ASSUME SegmentIInv, WriteSidecar PROVE SegmentIInv'
  OBVIOUS
<1>1. /\ pc = "sidecar" /\ Sealed(NumFiles)
      /\ acked < save /\ save \in 1 .. MaxSaves
      /\ pc' \in {"idle", "commit"} /\ (pc' = "commit" => Seal(Sidecar))
      /\ UNCHANGED <<save, aos, next, acked>>
  BY DEF WriteSidecar, SegmentIInv, SegmentTypeOK, Progress
<1>2. Seal(Sidecar) \/ SealHalf(Sidecar)
  BY DEF WriteSidecar
<1>3. /\ file' = [file EXCEPT ![Sidecar] = save] /\ meta' = meta
      /\ metaDisk' \in {metaDisk, {meta}}
      /\ file' \in [Entries -> Content] /\ fileDisk' \in [Entries -> SUBSET Content]
      /\ \A x \in Entries : file'[x] \in fileDisk'[x]
      /\ Seal(Sidecar) => fileDisk' = [x \in Entries |-> {file'[x]}]
      /\ \A x \in Entries \ {Sidecar} : fileDisk[x] = {save} => fileDisk'[x] = {save}
  BY <1>1, <1>2, SealFacts, Specials
<1>4. /\ metaDisk' = {[of |-> save, committed |-> FALSE]}
      /\ SeenOnDisk' /\ CommittedWhole' /\ AckedKept'
  BY <1>1, <1>3, FilesChange
<1>5. SegmentTypeOK'
  BY <1>1, <1>3, <1>4 DEF SegmentIInv, SegmentTypeOK, SaveSteps
<1>6. Sealed(NumFiles)'
  BY <1>1, <1>3, Specials DEF Sealed, Files
<1>7. pc' = "commit" => fileDisk'[Sidecar] = {save}
  BY <1>1, <1>3, Specials DEF SegmentIInv, SegmentTypeOK
<1>8. Progress'
  BY <1>1, <1>4, <1>6, <1>7 DEF Progress
<1> QED BY <1>4, <1>5, <1>8 DEF SegmentIInv

\* The committed header finds every file of its save on the disk.
LEMMA CommitStep == SegmentIInv /\ Commit => SegmentIInv'
<1> SUFFICES ASSUME SegmentIInv, Commit PROVE SegmentIInv'
  OBVIOUS
<1> DEFINE h == [of |-> save, committed |-> TRUE]
           u == [of |-> save, committed |-> FALSE]
<1>1. /\ pc = "commit" /\ pc' = "idle" /\ meta' = h /\ file' = file
      /\ h \in Header /\ u \in Header /\ h.of = save /\ u.of = save /\ h.committed /\ ~u.committed
      /\ UNCHANGED <<save, aos, next>>
  BY DEF Commit, WriteHeader, WriteHeaderHalf, SegmentIInv, SegmentTypeOK, Header
<1>2. /\ metaDisk = {u} /\ acked < save /\ acked \in Nat /\ save \in Nat
      /\ \A f \in Files : fileDisk[f] = {save}
      /\ fileDisk[Sidecar] \subseteq {save, Absent}
      /\ \A e \in Entries : file[e] \in fileDisk[e]
  BY <1>1 DEF SegmentIInv, SegmentTypeOK, SeenOnDisk, Progress, Sealed, Files
<1>3. CASE WriteHeader(TRUE) /\ acked' = save
  <2>1. metaDisk' = {h} /\ fileDisk' = [e \in Entries |-> {file[e]}]
    BY <1>1, <1>3 DEF WriteHeader, SyncDirectory
  <2> HIDE DEF h, u
  <2>2. SegmentTypeOK' /\ Progress'
    BY <1>1, <1>3, <2>1 DEF SegmentIInv, SegmentTypeOK, SaveSteps, Progress
  <2>3. /\ \A f \in Files : fileDisk'[f] = {save}
        /\ fileDisk'[Sidecar] \subseteq {save, Absent}
    BY <1>2, <2>1, Specials
  <2>4. SeenOnDisk' /\ CommittedWhole' /\ AckedKept'
    BY <1>1, <1>2, <1>3, <2>1, <2>3 DEF SeenOnDisk, CommittedWhole, AckedKept
  <2> QED BY <2>2, <2>4 DEF SegmentIInv
<1>4. CASE WriteHeaderHalf(TRUE) /\ UNCHANGED acked
  <2>1. metaDisk' = {u, h} /\ fileDisk' = fileDisk
    BY <1>1, <1>2, <1>4 DEF WriteHeaderHalf
  <2> HIDE DEF h, u
  <2>2. SegmentTypeOK' /\ Progress'
    BY <1>1, <1>4, <2>1 DEF SegmentIInv, SegmentTypeOK, SaveSteps, Progress
  <2>3. SeenOnDisk' /\ CommittedWhole' /\ AckedKept'
    BY <1>1, <1>2, <1>4, <2>1 DEF SeenOnDisk, CommittedWhole, AckedKept
  <2> QED BY <2>2, <2>3 DEF SegmentIInv
<1> QED BY <1>3, <1>4 DEF Commit

\* A power loss shows one of the values that the disk may have.
LEMMA PowerLossStep == SegmentIInv /\ PowerLoss => SegmentIInv'
<1> SUFFICES ASSUME SegmentIInv, PowerLoss PROVE SegmentIInv'
  OBVIOUS
<1>1. /\ meta' \in metaDisk /\ metaDisk' = {meta'}
      /\ fileDisk' = [e \in Entries |-> {file'[e]}]
      /\ pc' = "idle" /\ UNCHANGED <<save, aos, next, acked>>
  BY DEF PowerLoss, SyncDirectory
<1>2. /\ file' \in [Entries -> Content]
      /\ \A e \in Entries : file'[e] \in fileDisk[e]
  <2>1. PICK lost \in [Loose -> Content] :
            /\ \A e \in Loose : lost[e] \in fileDisk[e]
            /\ file' = [e \in Entries |-> IF e \in Loose THEN lost[e] ELSE file[e]]
    BY DEF PowerLoss
  <2>2. \A e \in Entries : file[e] \in fileDisk[e] /\ file[e] \in Content
    BY DEF SegmentIInv, SeenOnDisk, SegmentTypeOK
  <2> QED BY <2>1, <2>2
<1>3. SegmentTypeOK' /\ Progress'
  BY <1>1, <1>2 DEF SegmentIInv, SegmentTypeOK, SaveSteps, Progress
<1>4. SeenOnDisk' /\ AckedKept'
  BY <1>1 DEF SegmentIInv, SeenOnDisk, AckedKept
<1>5. CommittedWhole'
  BY <1>1, <1>2, Specials DEF SegmentIInv, CommittedWhole
<1> QED BY <1>3, <1>4, <1>5 DEF SegmentIInv

\* Every step keeps the invariant.
LEMMA SegmentStepInv == SegmentIInv /\ [SegmentNext]_segmentVars => SegmentIInv'
<1> SUFFICES ASSUME SegmentIInv, [SegmentNext]_segmentVars PROVE SegmentIInv'
  OBVIOUS
<1>1. CASE UNCHANGED segmentVars
  BY <1>1 DEF segmentVars, diskVars, SegmentIInv, SegmentTypeOK, SeenOnDisk, CommittedWhole, Progress,
              Sealed, AckedKept
<1>2. CASE SegmentNext
  BY <1>2, StartStep, AbandonStep, InvalidateStep, DeleteSidecarStep, WriteFileStep,
     WriteSidecarStep, CommitStep, PowerLossStep DEF SegmentNext
<1> QED BY <1>1, <1>2

-----------------------------------------------------------------------------
(* The theorems                                                            *)

\* The strengthened invariant holds in every state of every behaviour.
THEOREM SegmentInvariance == SegmentSpec => []SegmentIInv
BY SegmentInitInv, SegmentStepInv, PTL DEF SegmentSpec

\* The writer keeps its types, and seals no file that does not exist.
THEOREM SegmentTypeCorrect == SegmentSpec => []SegmentTypeOK
<1>1. SegmentIInv => SegmentTypeOK
  BY DEF SegmentIInv
<1> QED BY <1>1, SegmentInvariance, PTL

\* An accepted segment is of one save, whatever failed before.
THEOREM AcceptedIsWholeAlways == SegmentSpec => []AcceptedIsWhole
<1>1. SegmentIInv => AcceptedIsWhole
  <2> SUFFICES ASSUME SegmentIInv, meta.committed
               PROVE  /\ \A f \in Files : file[f] = meta.of
                      /\ file[Sidecar] \in {meta.of, Absent}
    BY DEF AcceptedIsWhole, Accepted
  <2>1. /\ \A f \in Files : fileDisk[f] = {meta.of}
        /\ fileDisk[Sidecar] \subseteq {meta.of, Absent}
        /\ \A e \in Entries : file[e] \in fileDisk[e]
    BY DEF SegmentIInv, SeenOnDisk, CommittedWhole
  <2> QED BY <2>1, Specials
<1> QED BY <1>1, SegmentInvariance, PTL

\* A save that returned Ok survives every power loss until a later save
\* invalidates it.
THEOREM AckedKeptAlways == SegmentSpec => []AckedKept
<1>1. SegmentIInv => AckedKept
  BY DEF SegmentIInv
<1> QED BY <1>1, SegmentInvariance, PTL

-----------------------------------------------------------------------------
(*                       BlockCache: cached reads                          *)


-----------------------------------------------------------------------------
(* Arithmetic                                                              *)

\* Multiplication by a natural number is monotonic.
LEMMA MulMono ==
    ASSUME NEW a \in Int, NEW b \in Int, NEW n \in Nat, a <= b
    PROVE  a * n <= b * n
BY SMT

\* Division with remainder by the block size.
LEMMA Division ==
    ASSUME NEW p \in Nat
    PROVE  /\ p \div BlockSize \in Nat
           /\ p % BlockSize \in InBlock
           /\ p = (p \div BlockSize) * BlockSize + (p % BlockSize)
BY CacheAssumption DEF InBlock

\* The number of blocks covers the file.
LEMMA BlocksCover ==
    /\ NumBlocks \in Nat
    /\ FileLen <= NumBlocks * BlockSize
    /\ \A p \in Nat : p < FileLen => p \div BlockSize \in Blocks
<1>1. NumBlocks \in Nat /\ FileLen <= NumBlocks * BlockSize
  <2>1. FileLen + BlockSize - 1 \in Nat
    BY CacheAssumption
  <2>2. PICK r \in InBlock : FileLen + BlockSize - 1 = NumBlocks * BlockSize + r
    BY <2>1, Division DEF NumBlocks
  <2>3. NumBlocks \in Nat
    BY <2>1, Division DEF NumBlocks
  <2> QED BY <2>2, <2>3, CacheAssumption DEF InBlock
<1>2. ASSUME NEW p \in Nat, p < FileLen PROVE p \div BlockSize \in Blocks
  <2> DEFINE q == p \div BlockSize
  <2>1. q \in Nat /\ q * BlockSize <= p
    BY Division, CacheAssumption DEF InBlock
  <2>2. q * BlockSize < NumBlocks * BlockSize
    BY <1>1, <1>2, <2>1, CacheAssumption
  <2> HIDE DEF q
  <2>3. ~(NumBlocks <= q)
    BY <1>1, <2>1, <2>2, MulMono, CacheAssumption
  <2>4. q \in Blocks
    BY <1>1, <2>1, <2>3 DEF Blocks
  <2> QED BY <2>4 DEF q
<1> QED BY <1>1, <1>2

\* The slots fit the budget.
LEMMA CapacityFits == Capacity \in Nat /\ Capacity * BlockSize <= Budget
<1> DEFINE c == Budget \div BlockSize
<1>1. c \in Nat /\ c * BlockSize <= Budget
  BY Division, CacheAssumption DEF InBlock
<1>2. Capacity \in Nat /\ Capacity <= c
  BY <1>1, BlocksCover DEF Capacity
<1> HIDE DEF c
<1> QED BY <1>1, <1>2, MulMono, CacheAssumption

\* What a read in progress takes from a block lies in the part of the block
\* that the file fills.
LEMMA ChunkInBlock ==
    ASSUME call.offset \in Nat, call.len \in Nat, Len(buf) \in Nat,
           Len(buf) < call.len, call.offset + call.len <= FileLen
    PROVE  /\ Pos \in Nat /\ Pos < FileLen
           /\ Block \in Blocks /\ Within \in InBlock
           /\ Pos = Block * BlockSize + Within
           /\ Chunk \in Nat \ {0} /\ Len(buf) + Chunk <= call.len
           /\ Within + Chunk <= BlockLen(Block)
<1>1. Pos \in Nat /\ Pos < FileLen
  BY CacheAssumption DEF Pos
<1>2. Block \in Blocks /\ Within \in InBlock /\ Pos = Block * BlockSize + Within
  BY <1>1, BlocksCover, Division DEF Block, Within
<1> DEFINE start == Block * BlockSize
<1>3. start \in Int /\ Pos = start + Within
  BY <1>2, CacheAssumption DEF Blocks
<1> HIDE DEF start
<1>4. Chunk \in Nat \ {0} /\ Len(buf) + Chunk <= call.len /\ Chunk <= BlockSize - Within
  BY <1>2, CacheAssumption DEF Chunk, InBlock
<1>5. Within + Chunk <= FileLen - start
  BY <1>2, <1>3, <1>4, CacheAssumption DEF Pos, InBlock
<1>6. Within + Chunk <= BlockLen(Block)
  BY <1>2, <1>4, <1>5, CacheAssumption DEF BlockLen, InBlock, start
<1> QED BY <1>1, <1>2, <1>4, <1>6

\* The part of a block that the file fills.
LEMMA BlockLenType ==
    ASSUME NEW b \in Blocks
    PROVE  /\ BlockLen(b) \in Int /\ BlockLen(b) <= BlockSize
           /\ b * BlockSize \in Nat /\ b * BlockSize + BlockLen(b) <= FileLen
BY BlocksCover, CacheAssumption DEF Blocks, BlockLen

-----------------------------------------------------------------------------
(* The inductive invariant                                                 *)

\* A slot without a block has no second chance left, and slots that were not
\* allocated yet have no block.
EmptySlots ==
    \A s \in Slots :
        /\ slot_block[s] = NoBlock => ~referenced[s]
        /\ s >= used => slot_block[s] = NoBlock

\* What a read in progress has delivered, and what it knows of its slot.
CallInv ==
    /\ call.at \in {"lookup", "sweep", "fill", "copy"} =>
           /\ Capacity > 0
           /\ call.offset + call.len <= FileLen
           /\ Len(buf) < call.len
           /\ buf = FileBytes(call.offset, Len(buf))
    /\ call.at = "sweep" => used = Capacity
    /\ call.at = "fill" => call.slot \in Slots /\ slot_block[call.slot] = NoBlock
                             /\ call.slot < used
    /\ call.at = "copy" => call.slot \in Slots /\ slots[Block] = call.slot
    /\ ReadReturnsFile

CacheIInv == TypeOK /\ Coherent /\ EmptySlots /\ CallInv

\* The initial state satisfies the invariant.
LEMMA CacheInitInv == Init => CacheIInv
<1> SUFFICES ASSUME Init PROVE CacheIInv
  OBVIOUS
<1>1. TypeOK
  BY CapacityFits, CacheAssumption
     DEF Init, TypeOK, Calls, NoCall, Steps, Slots, Byte
<1>2. Coherent /\ EmptySlots
  BY DEF Init, Coherent, EmptySlots
<1>3. CallInv
  BY DEF Init, CallInv, NoCall, ReadReturnsFile
<1> QED BY <1>1, <1>2, <1>3 DEF CacheIInv

\* A stretch of the file is a sequence of bytes.
LEMMA FileBytesType ==
    ASSUME NEW o \in Nat, NEW n \in Nat, n = 0 \/ o + n <= FileLen
    PROVE  /\ FileBytes(o, n) \in Seq(Byte)
           /\ Len(FileBytes(o, n)) = n
<1>1. \A j \in 1 .. n : o + j - 1 \in Byte
  BY CacheAssumption DEF Byte
<1> QED BY <1>1 DEF FileBytes

\* A call of read_exact_at keeps the invariant.
LEMMA ReadInv ==
    ASSUME CacheIInv, NEW o \in 0 .. MaxOffset, NEW n \in 0 .. MaxRequest, Read(o, n)
    PROVE  CacheIInv'
<1> USE CacheAssumption
<1>1. o \in Nat /\ n \in Nat
  OBVIOUS
<1>2. UNCHANGED cacheVars
  BY DEF Read
<1>3. Coherent' /\ EmptySlots'
  BY <1>2 DEF cacheVars, Coherent, EmptySlots, CacheIInv
<1>4. CASE Bypasses(n) /\ Direct(o, n)
  <2>1. CASE /\ n = 0 \/ o + n <= FileLen
             /\ call' = [at |-> "done", offset |-> o, len |-> n, slot |-> NoSlot]
             /\ buf' = FileBytes(o, n)
    <3>1. TypeOK'
      BY <1>1, <1>2, <2>1, FileBytesType DEF cacheVars, TypeOK, CacheIInv, Calls, Steps
    <3>2. CallInv'
      BY <1>1, <2>1 DEF CallInv, ReadReturnsFile, FileBytes
    <3> QED BY <1>3, <3>1, <3>2 DEF CacheIInv
  <2>2. CASE /\ call' = [at |-> "failed", offset |-> o, len |-> n, slot |-> NoSlot]
             /\ buf' = <<>>
    BY <1>2, <1>3, <2>2 DEF cacheVars, TypeOK, CacheIInv, Calls, Steps, CallInv, ReadReturnsFile
  <2> QED BY <1>4, <2>1, <2>2 DEF Direct
<1>5. CASE /\ ~Bypasses(n)
           /\ call' = [at |-> IF o + n > FileLen THEN "failed" ELSE "lookup",
                       offset |-> o, len |-> n, slot |-> NoSlot]
           /\ buf' = <<>>
  <2>1. TypeOK'
    BY <1>2, <1>5 DEF cacheVars, TypeOK, CacheIInv, Calls, Steps
  <2>2. n > 0 /\ Capacity > 0
    BY <1>1, <1>5, CapacityFits DEF Bypasses
  <2>3. FileBytes(o, 0) = <<>>
    BY DEF FileBytes
  <2>4. CallInv'
    BY <1>1, <1>5, <2>2, <2>3 DEF CallInv, ReadReturnsFile
  <2> QED BY <1>3, <2>1, <2>4 DEF CacheIInv
<1> QED BY <1>4, <1>5 DEF Read

\* Steps that look for a slot, and the return, move no bytes.
LEMMA LookInv ==
    ASSUME CacheIInv, Hit \/ Allocate \/ StartSweep \/ Skip \/ Return
    PROVE  CacheIInv'
<1> USE CacheAssumption
<1>1. CASE Hit
  <2>1. Block \in Blocks /\ slots[Block] \in Slots
    BY <1>1, ChunkInBlock DEF Hit, CacheIInv, CallInv, TypeOK, Calls
  <2>2. /\ slot_block[slots[Block]] = Block /\ Block # NoBlock
    BY <1>1, <2>1 DEF Hit, CacheIInv, Coherent, Blocks
  <2>3. Block' = Block
    BY <1>1 DEF Hit, Goto, Block, Pos, CacheIInv, TypeOK, Calls
  <2>4. TypeOK'
    BY <1>1, <2>1 DEF Hit, Goto, CacheIInv, TypeOK, Calls, Steps
  <2>5. Coherent'
    BY <1>1 DEF Hit, CacheIInv, Coherent
  <2>6. EmptySlots'
    BY <1>1, <2>1, <2>2 DEF Hit, CacheIInv, EmptySlots, TypeOK
  <2>7. CallInv'
    BY <1>1, <2>1, <2>3 DEF Hit, Goto, CacheIInv, CallInv, ReadReturnsFile, TypeOK, Calls
  <2> QED BY <2>4, <2>5, <2>6, <2>7 DEF CacheIInv
<1>2. CASE Allocate
  <2>1. used \in Slots /\ used + 1 \in 0 .. Capacity
    BY <1>2, CapacityFits DEF Allocate, CacheIInv, TypeOK, Slots
  <2>2. TypeOK'
    BY <1>2, <2>1 DEF Allocate, Goto, CacheIInv, TypeOK, Calls, Steps
  <2>3. Coherent'
    BY <1>2 DEF Allocate, CacheIInv, Coherent
  <2>4. EmptySlots'
    BY <1>2, <2>1 DEF Allocate, CacheIInv, EmptySlots, Slots
  <2>5. slot_block'[used] = NoBlock
    BY <1>2, <2>1 DEF Allocate, CacheIInv, EmptySlots, Slots
  <2>6. CallInv'
    BY <1>2, <2>1, <2>5 DEF Allocate, Goto, CacheIInv, CallInv, ReadReturnsFile, TypeOK, Calls
  <2> QED BY <2>2, <2>3, <2>4, <2>6 DEF CacheIInv
<1>3. CASE StartSweep
  <2>1. TypeOK'
    BY <1>3 DEF StartSweep, cacheVars, Goto, CacheIInv, TypeOK, Calls, Steps
  <2>2. Coherent' /\ EmptySlots'
    BY <1>3 DEF StartSweep, cacheVars, CacheIInv, Coherent, EmptySlots
  <2>3. CallInv'
    BY <1>3 DEF StartSweep, cacheVars, Goto, CacheIInv, CallInv, ReadReturnsFile, TypeOK, Calls
  <2> QED BY <2>1, <2>2, <2>3 DEF CacheIInv
<1>4. CASE Skip
  <2>1. Capacity \in Nat \ {0} /\ hand \in Slots
    BY <1>4, CapacityFits DEF Skip, CacheIInv, CallInv, TypeOK
  <2>2. (hand + 1) % Capacity \in Slots
    BY <2>1 DEF Slots
  <2>3. TypeOK'
    BY <1>4, <2>1, <2>2, CapacityFits DEF Skip, Advance, CacheIInv, TypeOK, Slots
  <2>4. Coherent' /\ EmptySlots'
    BY <1>4 DEF Skip, CacheIInv, Coherent, EmptySlots, TypeOK
  <2>5. CallInv'
    BY <1>4 DEF Skip, CacheIInv, CallInv, ReadReturnsFile, Block, Pos
  <2> QED BY <2>3, <2>4, <2>5 DEF CacheIInv
<1>5. CASE Return
  <2>1. TypeOK'
    BY <1>5 DEF Return, cacheVars, NoCall, CacheIInv, TypeOK, Calls, Steps
  <2>2. Coherent' /\ EmptySlots'
    BY <1>5 DEF Return, cacheVars, CacheIInv, Coherent, EmptySlots
  <2>3. CallInv'
    BY <1>5 DEF Return, NoCall, CallInv, ReadReturnsFile
  <2> QED BY <2>1, <2>2, <2>3 DEF CacheIInv
<1> QED BY <1>1, <1>2, <1>3, <1>4, <1>5

\* An eviction takes its block out of the map before the slot is reused.
LEMMA EvictInv ==
    ASSUME CacheIInv, Evict
    PROVE  CacheIInv'
<1> USE CacheAssumption
<1>1. Capacity \in Nat \ {0} /\ hand \in Slots /\ used = Capacity /\ hand < used
  BY CapacityFits DEF Evict, CacheIInv, CallInv, TypeOK, Slots
<1>2. (hand + 1) % Capacity \in Slots
  BY <1>1 DEF Slots
<1>3. /\ slots' \in [Blocks -> Slots \cup {NoSlot}]
      /\ \A b \in Blocks : slots'[b] # NoSlot => b # slot_block[hand] /\ slots'[b] = slots[b]
  BY DEF Evict, CacheIInv, TypeOK
<1>4. /\ slot_block'[hand] = NoBlock
      /\ \A s \in Slots \ {hand} : slot_block'[s] = slot_block[s]
  BY <1>1 DEF Evict, CacheIInv, TypeOK
<1>5. TypeOK'
  <2>1. call' \in Calls
    BY <1>1 DEF Evict, Goto, CacheIInv, TypeOK, Calls, Steps
  <2>2. hand' \in Nat /\ hand' \in Slots
    BY <1>1, <1>2 DEF Evict, Advance, Slots
  <2>3. slot_block' \in [Slots -> Blocks \cup {NoBlock}]
    BY <1>1 DEF Evict, CacheIInv, TypeOK
  <2> QED BY <1>3, <2>1, <2>2, <2>3 DEF Evict, CacheIInv, TypeOK
<1>6. Coherent'
  <2> SUFFICES ASSUME NEW b \in Blocks, slots'[b] # NoSlot
               PROVE  slot_block'[slots'[b]] = b /\ data' = data /\ slots'[b] = slots[b]
    BY DEF CacheIInv, Coherent
  <2>1. slots'[b] = slots[b] /\ b # slot_block[hand] /\ slots[b] \in Slots
    BY <1>3
  <2>2. slot_block[slots[b]] = b /\ slots[b] # hand
    BY <2>1 DEF CacheIInv, Coherent
  <2> QED BY <1>4, <2>1, <2>2 DEF Evict
<1>7. EmptySlots'
  BY <1>1, <1>4 DEF Evict, CacheIInv, EmptySlots, Slots
<1>8. CallInv'
  BY <1>1, <1>4 DEF Evict, Goto, CacheIInv, CallInv, ReadReturnsFile, TypeOK, Calls
<1> QED BY <1>5, <1>6, <1>7, <1>8 DEF CacheIInv

\* A fill touches a slot that no block names, whether it succeeds or not.
LEMMA FillInv ==
    ASSUME CacheIInv, Fill
    PROVE  CacheIInv'
<1> USE CacheAssumption
<1> DEFINE s == call.slot  b == Block
<1>1. s \in Slots /\ slot_block[s] = NoBlock /\ s < used
  BY DEF Fill, CacheIInv, CallInv
<1>2. b \in Blocks /\ b # NoBlock
  BY ChunkInBlock DEF Fill, CacheIInv, CallInv, TypeOK, Calls, Blocks
<1>3. \A c \in Blocks : slots[c] # NoSlot => slots[c] \in Slots /\ slots[c] # s
  BY <1>1 DEF CacheIInv, Coherent, TypeOK, Blocks
<1>4. ASSUME NEW n \in Int, n <= BlockLen(b)
      PROVE  Overwritten(b, n) \in [InBlock -> Byte]
  <2>1. ASSUME NEW i \in InBlock, i < n PROVE b * BlockSize + i \in Byte
    BY <1>2, <1>4, <2>1, BlockLenType DEF Byte, InBlock
  <2>2. data[s] \in [InBlock -> Byte]
    BY <1>1 DEF CacheIInv, TypeOK
  <2> QED BY <2>1, <2>2 DEF Overwritten
<1>5. b' = b
  BY DEF Fill, Goto, Block, Pos, CacheIInv, TypeOK, Calls
<1>6. CASE /\ data' = [data EXCEPT ![s] = Overwritten(b, BlockLen(b))]
           /\ slot_block' = [slot_block EXCEPT ![s] = b]
           /\ slots' = [slots EXCEPT ![b] = s]
           /\ Goto("copy", s)
  <2>1. BlockLen(b) \in Int /\ BlockLen(b) <= BlockSize
    BY <1>2, BlockLenType
  <2>2. TypeOK'
    <3>1. call' \in Calls
      BY <1>1, <1>6 DEF Goto, CacheIInv, TypeOK, Calls, Steps
    <3>2. data' \in [Slots -> [InBlock -> Byte]]
      BY <1>1, <1>4, <1>6, <2>1 DEF CacheIInv, TypeOK
    <3>3. /\ slots' \in [Blocks -> Slots \cup {NoSlot}]
          /\ slot_block' \in [Slots -> Blocks \cup {NoBlock}]
      BY <1>1, <1>2, <1>6 DEF CacheIInv, TypeOK
    <3> QED BY <3>1, <3>2, <3>3 DEF Fill, CacheIInv, TypeOK
  <2>3. /\ slots'[b] = s /\ slot_block'[s] = b
        /\ \A c \in Blocks \ {b} : slots'[c] = slots[c]
        /\ \A t \in Slots \ {s} : slot_block'[t] = slot_block[t] /\ data'[t] = data[t]
        /\ data'[s] = Overwritten(b, BlockLen(b))
    BY <1>1, <1>2, <1>6 DEF CacheIInv, TypeOK
  <2>4. \A i \in 0 .. BlockLen(b) - 1 : data'[s][i] = b * BlockSize + i
    BY <2>1, <2>3 DEF Overwritten, InBlock
  <2>5. Coherent'
    BY <1>3, <2>3, <2>4 DEF CacheIInv, Coherent
  <2>6. EmptySlots'
    BY <1>1, <1>2, <2>3 DEF Fill, CacheIInv, EmptySlots, TypeOK, Slots
  <2>7. CallInv'
    BY <1>1, <1>5, <1>6, <2>3 DEF Fill, Goto, CacheIInv, CallInv, ReadReturnsFile, TypeOK, Calls
  <2> QED BY <2>2, <2>5, <2>6, <2>7 DEF CacheIInv
<1>7. CASE /\ \E n \in 0 .. BlockLen(b) - 1 :
                 data' = [data EXCEPT ![s] = Overwritten(b, n)]
           /\ Goto("failed", NoSlot)
           /\ UNCHANGED <<slots, slot_block>>
  <2>1. PICK n \in 0 .. BlockLen(b) - 1 : data' = [data EXCEPT ![s] = Overwritten(b, n)]
    BY <1>7
  <2>2. n \in Int /\ n <= BlockLen(b)
    BY <1>2, BlockLenType
  <2>3. TypeOK'
    BY <1>1, <1>4, <1>7, <2>1, <2>2 DEF Fill, Goto, CacheIInv, TypeOK, Calls, Steps
  <2>4. \A t \in Slots \ {s} : data'[t] = data[t]
    BY <2>1 DEF CacheIInv, TypeOK
  <2>5. Coherent'
    BY <1>3, <1>7, <2>4 DEF CacheIInv, Coherent
  <2>6. EmptySlots'
    BY <1>7 DEF Fill, CacheIInv, EmptySlots
  <2>7. CallInv'
    BY <1>7 DEF Goto, CacheIInv, CallInv, ReadReturnsFile, TypeOK, Calls
  <2> QED BY <2>3, <2>5, <2>6, <2>7 DEF CacheIInv
<1> QED BY <1>6, <1>7 DEF Fill

\* What is copied out of a slot is the next stretch of the file.
LEMMA CopyInv ==
    ASSUME CacheIInv, Copy
    PROVE  CacheIInv'
<1> USE CacheAssumption
<1> DEFINE s == call.slot  chunk == [j \in 1 .. Chunk |-> data[s][Within + j - 1]]
<1>1. /\ s \in Slots /\ slots[Block] = s /\ s # NoSlot
      /\ call.offset \in Nat /\ call.len \in Nat /\ Len(buf) \in Nat
      /\ Len(buf) < call.len /\ call.offset + call.len <= FileLen
      /\ buf = FileBytes(call.offset, Len(buf))
      /\ Capacity > 0
  BY DEF Copy, CacheIInv, CallInv, TypeOK, Calls, Slots
<1>2. /\ Pos \in Nat /\ Block \in Blocks /\ Within \in InBlock
      /\ Pos = Block * BlockSize + Within
      /\ Chunk \in Nat \ {0} /\ Len(buf) + Chunk <= call.len
      /\ Within + Chunk <= BlockLen(Block)
  BY <1>1, ChunkInBlock
<1>3. \A j \in 1 .. Chunk : chunk[j] = Pos + j - 1
  <2> SUFFICES ASSUME NEW j \in 1 .. Chunk PROVE data[s][Within + j - 1] = Pos + j - 1
    OBVIOUS
  <2>1. BlockLen(Block) \in Int
    BY <1>2, BlockLenType
  <2>2. Within + j - 1 \in 0 .. BlockLen(Block) - 1
    BY <1>2, <2>1 DEF InBlock
  <2>3. data[s][Within + j - 1] = Block * BlockSize + (Within + j - 1)
    BY <1>1, <1>2, <2>2 DEF CacheIInv, Coherent
  <2>4. Block * BlockSize \in Int
    BY <1>2, BlockLenType
  <2> QED BY <1>2, <2>3, <2>4 DEF InBlock
<1>4. buf' = FileBytes(call.offset, Len(buf) + Chunk)
  <2> DEFINE t == FileBytes(call.offset, Len(buf) + Chunk)
  <2>1. buf' = buf \o chunk /\ buf \in Seq(Byte)
    BY DEF Copy, CacheIInv, TypeOK
  <2>2. /\ \A j \in 1 .. Len(buf) : buf[j] = call.offset + j - 1
        /\ \A j \in 1 .. Chunk : chunk[j] = call.offset + (Len(buf) + j) - 1
    <3>1. \A j \in 1 .. Len(buf) : buf[j] = call.offset + j - 1
      <4> HIDE DEF chunk
      <4> QED BY <1>1 DEF FileBytes
    <3>2. \A j \in 1 .. Chunk : chunk[j] = call.offset + (Len(buf) + j) - 1
      <4> HIDE DEF chunk
      <4> SUFFICES ASSUME NEW j \in 1 .. Chunk
                   PROVE  chunk[j] = call.offset + (Len(buf) + j) - 1
        OBVIOUS
      <4>1. chunk[j] = Pos + j - 1 /\ j \in Int
        BY <1>3
      <4> QED BY <1>1, <4>1 DEF Pos
    <3> QED BY <3>1, <3>2
  <2>3. \A j \in 1 .. Chunk : chunk[j] \in Byte
    <3> HIDE DEF chunk
    <3> SUFFICES ASSUME NEW j \in 1 .. Chunk PROVE chunk[j] \in Byte
      OBVIOUS
    <3>1. j \in Int /\ 1 <= j /\ j <= Chunk /\ Chunk \in Int
      BY <1>2
    <3>2. call.offset + (Len(buf) + j) - 1 \in 0 .. FileLen - 1
      BY <1>1, <1>2, <3>1
    <3> QED BY <2>2, <3>2 DEF Byte
  <2>4. chunk \in Seq(Byte) /\ Len(chunk) = Chunk
    BY <1>2, <2>3
  <2>5. t \in Seq(Byte) /\ Len(t) = Len(buf) + Chunk
    <3>1. Len(buf) + Chunk \in Nat /\ call.offset + (Len(buf) + Chunk) <= FileLen
      BY <1>1, <1>2
    <3> HIDE DEF chunk
    <3> QED BY <1>1, <3>1, FileBytesType
  <2>6. \A j \in 1 .. Len(buf) + Chunk : t[j] = call.offset + j - 1
    BY <1>1, <1>2 DEF FileBytes
  <2> HIDE DEF chunk, t
  <2>7. /\ buf \o chunk \in Seq(Byte)
        /\ Len(buf \o chunk) = Len(buf) + Chunk
        /\ \A j \in 1 .. Len(buf) + Chunk :
               (buf \o chunk)[j] = IF j <= Len(buf) THEN buf[j] ELSE chunk[j - Len(buf)]
    BY <2>1, <2>4, ConcatProperties
  <2>8. \A j \in 1 .. Len(buf) + Chunk : (buf \o chunk)[j] = t[j]
    <3> SUFFICES ASSUME NEW j \in 1 .. Len(buf) + Chunk PROVE (buf \o chunk)[j] = t[j]
      OBVIOUS
    <3>1. CASE j <= Len(buf)
      BY <1>1, <2>2, <2>6, <2>7, <3>1
    <3>2. CASE j > Len(buf)
      <4>1. j - Len(buf) \in 1 .. Chunk /\ (buf \o chunk)[j] = chunk[j - Len(buf)]
        BY <1>1, <1>2, <2>7, <3>2
      <4>2. chunk[j - Len(buf)] = call.offset + j - 1
        BY <1>1, <1>2, <2>2, <4>1
      <4> QED BY <2>6, <4>1, <4>2
    <3>3. j \in Int /\ Len(buf) \in Int
      BY <1>1
    <3>4. j <= Len(buf) \/ j > Len(buf)
      BY <3>3
    <3> QED BY <3>1, <3>2, <3>4
  <2>9. buf \o chunk = t
    BY <1>1, <1>2, <2>5, <2>7, <2>8, SeqEqual
  <2> QED BY <2>1, <2>9 DEF t
<1>5. buf' \in Seq(Byte) /\ Len(buf') = Len(buf) + Chunk
  <2>1. Len(buf) + Chunk \in Nat /\ call.offset + (Len(buf) + Chunk) <= FileLen
    BY <1>1, <1>2
  <2> QED BY <1>1, <1>4, <2>1, FileBytesType
<1>6. /\ call'.offset = call.offset /\ call'.len = call.len
      /\ call' \in Calls
      /\ call'.at = IF Len(buf) + Chunk = call.len THEN "done" ELSE "lookup"
  <2>1. call \in Calls
    BY DEF CacheIInv, TypeOK
  <2>2. CASE Len(buf) + Chunk = call.len
    BY <2>1, <2>2 DEF Copy, Goto, Calls, Steps
  <2>3. CASE Len(buf) + Chunk # call.len
    BY <2>1, <2>3 DEF Copy, Goto, Calls, Steps
  <2> QED BY <2>2, <2>3
<1>7. UNCHANGED cacheVars
  BY DEF Copy
<1>8. TypeOK'
  BY <1>5, <1>6, <1>7 DEF cacheVars, CacheIInv, TypeOK
<1>9. Coherent' /\ EmptySlots'
  BY <1>7 DEF cacheVars, CacheIInv, Coherent, EmptySlots
<1>10. CallInv'
  BY <1>1, <1>2, <1>4, <1>5, <1>6 DEF CallInv, ReadReturnsFile
<1> QED BY <1>8, <1>9, <1>10 DEF CacheIInv

\* Every step keeps the invariant.
LEMMA CacheStepInv == CacheIInv /\ [Next]_vars => CacheIInv'
<1>1. ASSUME CacheIInv, UNCHANGED vars PROVE CacheIInv'
  BY <1>1 DEF vars, cacheVars, CacheIInv, TypeOK, Coherent, EmptySlots, CallInv,
              ReadReturnsFile, Block, Pos
<1> QED BY <1>1, ReadInv, LookInv, EvictInv, FillInv, CopyInv DEF Next, Step

-----------------------------------------------------------------------------
(* The theorems                                                            *)

\* The strengthened invariant holds in every state of every behaviour.
THEOREM CacheInvariance == Spec => []CacheIInv
BY CacheInitInv, CacheStepInv, PTL DEF Spec

\* The cache stays well typed.
THEOREM CacheTypeCorrect == Spec => []TypeOK
<1>1. CacheIInv => TypeOK
  BY DEF CacheIInv
<1> QED BY <1>1, CacheInvariance, PTL

\* Every block found in the map is whole and current in its slot, after any
\* evictions and failed fills.
THEOREM CoherentAlways == Spec => []Coherent
<1>1. CacheIInv => Coherent
  BY DEF CacheIInv
<1> QED BY <1>1, CacheInvariance, PTL

\* Every read that succeeds delivers the bytes of the file.
THEOREM ReadReturnsFileAlways == Spec => []ReadReturnsFile
<1>1. CacheIInv => ReadReturnsFile
  BY DEF CacheIInv, CallInv
<1> QED BY <1>1, CacheInvariance, PTL

\* The cached blocks fit the budget.
THEOREM WithinBudgetAlways == Spec => []WithinBudget
<1>1. CacheIInv => WithinBudget
  <2> SUFFICES ASSUME CacheIInv PROVE WithinBudget
    OBVIOUS
  <2>1. used \in Int /\ used <= Capacity
    BY CapacityFits DEF CacheIInv, TypeOK
  <2>2. used * BlockSize <= Capacity * BlockSize
    BY <2>1, CapacityFits, MulMono, CacheAssumption
  <2> QED BY <2>1, <2>2, CapacityFits, CacheAssumption DEF WithinBudget
<1> QED BY <1>1, CacheInvariance, PTL

\* No slot is lost to a fill that failed.
THEOREM EmptySlotsReclaimedAlways == Spec => []EmptySlotsReclaimed
<1>1. CacheIInv => EmptySlotsReclaimed
  BY CapacityFits DEF CacheIInv, EmptySlots, EmptySlotsReclaimed, TypeOK, Slots
<1> QED BY <1>1, CacheInvariance, PTL
=============================================================================
