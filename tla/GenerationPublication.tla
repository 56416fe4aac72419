----------------------- MODULE GenerationPublication -----------------------
(***************************************************************************)
(* Publication of multi-file index generations (persistence/generation.rs) *)
(* over one persistence root: concurrent GenerationWriters, readers that   *)
(* pin the current generation with a shared lease, an operator that        *)
(* removes superseded generations, failing system calls, killed processes  *)
(* and power loss.                                                         *)
(*                                                                         *)
(* A GenerationWriter is consumed by the one publication it makes and its  *)
(* id is unique, so a writer and its generation are the same element of    *)
(* Gens.  A file or directory entry is modelled by its live value (what    *)
(* another process reads now) and by the set of values that a power loss   *)
(* may leave behind, which a sync of its directory reduces to the live one *)
(***************************************************************************)
EXTENDS Integers, Sequences

CONSTANTS
    Gens,         \* generations, each with the one writer that assembles it
    Readers,      \* threads that call open_current_pinned
    NoGen,        \* CURRENT does not exist
    Torn,         \* CURRENT exists with contents that were never synced
    MaxAttempts   \* open_current_pinned reads CURRENT at most so many times

ASSUME GenAssumption ==
    /\ NoGen \notin Gens
    /\ Torn \notin Gens
    /\ NoGen # Torn
    /\ MaxAttempts \in Nat \ {0}

VARIABLES
    \* the file system
    dir,          \* [Gens -> DirState]: the entry in <root>/generations
    dirDisk,      \* [Gens -> SUBSET DirState]: what a power loss may leave
    data,         \* [Gens -> DataState]: the files of the generation
    synced,       \* [Gens -> BOOLEAN]: these files survive a power loss
    tmp,          \* [Gens -> TmpState]: the writer's .CURRENT.tmp file
    current,      \* contents of <root>/CURRENT
    curDisk,      \* contents of CURRENT that a power loss may leave
    lock,         \* holder of the advisory lock on .PUBLISH.lock, or NoGen
    leases,       \* [Gens -> SUBSET Readers]: shared locks on leases/<g>.lock
    cleaning,     \* generation whose lease file cleanup holds exclusively
    \* the writers
    pc,           \* [Gens -> WriterPc]
    expected,     \* [Gens -> Gens \cup {NoGen}]: GenerationWriter.expected_current
    outcome,      \* [Gens -> Outcome]: what publish_with_outcome returned
    \* the readers
    rpc,          \* [Readers -> ReaderPc]
    rgen,         \* [Readers -> Gens \cup {NoGen}]: generation_id just read
    attempt,      \* [Readers -> 1 .. MaxAttempts]
    \* history
    lineage       \* the generations CURRENT has named, oldest first

fsVars     == <<dir, dirDisk, data, synced>>
curVars    == <<current, curDisk, lineage>>
writerVars == <<pc, expected, outcome, lock, tmp>>
readerVars == <<rpc, rgen, attempt, leases>>
vars == <<fsVars, curVars, writerVars, readerVars, cleaning>>

DirState  == {"none", "staging", "published", "removed"}
DataState == {"partial", "complete", "inventoried", "torn"}
TmpState  == {"absent", "written", "synced"}
Outcome   == {"none", "committed", "uncertain", "error"}
ReaderPc  == {"idle", "read", "stat", "lease", "reread", "leased"}

\* Where a writer stands: the step it takes next.  From "verify" to
\* "syncRoot" it is inside publish_with_outcome and holds the lock.
Uncommitted == {"verify", "inventory", "syncTree", "rename", "syncGens",
                "writeTmp", "syncTmp", "renameCurrent"}
Publishing  == Uncommitted \cup {"syncRoot"}
WriterPc    == {"new", "build", "acquire", "returned", "killed"} \cup Publishing

\* The generation CURRENT named when lineage was l.
NamedBy(l) == IF l = <<>> THEN NoGen ELSE l[Len(l)]

Init ==
    /\ dir = [g \in Gens |-> "none"]
    /\ dirDisk = [g \in Gens |-> {"none"}]
    /\ data = [g \in Gens |-> "partial"]
    /\ synced = [g \in Gens |-> FALSE]
    /\ tmp = [g \in Gens |-> "absent"]
    /\ current = NoGen
    /\ curDisk = {NoGen}
    /\ lock = NoGen
    /\ leases = [g \in Gens |-> {}]
    /\ cleaning = NoGen
    /\ pc = [g \in Gens |-> "new"]
    /\ expected = [g \in Gens |-> NoGen]
    /\ outcome = [g \in Gens |-> "none"]
    /\ rpc = [r \in Readers |-> "idle"]
    /\ rgen = [r \in Readers |-> NoGen]
    /\ attempt = [r \in Readers |-> 1]
    /\ lineage = <<>>

-----------------------------------------------------------------------------
(* GenerationWriter: assembling a generation                               *)

\* create: remember CURRENT and make the hidden staging directory.
Create(g) ==
    /\ pc[g] = "new"
    /\ current # Torn
    /\ expected' = [expected EXCEPT ![g] = current]
    /\ dir' = [dir EXCEPT ![g] = "staging"]
    /\ dirDisk' = [dirDisk EXCEPT ![g] = @ \cup {"staging"}]
    /\ pc' = [pc EXCEPT ![g] = "build"]
    /\ UNCHANGED <<data, synced, tmp, outcome, lock, curVars, readerVars, cleaning>>

\* The caller writes its component files through path(), then publishes.
WriteComponents(g) ==
    /\ pc[g] = "build"
    /\ data' = [data EXCEPT ![g] = "complete"]
    /\ pc' = [pc EXCEPT ![g] = "acquire"]
    /\ UNCHANGED <<dir, dirDisk, synced, expected, outcome, lock, tmp,
                   curVars, readerVars, cleaning>>

-----------------------------------------------------------------------------
(* publish_with_outcome: one action per system call that matters           *)

Goto(g, next) == pc' = [pc EXCEPT ![g] = next]

\* Mutant: an error return that forgets the lock.
ReturnHoldingLock(g, result) ==
    /\ Goto(g, "returned")
    /\ outcome' = [outcome EXCEPT ![g] = result]
    /\ UNCHANGED lock

\* Leaving publish_with_outcome drops the PublicationLock guard.
Return(g, result) ==
    /\ Goto(g, "returned")
    /\ outcome' = [outcome EXCEPT ![g] = result]
    /\ lock' = IF lock = g THEN NoGen ELSE lock

\* try_lock never waits: a held lock fails the publication.
AcquireLock(g) ==
    /\ pc[g] = "acquire"
    /\ \/ /\ lock = NoGen
          /\ lock' = g
          /\ Goto(g, "verify")
          /\ UNCHANGED outcome
       \/ /\ lock # NoGen
          /\ Return(g, "error")
    /\ UNCHANGED <<expected, tmp, fsVars, curVars, readerVars, cleaning>>

\* Mutant: the lock alone decides.
PublishUnverified(g) ==
    /\ pc[g] = "verify"
    /\ Goto(g, "inventory")
    /\ UNCHANGED <<outcome, lock>>
    /\ UNCHANGED <<expected, tmp, fsVars, curVars, readerVars, cleaning>>

VerifyExpectedCurrent(g) ==
    /\ pc[g] = "verify"
    /\ \/ /\ current = expected[g]
          /\ Goto(g, "inventory")
          /\ UNCHANGED <<outcome, lock>>
       \/ /\ current # expected[g]
          /\ Return(g, "error")
    /\ UNCHANGED <<expected, tmp, fsVars, curVars, readerVars, cleaning>>

WriteInventory(g) ==
    /\ pc[g] = "inventory"
    /\ data' = [data EXCEPT ![g] = "inventoried"]
    /\ Goto(g, "syncTree")
    /\ UNCHANGED <<dir, dirDisk, synced, expected, outcome, lock, tmp,
                   curVars, readerVars, cleaning>>

\* Mutant: the staged files are left in the page cache.
SkipSyncTree(g) ==
    /\ pc[g] = "syncTree"
    /\ Goto(g, "rename")
    /\ UNCHANGED <<expected, outcome, lock, tmp, fsVars, curVars, readerVars, cleaning>>

SyncTree(g) ==
    /\ pc[g] = "syncTree"
    /\ synced' = [synced EXCEPT ![g] = TRUE]
    /\ Goto(g, "rename")
    /\ UNCHANGED <<dir, dirDisk, data, expected, outcome, lock, tmp,
                   curVars, readerVars, cleaning>>

RenameGeneration(g) ==
    /\ pc[g] = "rename"
    /\ dir' = [dir EXCEPT ![g] = "published"]
    /\ dirDisk' = [dirDisk EXCEPT ![g] = @ \cup {"published"}]
    /\ Goto(g, "syncGens")
    /\ UNCHANGED <<data, synced, expected, outcome, lock, tmp,
                   curVars, readerVars, cleaning>>

\* sync_directory(generations_dir) makes every entry of it durable.
SyncGenerations(g) ==
    /\ pc[g] = "syncGens"
    /\ dirDisk' = [h \in Gens |-> {dir[h]}]
    /\ Goto(g, "writeTmp")
    /\ UNCHANGED <<dir, data, synced, expected, outcome, lock, tmp,
                   curVars, readerVars, cleaning>>

WriteCurrentTmp(g) ==
    /\ pc[g] = "writeTmp"
    /\ tmp' = [tmp EXCEPT ![g] = "written"]
    /\ Goto(g, "syncTmp")
    /\ UNCHANGED <<expected, outcome, lock, fsVars, curVars, readerVars, cleaning>>

SyncCurrentTmp(g) ==
    /\ pc[g] = "syncTmp"
    /\ tmp' = [tmp EXCEPT ![g] = "synced"]
    /\ Goto(g, "renameCurrent")
    /\ UNCHANGED <<expected, outcome, lock, fsVars, curVars, readerVars, cleaning>>

\* The commit point.  A temporary file that was not synced may leave a torn
\* CURRENT behind once the rename is on disk.
RenameCurrent(g) ==
    /\ pc[g] = "renameCurrent"
    /\ current' = g
    /\ curDisk' = curDisk \cup {IF tmp[g] = "synced" THEN g ELSE Torn}
    /\ lineage' = Append(lineage, g)
    /\ tmp' = [tmp EXCEPT ![g] = "absent"]
    /\ Goto(g, "syncRoot")
    /\ UNCHANGED <<expected, outcome, lock, fsVars, readerVars, cleaning>>

\* Mutant: a failed root sync is reported as an ordinary error.
SyncRootError(g) ==
    /\ pc[g] = "syncRoot"
    /\ \/ /\ curDisk' = {current}
          /\ Return(g, "committed")
       \/ /\ Return(g, "error")
          /\ UNCHANGED curDisk
    /\ UNCHANGED <<expected, tmp, current, lineage, fsVars, readerVars, cleaning>>

\* Mutant: a failed root sync is ignored.
SyncRootIgnored(g) ==
    /\ pc[g] = "syncRoot"
    /\ Return(g, "committed")
    /\ curDisk' \in {curDisk, {current}}
    /\ UNCHANGED <<expected, tmp, current, lineage, fsVars, readerVars, cleaning>>

\* The final barrier: its failure is AfterCommit, reported as uncertain.
SyncRoot(g) ==
    /\ pc[g] = "syncRoot"
    /\ \/ /\ curDisk' = {current}
          /\ Return(g, "committed")
       \/ /\ Return(g, "uncertain")
          /\ UNCHANGED curDisk
    /\ UNCHANGED <<expected, tmp, current, lineage, fsVars, readerVars, cleaning>>

\* Any system call before the commit point may fail.  Only a failed rename of
\* the temporary file removes it; a failed write or sync returns before that.
PublishFails(g) ==
    /\ pc[g] \in Uncommitted
    /\ tmp' = [tmp EXCEPT ![g] = IF pc[g] = "renameCurrent" THEN "absent" ELSE @]
    /\ Return(g, "error")
    /\ UNCHANGED <<expected, fsVars, curVars, readerVars, cleaning>>

\* The writer's process dies, or its caller drops the writer while building;
\* the kernel releases the advisory lock with the file handle.
Kill(g) ==
    /\ pc[g] \in Publishing \cup {"build", "acquire"}
    /\ Goto(g, "killed")
    /\ lock' = IF lock = g THEN NoGen ELSE lock
    /\ UNCHANGED <<expected, outcome, tmp, fsVars, curVars, readerVars, cleaning>>

-----------------------------------------------------------------------------
(* open_current_pinned                                                     *)

StartOpen(r) ==
    /\ rpc[r] = "idle"
    /\ rpc' = [rpc EXCEPT ![r] = "read"]
    /\ attempt' = [attempt EXCEPT ![r] = 1]
    /\ UNCHANGED <<rgen, leases, fsVars, curVars, writerVars, cleaning>>

\* A missing or unreadable CURRENT is an error.
ReadCurrent(r) ==
    /\ rpc[r] = "read"
    /\ IF current \in Gens
       THEN /\ rgen' = [rgen EXCEPT ![r] = current]
            /\ rpc' = [rpc EXCEPT ![r] = "stat"]
       ELSE /\ rpc' = [rpc EXCEPT ![r] = "idle"]
            /\ UNCHANGED rgen
    /\ UNCHANGED <<attempt, leases, fsVars, curVars, writerVars, cleaning>>

StatGeneration(r) ==
    /\ rpc[r] = "stat"
    /\ rpc' = [rpc EXCEPT ![r] =
                  IF dir[rgen[r]] = "published" THEN "lease" ELSE "idle"]
    /\ UNCHANGED <<rgen, attempt, leases, fsVars, curVars, writerVars, cleaning>>

\* Mutant: the reader waits for cleanup.
LockSharedBlocking(r) ==
    /\ rpc[r] = "lease"
    /\ cleaning # rgen[r]
    /\ rpc' = [rpc EXCEPT ![r] = "reread"]
    /\ leases' = [leases EXCEPT ![rgen[r]] = @ \cup {r}]
    /\ UNCHANGED <<rgen, attempt, fsVars, curVars, writerVars, cleaning>>

\* try_lock_shared fails, and the open with it, while cleanup owns the lease.
LockShared(r) ==
    /\ rpc[r] = "lease"
    /\ IF cleaning = rgen[r]
       THEN /\ rpc' = [rpc EXCEPT ![r] = "idle"]
            /\ UNCHANGED leases
       ELSE /\ rpc' = [rpc EXCEPT ![r] = "reread"]
            /\ leases' = [leases EXCEPT ![rgen[r]] = @ \cup {r}]
    /\ UNCHANGED <<rgen, attempt, fsVars, curVars, writerVars, cleaning>>

\* Mutant: the pointer is not read again.
TrustFirstRead(r) ==
    /\ rpc[r] = "reread"
    /\ rpc' = [rpc EXCEPT ![r] = "leased"]
    /\ UNCHANGED <<attempt, leases, rgen, fsVars, curVars, writerVars, cleaning>>

\* The pointer is read again under the lease: a change unlocks and retries.
RereadCurrent(r) ==
    /\ rpc[r] = "reread"
    /\ IF current = rgen[r]
       THEN /\ rpc' = [rpc EXCEPT ![r] = "leased"]
            /\ UNCHANGED <<attempt, leases>>
       ELSE /\ leases' = [leases EXCEPT ![rgen[r]] = @ \ {r}]
            /\ IF attempt[r] < MaxAttempts
               THEN /\ rpc' = [rpc EXCEPT ![r] = "read"]
                    /\ attempt' = [attempt EXCEPT ![r] = @ + 1]
               ELSE /\ rpc' = [rpc EXCEPT ![r] = "idle"]
                    /\ UNCHANGED attempt
    /\ UNCHANGED <<rgen, fsVars, curVars, writerVars, cleaning>>

\* Dropping the GenerationLease.
DropLease(r) ==
    /\ rpc[r] = "leased"
    /\ rpc' = [rpc EXCEPT ![r] = "idle"]
    /\ leases' = [leases EXCEPT ![rgen[r]] = @ \ {r}]
    /\ UNCHANGED <<rgen, attempt, fsVars, curVars, writerVars, cleaning>>

-----------------------------------------------------------------------------
(* Operator-owned cleanup, as docs/generation-publication.md asks of it:   *)
(* only a generation that was superseded durably, under its exclusive      *)
(* lease.  The code has none; this is the party the leases are held against*)

CleanupLock(g) ==
    /\ cleaning = NoGen
    /\ dir[g] = "published"
    /\ \E i \in 1 .. Len(lineage) : lineage[i] = g
    /\ g # current
    /\ curDisk = {current}
    /\ leases[g] = {}
    /\ cleaning' = g
    /\ UNCHANGED <<fsVars, curVars, writerVars, readerVars>>

CleanupRemove(g) ==
    /\ cleaning = g
    /\ dir' = [dir EXCEPT ![g] = "removed"]
    /\ dirDisk' = [dirDisk EXCEPT ![g] = @ \cup {"removed"}]
    /\ data' = [data EXCEPT ![g] = "torn"]
    /\ cleaning' = NoGen
    /\ UNCHANGED <<synced, curVars, writerVars, readerVars>>

-----------------------------------------------------------------------------
\* Every process stops; each directory entry shows one of the values its disk
\* set allows and files that were not synced may be torn.
PowerLoss ==
    /\ current' \in curDisk
    /\ curDisk' = {current'}
    /\ \E n \in 0 .. Len(lineage) :
          /\ lineage' = SubSeq(lineage, 1, n)
          /\ current' # Torn => NamedBy(lineage') = current'
    /\ dir' \in [Gens -> DirState]
    /\ \A g \in Gens : dir'[g] \in dirDisk[g]
    /\ dirDisk' = [g \in Gens |-> {dir'[g]}]
    /\ data' \in [Gens -> DataState]
    /\ \A g \in Gens : data'[g] = data[g] \/ (~synced[g] /\ data'[g] = "torn")
    /\ synced' = [g \in Gens |-> TRUE]
    /\ tmp' = [g \in Gens |-> "absent"]
    /\ lock' = NoGen
    /\ cleaning' = NoGen
    /\ leases' = [g \in Gens |-> {}]
    /\ pc' = [g \in Gens |-> IF pc[g] \in {"new", "returned"} THEN pc[g] ELSE "killed"]
    /\ rpc' = [r \in Readers |-> "idle"]
    /\ UNCHANGED <<expected, outcome, rgen, attempt>>

WriterStep(g) ==
    \/ AcquireLock(g) \/ VerifyExpectedCurrent(g) \/ WriteInventory(g)
    \/ SyncTree(g) \/ RenameGeneration(g) \/ SyncGenerations(g)
    \/ WriteCurrentTmp(g) \/ SyncCurrentTmp(g) \/ RenameCurrent(g)
    \/ SyncRoot(g) \/ PublishFails(g)

ReaderStep(r) ==
    \/ ReadCurrent(r) \/ StatGeneration(r) \/ LockShared(r) \/ RereadCurrent(r)

Next ==
    \/ \E g \in Gens :
          \/ Create(g) \/ WriteComponents(g) \/ WriterStep(g) \/ Kill(g)
          \/ CleanupLock(g) \/ CleanupRemove(g)
    \/ \E r \in Readers : StartOpen(r) \/ ReaderStep(r) \/ DropLease(r)
    \/ PowerLoss

Spec == Init /\ [][Next]_vars

\* Every system call returns: a call that has started runs to its end.
Fairness ==
    /\ \A g \in Gens : WF_vars(WriterStep(g))
    /\ \A r \in Readers : WF_vars(ReaderStep(r))

FairSpec == Spec /\ Fairness
=============================================================================
