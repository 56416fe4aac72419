-------------------------- MODULE GenerationProofs --------------------------
(***************************************************************************)
(* Proofs about GenerationPublication, for any number of writers and       *)
(* readers: types, CurrentVerifies and LeaseProtects; the history of       *)
(* CURRENT (NoLostUpdate, CommittedSurvives, ErrorLeavesCurrent); and that *)
(* the protocol implements PublicationLog.                                 *)
(***************************************************************************)
EXTENDS GenerationProperties, TLAPS, FiniteSetTheorems, WellFoundedInduction

-----------------------------------------------------------------------------
(* The inductive invariant                                                 *)

\* A writer whose generation has been named by CURRENT is past the commit point.
Installed == {"syncRoot", "returned", "killed"}

\* The publication lock is held by exactly the writer inside the protocol.
LockInv == \A g \in Gens : pc[g] \in Publishing <=> lock = g

\* What a writer has achieved by the time it reaches each step.
WriterInv ==
    \A g \in Gens :
        /\ pc[g] \in Uncommitted \ {"verify", "inventory"} => data[g] = "inventoried"
        /\ pc[g] \in Uncommitted \ {"verify", "inventory", "syncTree"} => synced[g]
        /\ pc[g] \in {"syncGens", "writeTmp", "syncTmp", "renameCurrent"} =>
               dir[g] = "published"
        /\ pc[g] \in {"writeTmp", "syncTmp", "renameCurrent"} =>
               dirDisk[g] = {"published"}
        /\ pc[g] = "renameCurrent" => tmp[g] = "synced"

\* A generation that no power loss can damage and no writer touches any more.
Secure(g) ==
    /\ Verifies(g)
    /\ dirDisk[g] = {"published"}
    /\ synced[g]
    /\ pc[g] \in Installed

\* Whatever CURRENT names now or after a power loss is secure.
PointerInv ==
    /\ current \in curDisk
    /\ \A v \in curDisk : v # NoGen => v \in Gens /\ Secure(v)
    /\ \A i \in 1 .. Len(lineage) : pc[lineage[i]] \in Installed

\* Cleanup owns a superseded generation that nobody leases.
CleanInv ==
    cleaning # NoGen =>
        /\ cleaning \notin curDisk
        /\ pc[cleaning] \in Installed
        /\ leases[cleaning] = {}

\* A reader past its first read knows a generation; past try_lock_shared it
\* is among the holders of its lease; once it is given the lease, the
\* generation verifies.
LeaseInv ==
    \A r \in Readers :
        /\ rpc[r] \in {"stat", "lease", "reread", "leased"} => rgen[r] \in Gens
        /\ rpc[r] \in {"reread", "leased"} => r \in leases[rgen[r]]
        /\ rpc[r] = "leased" => Verifies(rgen[r]) /\ pc[rgen[r]] \in Installed

IInv ==
    /\ TypeOK
    /\ LockInv
    /\ WriterInv
    /\ PointerInv
    /\ CleanInv
    /\ LeaseInv

-----------------------------------------------------------------------------
(* Types                                                                   *)

\* The initial state is well typed.
LEMMA TypeInit == Init => TypeOK
BY GenAssumption DEF Init, TypeOK, DirState, DataState, TmpState, Outcome, ReaderPc,
   WriterPc, Publishing, Uncommitted

\* Taking and giving up a shared lock keep leases well typed.
LEMMA LeaseType ==
    ASSUME TypeOK, NEW r \in Readers, NEW g
    PROVE  /\ [leases EXCEPT ![g] = @ \cup {r}] \in [Gens -> SUBSET Readers]
           /\ [leases EXCEPT ![g] = @ \ {r}] \in [Gens -> SUBSET Readers]
BY DEF TypeOK

\* Every call, failure, kill and power loss keeps the types.
LEMMA TypeStep == TypeOK /\ [Next]_vars => TypeOK'
<1> SUFFICES ASSUME TypeOK, [Next]_vars PROVE TypeOK'
  OBVIOUS
<1> USE GenAssumption DEF TypeOK, fsVars, curVars, writerVars, readerVars
<1>1. ASSUME NEW g \in Gens, Create(g) PROVE TypeOK'
  BY <1>1 DEF Create, Goto, WriterPc, Publishing, Uncommitted, DirState
<1>2. ASSUME NEW g \in Gens, WriteComponents(g) PROVE TypeOK'
  BY <1>2 DEF WriteComponents, WriterPc, Publishing, Uncommitted, DataState
<1>3. ASSUME NEW g \in Gens, AcquireLock(g) PROVE TypeOK'
  BY <1>3 DEF AcquireLock, Goto, WriterPc, Publishing, Uncommitted, Return, Outcome
<1>4. ASSUME NEW g \in Gens, VerifyExpectedCurrent(g) PROVE TypeOK'
  BY <1>4 DEF VerifyExpectedCurrent, Goto, WriterPc, Publishing, Uncommitted, Return, Outcome
<1>5. ASSUME NEW g \in Gens, WriteInventory(g) PROVE TypeOK'
  BY <1>5 DEF WriteInventory, Goto, WriterPc, Publishing, Uncommitted, DataState
<1>6. ASSUME NEW g \in Gens, SyncTree(g) PROVE TypeOK'
  BY <1>6 DEF SyncTree, Goto, WriterPc, Publishing, Uncommitted
<1>7. ASSUME NEW g \in Gens, RenameGeneration(g) PROVE TypeOK'
  BY <1>7 DEF RenameGeneration, Goto, WriterPc, Publishing, Uncommitted, DirState
<1>8. ASSUME NEW g \in Gens, SyncGenerations(g) PROVE TypeOK'
  BY <1>8 DEF SyncGenerations, Goto, WriterPc, Publishing, Uncommitted
<1>9. ASSUME NEW g \in Gens, WriteCurrentTmp(g) PROVE TypeOK'
  BY <1>9 DEF WriteCurrentTmp, Goto, WriterPc, Publishing, Uncommitted, TmpState
<1>10. ASSUME NEW g \in Gens, SyncCurrentTmp(g) PROVE TypeOK'
  BY <1>10 DEF SyncCurrentTmp, Goto, WriterPc, Publishing, Uncommitted, TmpState
<1>11. ASSUME NEW g \in Gens, RenameCurrent(g) PROVE TypeOK'
  BY <1>11 DEF RenameCurrent, Goto, WriterPc, Publishing, Uncommitted, TmpState
<1>12. ASSUME NEW g \in Gens, SyncRoot(g) PROVE TypeOK'
  BY <1>12 DEF SyncRoot, Goto, WriterPc, Publishing, Uncommitted, Return, Outcome
<1>13. ASSUME NEW g \in Gens, PublishFails(g) PROVE TypeOK'
  BY <1>13 DEF PublishFails, Goto, WriterPc, Publishing, Uncommitted, Return, Outcome, TmpState
<1>14. ASSUME NEW g \in Gens, Kill(g) PROVE TypeOK'
  BY <1>14 DEF Kill, Goto, WriterPc, Publishing, Uncommitted
<1>15. ASSUME NEW g \in Gens, CleanupLock(g) PROVE TypeOK'
  BY <1>15 DEF CleanupLock
<1>16. ASSUME NEW g \in Gens, CleanupRemove(g) PROVE TypeOK'
  BY <1>16 DEF CleanupRemove, DirState, DataState
<1>17. ASSUME NEW r \in Readers, StartOpen(r) PROVE TypeOK'
  BY <1>17 DEF StartOpen, ReaderPc
<1>18. ASSUME NEW r \in Readers, ReadCurrent(r) PROVE TypeOK'
  <2>1. rgen' \in [Readers -> Gens \cup {NoGen}]
    BY <1>18 DEF ReadCurrent
  <2>2. rpc' \in [Readers -> ReaderPc]
    BY <1>18 DEF ReadCurrent, ReaderPc
  <2> QED BY <1>18, <2>1, <2>2 DEF ReadCurrent
<1>19. ASSUME NEW r \in Readers, StatGeneration(r) PROVE TypeOK'
  BY <1>19 DEF StatGeneration, ReaderPc
<1>20. ASSUME NEW r \in Readers, LockShared(r) PROVE TypeOK'
  <2>1. CASE cleaning = rgen[r]
    BY <1>20, <2>1 DEF LockShared, ReaderPc
  <2>2. CASE cleaning # rgen[r]
    <3>1. leases' \in [Gens -> SUBSET Readers]
      BY <1>20, <2>2, LeaseType DEF LockShared
    <3> QED BY <1>20, <2>2, <3>1 DEF LockShared, ReaderPc
  <2> QED BY <2>1, <2>2
<1>21. ASSUME NEW r \in Readers, RereadCurrent(r) PROVE TypeOK'
  <2>1. leases' \in [Gens -> SUBSET Readers]
    BY <1>21, LeaseType DEF RereadCurrent
  <2>2. attempt' \in [Readers -> 1 .. MaxAttempts]
    <3>1. CASE current # rgen[r] /\ attempt[r] < MaxAttempts
      BY <1>21, <3>1 DEF RereadCurrent
    <3>2. CASE ~(current # rgen[r] /\ attempt[r] < MaxAttempts)
      BY <1>21, <3>2 DEF RereadCurrent
    <3> QED BY <3>1, <3>2
  <2>3. rpc' \in [Readers -> ReaderPc]
    BY <1>21 DEF RereadCurrent, ReaderPc
  <2> QED BY <1>21, <2>1, <2>2, <2>3 DEF RereadCurrent
<1>22. ASSUME NEW r \in Readers, DropLease(r) PROVE TypeOK'
  BY <1>22 DEF DropLease, ReaderPc
<1>23. CASE PowerLoss
  BY <1>23 DEF PowerLoss, WriterPc, Publishing, Uncommitted, TmpState, ReaderPc
<1>24. CASE UNCHANGED vars
  BY <1>24 DEF vars
<1> QED
  BY <1>1, <1>2, <1>3, <1>4, <1>5, <1>6, <1>7, <1>8, <1>9, <1>10, <1>11, <1>12, <1>13, <1>14, <1>15, <1>16, <1>17, <1>18, <1>19, <1>20, <1>21, <1>22, <1>23, <1>24 DEF Next, WriterStep, ReaderStep

\* The state of the publication protocol stays well typed.
THEOREM TypeCorrect == Spec => []TypeOK
BY TypeInit, TypeStep, PTL DEF Spec

-----------------------------------------------------------------------------
(* The publication lock                                                    *)

\* The lock file is locked by the publisher inside the protocol and no other.
LEMMA LockStep == TypeOK /\ LockInv /\ [Next]_vars => LockInv'
<1> SUFFICES ASSUME TypeOK, LockInv, [Next]_vars PROVE LockInv'
  OBVIOUS
<1> USE GenAssumption DEF TypeOK, LockInv, Publishing, Uncommitted, Goto
<1>1. ASSUME NEW g \in Gens, Create(g) \/ WriteComponents(g) PROVE LockInv'
  BY <1>1 DEF Create, WriteComponents
<1>2. ASSUME NEW g \in Gens, AcquireLock(g) PROVE LockInv'
  BY <1>2 DEF AcquireLock, Return
<1>3. ASSUME NEW g \in Gens, VerifyExpectedCurrent(g) PROVE LockInv'
  BY <1>3 DEF VerifyExpectedCurrent, Return
<1>4. ASSUME NEW g \in Gens,
             \/ WriteInventory(g) \/ SyncTree(g) \/ RenameGeneration(g)
             \/ SyncGenerations(g) \/ WriteCurrentTmp(g) \/ SyncCurrentTmp(g)
             \/ RenameCurrent(g)
      PROVE LockInv'
  BY <1>4 DEF WriteInventory, SyncTree, RenameGeneration, SyncGenerations,
              WriteCurrentTmp, SyncCurrentTmp, RenameCurrent
<1>5. ASSUME NEW g \in Gens, SyncRoot(g) \/ PublishFails(g) PROVE LockInv'
  <2>1. pc[g] \in Publishing /\ Return(g, outcome'[g])
    BY <1>5 DEF SyncRoot, PublishFails, Return
  <2> QED BY <2>1 DEF Return
<1>6. ASSUME NEW g \in Gens, Kill(g) PROVE LockInv'
  BY <1>6 DEF Kill
<1>7. CASE PowerLoss
  BY <1>7 DEF PowerLoss
<1>8. ASSUME UNCHANGED <<pc, lock>> PROVE LockInv'
  BY <1>8
<1> QED
  BY <1>1, <1>2, <1>3, <1>4, <1>5, <1>6, <1>7, <1>8
  DEF Next, WriterStep, ReaderStep, StartOpen, ReadCurrent, StatGeneration,
      LockShared, RereadCurrent, DropLease, CleanupLock, CleanupRemove,
      writerVars, vars

-----------------------------------------------------------------------------
(* What a writer has achieved                                              *)

\* A writer reaches a step only with what the earlier steps made durable.
LEMMA WriterStepInv ==
    TypeOK /\ LockInv /\ WriterInv /\ CleanInv /\ [Next]_vars => WriterInv'
<1> SUFFICES ASSUME TypeOK, LockInv, WriterInv, CleanInv, [Next]_vars
             PROVE  WriterInv'
  OBVIOUS
<1> USE GenAssumption
    DEF TypeOK, WriterInv, Uncommitted, Goto, fsVars, writerVars
<1>1. ASSUME NEW g \in Gens, Create(g) \/ WriteComponents(g) PROVE WriterInv'
  BY <1>1 DEF Create, WriteComponents
<1>2. ASSUME NEW g \in Gens, AcquireLock(g) \/ VerifyExpectedCurrent(g)
      PROVE  WriterInv'
  BY <1>2 DEF AcquireLock, VerifyExpectedCurrent, Return
<1>3. ASSUME NEW g \in Gens, WriteInventory(g) \/ SyncTree(g) \/ RenameGeneration(g)
      PROVE  WriterInv'
  BY <1>3 DEF WriteInventory, SyncTree, RenameGeneration
<1>4. ASSUME NEW g \in Gens, SyncGenerations(g) PROVE WriterInv'
  BY <1>4 DEF SyncGenerations, LockInv, Publishing
<1>5. ASSUME NEW g \in Gens,
             WriteCurrentTmp(g) \/ SyncCurrentTmp(g) \/ RenameCurrent(g)
      PROVE  WriterInv'
  BY <1>5 DEF WriteCurrentTmp, SyncCurrentTmp, RenameCurrent
<1>6. ASSUME NEW g \in Gens, SyncRoot(g) PROVE WriterInv'
  BY <1>6 DEF SyncRoot, Return
<1>7. ASSUME NEW g \in Gens, PublishFails(g) \/ Kill(g) PROVE WriterInv'
  BY <1>7 DEF PublishFails, Kill, Return
<1>8. ASSUME NEW g \in Gens, CleanupRemove(g) PROVE WriterInv'
  BY <1>8 DEF CleanupRemove, CleanInv, Installed
<1>9. CASE PowerLoss
  BY <1>9 DEF PowerLoss, WriterPc, Publishing
<1>10. ASSUME UNCHANGED <<fsVars, writerVars>> PROVE WriterInv'
  BY <1>10
<1> QED
  BY <1>1, <1>2, <1>3, <1>4, <1>5, <1>6, <1>7, <1>8, <1>9, <1>10
  DEF Next, WriterStep, ReaderStep, StartOpen, ReadCurrent, StatGeneration,
      LockShared, RereadCurrent, DropLease, CleanupLock, vars

-----------------------------------------------------------------------------
(* The pointer names only secure generations                               *)

\* A step that leaves every installed generation alone, and gives CURRENT no
\* new value, keeps the pointer secure.
LEMMA PointerFrame ==
    ASSUME TypeOK, PointerInv, lineage' = lineage,
           curDisk' \subseteq curDisk, current' \in curDisk',
           \A h \in Gens : pc[h] \in Installed =>
               /\ dir'[h] = dir[h] /\ dirDisk'[h] = dirDisk[h]
               /\ data'[h] = data[h] /\ synced'[h] = synced[h]
               /\ pc'[h] \in Installed
    PROVE  PointerInv'
<1>1. \A i \in 1 .. Len(lineage) : lineage[i] \in Gens
  BY DEF TypeOK
<1>2. \A i \in 1 .. Len(lineage') : pc'[lineage'[i]] \in Installed
  BY <1>1 DEF PointerInv
<1>3. \A v \in curDisk' : v # NoGen => v \in Gens /\ Secure(v)'
  BY DEF PointerInv, Secure, Verifies
<1> QED BY <1>2, <1>3 DEF PointerInv

\* CURRENT, in memory or on disk, names secure generations only.
LEMMA PointerStep ==
    /\ TypeOK /\ LockInv /\ WriterInv /\ PointerInv /\ CleanInv
    /\ [Next]_vars
    => PointerInv'
<1> SUFFICES ASSUME TypeOK, LockInv, WriterInv, PointerInv, CleanInv, [Next]_vars
             PROVE  PointerInv'
  OBVIOUS
<1>1. ASSUME NEW g \in Gens, pc[g] \notin Installed,
             UNCHANGED curVars,
             \A h \in Gens \ {g} :
                 /\ dir'[h] = dir[h] /\ dirDisk'[h] = dirDisk[h]
                 /\ data'[h] = data[h] /\ synced'[h] = synced[h]
                 /\ pc'[h] = pc[h]
      PROVE  PointerInv'
  <2>1. \A h \in Gens : pc[h] \in Installed => h # g
    BY <1>1
  <2>2. current' \in curDisk' /\ curDisk' \subseteq curDisk /\ lineage' = lineage
    BY <1>1 DEF PointerInv, curVars
  <2> QED BY <1>1, <2>1, <2>2, PointerFrame
<1>2. ASSUME NEW g \in Gens,
             \/ Create(g) \/ WriteComponents(g) \/ AcquireLock(g)
             \/ VerifyExpectedCurrent(g)
      PROVE  PointerInv'
  BY <1>1, <1>2 DEF Create, WriteComponents, AcquireLock, VerifyExpectedCurrent,
     Return, TypeOK, Installed, Goto, fsVars
<1>3. ASSUME NEW g \in Gens,
             \/ WriteInventory(g) \/ SyncTree(g) \/ RenameGeneration(g)
             \/ WriteCurrentTmp(g) \/ SyncCurrentTmp(g)
      PROVE  PointerInv'
  BY <1>1, <1>3 DEF WriteInventory, SyncTree, RenameGeneration, WriteCurrentTmp,
     SyncCurrentTmp, TypeOK, Installed, Goto, fsVars
<1>4. ASSUME NEW g \in Gens, SyncGenerations(g) PROVE PointerInv'
  BY <1>4 DEF SyncGenerations, TypeOK, PointerInv, Secure, Verifies, Installed,
     Goto, curVars
<1>5. ASSUME NEW g \in Gens, RenameCurrent(g) PROVE PointerInv'
  <2>1. /\ curDisk' = curDisk \cup {g} /\ current' = g /\ UNCHANGED fsVars
        /\ pc' = [pc EXCEPT ![g] = "syncRoot"]
    BY <1>5 DEF RenameCurrent, WriterInv, Uncommitted, Goto
  <2>2. Verifies(g) /\ dirDisk[g] = {"published"} /\ synced[g]
    BY <1>5 DEF RenameCurrent, WriterInv, Uncommitted, Verifies
  <2>3. Secure(g)'
    BY <2>1, <2>2 DEF Secure, Verifies, fsVars, Installed, TypeOK
  <2>4. \A h \in Gens : Secure(h) => Secure(h)'
    BY <2>1 DEF Secure, Verifies, fsVars, Installed, TypeOK
  <2>5. lineage' = Append(lineage, g) /\ lineage \in Seq(Gens)
    BY <1>5 DEF RenameCurrent, TypeOK
  <2>6. ASSUME NEW i \in 1 .. Len(lineage') PROVE pc'[lineage'[i]] \in Installed
    <3>1. CASE i \in 1 .. Len(lineage)
      <4>1. lineage'[i] = lineage[i] /\ lineage[i] \in Gens
        BY <2>5, <3>1
      <4> QED BY <2>1, <3>1, <4>1 DEF TypeOK, PointerInv, Installed
    <3>2. CASE i \notin 1 .. Len(lineage)
      <4>1. lineage'[i] = g
        BY <2>5, <3>2
      <4> QED BY <2>1, <4>1 DEF TypeOK, Installed
    <3> QED BY <3>1, <3>2
  <2> QED BY <2>1, <2>3, <2>4, <2>6 DEF PointerInv
<1>6. ASSUME NEW g \in Gens, SyncRoot(g) PROVE PointerInv'
  <2>1. /\ curDisk' = {current} \/ curDisk' = curDisk
        /\ pc[g] = "syncRoot" /\ pc' = [pc EXCEPT ![g] = "returned"]
        /\ UNCHANGED <<current, lineage, fsVars>>
    BY <1>6 DEF SyncRoot, Return, Goto
  <2>2. \A h \in Gens : pc[h] \in Installed => pc'[h] \in Installed
    BY <2>1 DEF TypeOK, Installed
  <2> QED BY <2>1, <2>2, PointerFrame DEF PointerInv, fsVars
<1>7. ASSUME NEW g \in Gens, PublishFails(g) \/ Kill(g) PROVE PointerInv'
  <2>1. /\ \E s \in {"returned", "killed"} : pc' = [pc EXCEPT ![g] = s]
        /\ UNCHANGED <<current, curDisk, lineage, fsVars>>
    BY <1>7 DEF PublishFails, Kill, Return, Goto, curVars
  <2>2. \A h \in Gens : pc[h] \in Installed => pc'[h] \in Installed
    BY <2>1 DEF TypeOK, Installed
  <2> QED BY <2>1, <2>2, PointerFrame DEF PointerInv, fsVars
<1>8. ASSUME NEW g \in Gens, CleanupRemove(g) PROVE PointerInv'
  BY <1>8 DEF CleanupRemove, CleanInv, TypeOK, PointerInv, Secure, Verifies,
     curVars, writerVars
<1>9. CASE PowerLoss
  <2>1. \A v \in curDisk' : v # NoGen => v \in Gens /\ Secure(v)'
    BY <1>9 DEF PowerLoss, TypeOK, PointerInv, Secure, Verifies, Installed
  <2>2. PICK n \in 0 .. Len(lineage) : lineage' = SubSeq(lineage, 1, n)
    BY <1>9 DEF PowerLoss
  <2>3. \A i \in 1 .. Len(lineage') : i \in 1 .. Len(lineage) /\ lineage'[i] = lineage[i]
    BY <2>2 DEF TypeOK
  <2>4. \A i \in 1 .. Len(lineage) : lineage[i] \in Gens
    BY DEF TypeOK
  <2>5. \A i \in 1 .. Len(lineage') : pc'[lineage'[i]] \in Installed
    BY <1>9, <2>3, <2>4 DEF PowerLoss, TypeOK, PointerInv, Installed
  <2> QED BY <1>9, <2>1, <2>5 DEF PowerLoss, PointerInv
<1>10. ASSUME UNCHANGED <<fsVars, curVars, writerVars>> PROVE PointerInv'
  BY <1>10, PointerFrame DEF PointerInv, fsVars, curVars, writerVars
<1> QED
  BY <1>1, <1>2, <1>3, <1>4, <1>5, <1>6, <1>7, <1>8, <1>9, <1>10
  DEF Next, WriterStep, ReaderStep, StartOpen, ReadCurrent, StatGeneration,
      LockShared, RereadCurrent, DropLease, CleanupLock, curVars,
      writerVars, fsVars, vars

-----------------------------------------------------------------------------
(* Cleanup and leases                                                      *)

\* Cleanup never owns a generation that CURRENT may name or a reader leases.
LEMMA CleanStep ==
    /\ TypeOK /\ LockInv /\ PointerInv /\ CleanInv /\ LeaseInv
    /\ [Next]_vars
    => CleanInv'
<1> SUFFICES ASSUME TypeOK, LockInv, PointerInv, CleanInv, LeaseInv, [Next]_vars
             PROVE  CleanInv'
  OBVIOUS
<1> USE GenAssumption DEF TypeOK, CleanInv, Installed
<1>1. ASSUME NEW g \in Gens, NEW s \in WriterPc,
             pc[g] \notin Installed \/ s \in Installed,
             pc' = [pc EXCEPT ![g] = s],
             curDisk' \subseteq curDisk \cup {h \in {g} : pc[h] \notin Installed},
             UNCHANGED <<cleaning, leases>>
      PROVE  CleanInv'
  BY <1>1
<1>2. ASSUME NEW g \in Gens,
             \/ Create(g) \/ WriteComponents(g) \/ AcquireLock(g)
             \/ VerifyExpectedCurrent(g) \/ WriteInventory(g) \/ SyncTree(g)
             \/ RenameGeneration(g) \/ SyncGenerations(g)
             \/ WriteCurrentTmp(g) \/ SyncCurrentTmp(g)
      PROVE  CleanInv'
  <2>1. /\ pc[g] \notin Installed
        /\ \E s \in WriterPc : pc' = [pc EXCEPT ![g] = s]
        /\ UNCHANGED <<cleaning, leases, curDisk>>
    BY <1>2 DEF Create, WriteComponents, AcquireLock, VerifyExpectedCurrent,
       WriteInventory, SyncTree, RenameGeneration, SyncGenerations,
       WriteCurrentTmp, SyncCurrentTmp, Return, Goto, WriterPc, Publishing,
       Uncommitted, curVars, readerVars
  <2> QED BY <2>1, <1>1
<1>3. ASSUME NEW g \in Gens, RenameCurrent(g) PROVE CleanInv'
  <2>1. /\ pc[g] = "renameCurrent" /\ pc' = [pc EXCEPT ![g] = "syncRoot"]
        /\ UNCHANGED <<cleaning, leases>>
    BY <1>3 DEF RenameCurrent, Goto, readerVars
  <2>2. curDisk' \subseteq curDisk \cup {g, Torn}
    BY <1>3 DEF RenameCurrent
  <2> QED BY <2>1, <2>2
<1>4. ASSUME NEW g \in Gens, SyncRoot(g) PROVE CleanInv'
  <2>1. /\ pc' = [pc EXCEPT ![g] = "returned"]
        /\ curDisk' = {current} \/ curDisk' = curDisk
        /\ UNCHANGED <<cleaning, leases>>
    BY <1>4 DEF SyncRoot, Return, Goto, readerVars
  <2> QED BY <2>1 DEF PointerInv
<1>5. ASSUME NEW g \in Gens, PublishFails(g) \/ Kill(g) PROVE CleanInv'
  <2>1. /\ \E s \in {"returned", "killed"} : pc' = [pc EXCEPT ![g] = s]
        /\ UNCHANGED <<cleaning, leases, curDisk>>
    BY <1>5 DEF PublishFails, Kill, Return, Goto, curVars, readerVars
  <2> QED BY <2>1
<1>6. ASSUME NEW g \in Gens, CleanupLock(g) PROVE CleanInv'
  <2>1. PICK i \in 1 .. Len(lineage) : lineage[i] = g
    BY <1>6 DEF CleanupLock
  <2>2. pc[g] \in Installed
    BY <2>1 DEF PointerInv
  <2> QED BY <1>6, <2>2 DEF CleanupLock, curVars, writerVars, readerVars
<1>7. ASSUME NEW g \in Gens, CleanupRemove(g) PROVE CleanInv'
  BY <1>7 DEF CleanupRemove
<1>8. ASSUME NEW r \in Readers,
             \/ StartOpen(r) \/ ReadCurrent(r) \/ StatGeneration(r)
             \/ LockShared(r) \/ RereadCurrent(r) \/ DropLease(r)
      PROVE  CleanInv'
  <2>1. /\ UNCHANGED <<cleaning, pc, curDisk>>
        /\ \/ leases' = leases
           \/ leases' = [leases EXCEPT ![rgen[r]] = @ \ {r}]
           \/ /\ cleaning # rgen[r]
              /\ leases' = [leases EXCEPT ![rgen[r]] = @ \cup {r}]
    BY <1>8 DEF StartOpen, ReadCurrent, StatGeneration, LockShared,
       RereadCurrent, DropLease, curVars, writerVars
  <2>2. cleaning # NoGen => leases'[cleaning] = {}
    BY <2>1
  <2> QED BY <2>1, <2>2
<1>9. CASE PowerLoss
  BY <1>9 DEF PowerLoss
<1>10. CASE UNCHANGED vars
  BY <1>10 DEF vars, curVars, writerVars, readerVars
<1> QED
  BY <1>2, <1>3, <1>4, <1>5, <1>6, <1>7, <1>8, <1>9, <1>10
  DEF Next, WriterStep, ReaderStep

\* A reader that re-read CURRENT under its lease holds a generation that
\* verifies.
LEMMA LeaseStep ==
    /\ TypeOK /\ PointerInv /\ CleanInv /\ LeaseInv
    /\ [Next]_vars
    => LeaseInv'
<1> SUFFICES ASSUME TypeOK, PointerInv, CleanInv, LeaseInv, [Next]_vars
             PROVE  LeaseInv'
  OBVIOUS
<1> DEFINE Leased(r) ==
        /\ rpc[r] \in {"stat", "lease", "reread", "leased"} => rgen[r] \in Gens
        /\ rpc[r] \in {"reread", "leased"} => r \in leases[rgen[r]]
        /\ rpc[r] = "leased" => Verifies(rgen[r]) /\ pc[rgen[r]] \in Installed
\* A step that leaves the readers and every installed generation alone.
<1>1. ASSUME UNCHANGED readerVars,
             \A h \in Gens : pc[h] \in Installed =>
                 dir'[h] = dir[h] /\ data'[h] = data[h] /\ pc'[h] \in Installed
      PROVE  LeaseInv'
  BY <1>1 DEF LeaseInv, readerVars, Verifies
<1>2. ASSUME NEW g \in Gens, pc[g] \notin Installed, UNCHANGED readerVars,
             \A h \in Gens \ {g} : dir'[h] = dir[h] /\ data'[h] = data[h] /\ pc'[h] = pc[h]
      PROVE  LeaseInv'
  <2>1. \A h \in Gens : pc[h] \in Installed => h # g
    BY <1>2
  <2> QED BY <1>1, <1>2, <2>1
<1>3. ASSUME NEW g \in Gens,
             \/ Create(g) \/ WriteComponents(g) \/ AcquireLock(g)
             \/ VerifyExpectedCurrent(g) \/ WriteInventory(g) \/ SyncTree(g)
             \/ RenameGeneration(g) \/ SyncGenerations(g)
             \/ WriteCurrentTmp(g) \/ SyncCurrentTmp(g) \/ RenameCurrent(g)
      PROVE  LeaseInv'
  BY <1>2, <1>3 DEF Create, WriteComponents, AcquireLock, VerifyExpectedCurrent,
     WriteInventory, SyncTree, RenameGeneration, SyncGenerations, WriteCurrentTmp,
     SyncCurrentTmp, RenameCurrent, Return, Goto, Installed, TypeOK, fsVars
<1>4. ASSUME NEW g \in Gens, SyncRoot(g) \/ PublishFails(g) \/ Kill(g)
      PROVE  LeaseInv'
  <2>1. /\ \E s \in {"returned", "killed"} : pc' = [pc EXCEPT ![g] = s]
        /\ UNCHANGED <<readerVars, fsVars>>
    BY <1>4 DEF SyncRoot, PublishFails, Kill, Return, Goto
  <2>2. \A h \in Gens : pc[h] \in Installed => pc'[h] \in Installed
    BY <2>1 DEF TypeOK, Installed
  <2> QED BY <1>1, <2>1, <2>2 DEF fsVars
<1>5. ASSUME NEW g \in Gens, CleanupLock(g) PROVE LeaseInv'
  BY <1>1, <1>5 DEF CleanupLock, fsVars, writerVars
<1>6. ASSUME NEW g \in Gens, CleanupRemove(g) PROVE LeaseInv'
  <2>1. /\ UNCHANGED <<readerVars, pc>> /\ leases[g] = {}
        /\ \A h \in Gens \ {g} : dir'[h] = dir[h] /\ data'[h] = data[h]
    BY <1>6, GenAssumption DEF CleanupRemove, CleanInv, TypeOK, writerVars
  <2>2. \A r \in Readers : rpc[r] = "leased" => rgen[r] \in Gens \ {g}
    BY <2>1 DEF LeaseInv
  <2> QED BY <2>1, <2>2 DEF LeaseInv, readerVars, Verifies
<1>7. ASSUME NEW r \in Readers,
             \/ StartOpen(r) \/ ReadCurrent(r) \/ StatGeneration(r)
             \/ LockShared(r) \/ RereadCurrent(r) \/ DropLease(r)
      PROVE  LeaseInv'
  <2>1. UNCHANGED <<dir, data, pc>>
    BY <1>7 DEF StartOpen, ReadCurrent, StatGeneration, LockShared,
       RereadCurrent, DropLease, fsVars, writerVars
  <2>2. ASSUME NEW s \in Readers \ {r} PROVE Leased(s)'
    <3>1. rpc'[s] = rpc[s] /\ rgen'[s] = rgen[s]
      BY <1>7, <2>2 DEF StartOpen, ReadCurrent, StatGeneration, LockShared,
         RereadCurrent, DropLease, TypeOK
    <3>2. \A g \in Gens : s \in leases[g] => s \in leases'[g]
      <4>1. \/ leases' = leases
            \/ leases' = [leases EXCEPT ![rgen[r]] = @ \ {r}]
            \/ leases' = [leases EXCEPT ![rgen[r]] = @ \cup {r}]
        BY <1>7 DEF StartOpen, ReadCurrent, StatGeneration, LockShared,
           RereadCurrent, DropLease
      <4> QED BY <2>2, <4>1 DEF TypeOK
    <3> QED BY <2>1, <3>1, <3>2 DEF LeaseInv, Verifies
  <2>3. Leased(r)'
    <3>1. CASE StartOpen(r) \/ ReadCurrent(r) \/ StatGeneration(r) \/ DropLease(r)
      BY <3>1, <2>1 DEF LeaseInv, StartOpen, ReadCurrent, StatGeneration, DropLease, TypeOK
    <3>2. CASE LockShared(r)
      BY <3>2, <2>1 DEF LeaseInv, LockShared, TypeOK
    <3>3. CASE RereadCurrent(r) /\ current = rgen[r]
      <4>1. /\ rpc[r] = "reread" /\ rpc' = [rpc EXCEPT ![r] = "leased"]
            /\ UNCHANGED <<rgen, leases>>
        BY <3>3 DEF RereadCurrent
      <4>2. rgen[r] \in Gens /\ r \in leases[rgen[r]]
        BY <4>1 DEF LeaseInv
      <4>3. Secure(rgen[r])
        BY <3>3, <4>2, GenAssumption DEF PointerInv
      <4> QED BY <4>1, <4>2, <4>3, <2>1 DEF Secure, Verifies, TypeOK
    <3>4. CASE RereadCurrent(r) /\ current # rgen[r]
      <4>1. \E s \in {"read", "idle"} : rpc' = [rpc EXCEPT ![r] = s]
        BY <3>4 DEF RereadCurrent
      <4> QED BY <4>1 DEF TypeOK
    <3> QED BY <1>7, <3>1, <3>2, <3>3, <3>4
  <2> QED BY <2>2, <2>3 DEF LeaseInv
<1>8. CASE PowerLoss
  BY <1>8 DEF PowerLoss, LeaseInv
<1>9. CASE UNCHANGED vars
  BY <1>1, <1>9 DEF vars, fsVars, writerVars
<1> QED
  BY <1>3, <1>4, <1>5, <1>6, <1>7, <1>8, <1>9 DEF Next, WriterStep, ReaderStep

-----------------------------------------------------------------------------
(* The inductive invariant and what follows from it                        *)

\* The initial state satisfies the invariant.
LEMMA InitInv == Init => IInv
<1> SUFFICES ASSUME Init PROVE IInv
  OBVIOUS
<1>1. LockInv /\ WriterInv /\ PointerInv /\ CleanInv /\ LeaseInv
  BY GenAssumption DEF Init, LockInv, WriterInv, PointerInv, CleanInv, LeaseInv,
     Publishing, Uncommitted
<1> QED BY <1>1, TypeInit DEF IInv

\* Every step keeps the invariant.
LEMMA StepInv == IInv /\ [Next]_vars => IInv'
BY TypeStep, LockStep, WriterStepInv, PointerStep, CleanStep, LeaseStep DEF IInv

\* The strengthened invariant holds in every state of every behaviour.
THEOREM Invariance == Spec => []IInv
BY InitInv, StepInv, PTL DEF Spec

\* CURRENT, whenever it exists, names a complete, inventoried and published
\* generation: verify_current succeeds after any interleaving of publishers,
\* failed calls, kills and power losses.
THEOREM CurrentVerifiesAlways == Spec => []CurrentVerifies
<1>1. IInv => CurrentVerifies
  BY DEF IInv, PointerInv, Secure, CurrentVerifies
<1> QED BY <1>1, Invariance, PTL

\* A lease returned by open_current_pinned protects the files it names until
\* it is dropped.
THEOREM LeaseProtectsAlways == Spec => []LeaseProtects
<1>1. IInv => LeaseProtects
  BY DEF IInv, LeaseInv, LeaseProtects
<1> QED BY <1>1, Invariance, PTL

-----------------------------------------------------------------------------
(* The history of CURRENT                                                  *)

\* CURRENT is the last generation of the history and the disk shows some
\* generation of it; no generation was installed twice; each was built on
\* the one installed before it.
HistoryInv ==
    /\ current = NamedBy(lineage)
    /\ \A i, j \in 1 .. Len(lineage) : lineage[i] = lineage[j] => i = j
    /\ \A v \in curDisk : v = NoGen \/ \E i \in 1 .. Len(lineage) : lineage[i] = v
    /\ \A i \in 1 .. Len(lineage) :
           expected[lineage[i]] = IF i = 1 THEN NoGen ELSE lineage[i - 1]

\* CURRENT does not change between a writer's check of it and the writer's
\* rename, nor between that rename and the final barrier; only a writer that
\* returned has an outcome.
WriterHistoryInv ==
    \A g \in Gens :
        /\ pc[g] \in Uncommitted \ {"verify"} => expected[g] = current
        /\ pc[g] = "syncRoot" => current = g
        /\ outcome[g] # "none" => pc[g] = "returned"

HistoryIInv ==
    /\ HistoryInv
    /\ WriterHistoryInv
    /\ CommittedSurvives
    /\ ErrorLeavesCurrent

\* A generation whose writer has not passed the commit point is neither in
\* the history nor on the disk's CURRENT.
LEMMA NotInstalled ==
    ASSUME TypeOK, PointerInv, NEW g \in Gens, pc[g] \notin Installed
    PROVE  /\ \A i \in 1 .. Len(lineage) : lineage[i] # g
           /\ g \notin curDisk
BY GenAssumption DEF PointerInv, Secure

\* A power loss cuts the history to the generation that CURRENT then names.
LEMMA PowerLossPrefix ==
    ASSUME TypeOK, PointerInv, HistoryInv, PowerLoss
    PROVE  \E n \in 0 .. Len(lineage) :
              /\ lineage' = SubSeq(lineage, 1, n)
              /\ Len(lineage') = n
              /\ \A i \in 1 .. n : lineage'[i] = lineage[i]
              /\ current' = NamedBy(lineage')
              /\ current' \in curDisk
<1>1. current' \in curDisk /\ current' # Torn
  BY GenAssumption DEF PowerLoss, PointerInv
<1>2. PICK n \in 0 .. Len(lineage) :
          lineage' = SubSeq(lineage, 1, n) /\ NamedBy(lineage') = current'
  BY <1>1 DEF PowerLoss
<1>3. lineage \in Seq(Gens)
  BY DEF TypeOK
<1> QED BY <1>1, <1>2, <1>3

\* Apart from the commit point, a power loss and a new writer, no step
\* changes what CURRENT names or what a writer expects it to name.
LEMMA HistoryFrame ==
    ASSUME TypeOK, [Next]_vars,
           ~PowerLoss, \A g \in Gens : ~RenameCurrent(g) /\ ~Create(g)
    PROVE  /\ UNCHANGED <<expected, current, lineage>>
           /\ curDisk' \in {curDisk, {current}}
BY DEF Next, WriterStep, ReaderStep, WriteComponents, AcquireLock,
   VerifyExpectedCurrent, WriteInventory, SyncTree, RenameGeneration,
   SyncGenerations, WriteCurrentTmp, SyncCurrentTmp, SyncRoot, PublishFails,
   Kill, CleanupLock, CleanupRemove, StartOpen, ReadCurrent, StatGeneration,
   LockShared, RereadCurrent, DropLease, curVars, writerVars, vars

\* CURRENT keeps naming the last of a history without repetitions, and every
\* generation in it was built on its predecessor.
LEMMA HistoryStep ==
    /\ TypeOK /\ PointerInv /\ WriterInv /\ HistoryInv /\ WriterHistoryInv
    /\ [Next]_vars
    => HistoryInv'
<1> SUFFICES ASSUME TypeOK, PointerInv, WriterInv, HistoryInv, WriterHistoryInv,
                    [Next]_vars
             PROVE  HistoryInv'
  OBVIOUS
<1>0. lineage \in Seq(Gens) /\ \A i \in 1 .. Len(lineage) : lineage[i] \in Gens
  BY DEF TypeOK
<1>1. ASSUME NEW g \in Gens, Create(g) PROVE HistoryInv'
  <2>1. /\ UNCHANGED curVars
        /\ \A h \in Gens \ {g} : expected'[h] = expected[h]
    BY <1>1 DEF Create, TypeOK
  <2>2. \A i \in 1 .. Len(lineage) : lineage[i] # g
    BY <1>1, NotInstalled DEF Create, Installed
  <2> QED BY <1>0, <2>1, <2>2 DEF HistoryInv, curVars, NamedBy
<1>2. ASSUME NEW g \in Gens, RenameCurrent(g) PROVE HistoryInv'
  <2>1. /\ pc[g] = "renameCurrent" /\ current' = g /\ UNCHANGED expected
        /\ lineage' = Append(lineage, g) /\ curDisk' = curDisk \cup {g}
    BY <1>2 DEF RenameCurrent, WriterInv, Uncommitted
  <2>2. \A i \in 1 .. Len(lineage) : lineage[i] # g
    BY <2>1, NotInstalled DEF Installed
  <2>3. /\ Len(lineage') = Len(lineage) + 1 /\ lineage'[Len(lineage) + 1] = g
        /\ \A i \in 1 .. Len(lineage) : lineage'[i] = lineage[i]
        /\ Len(lineage) \in Nat
    BY <1>0, <2>1
  <2>4. expected[g] = NamedBy(lineage)
    BY <2>1 DEF WriterHistoryInv, HistoryInv, Uncommitted
  <2>5. current' = NamedBy(lineage')
    BY <2>1, <2>3 DEF NamedBy
  <2>6. \A i, j \in 1 .. Len(lineage') : lineage'[i] = lineage'[j] => i = j
    <3>1. \A i \in 1 .. Len(lineage') : i \in 1 .. Len(lineage) \/ i = Len(lineage) + 1
      BY <2>3
    <3>2. \A i, j \in 1 .. Len(lineage) : lineage[i] = lineage[j] => i = j
      BY DEF HistoryInv
    <3> QED BY <2>2, <2>3, <3>1, <3>2
  <2>7. \A v \in curDisk' : v = NoGen \/ \E i \in 1 .. Len(lineage') : lineage'[i] = v
    BY <2>1, <2>3 DEF HistoryInv
  <2>8. ASSUME NEW i \in 1 .. Len(lineage')
        PROVE  expected'[lineage'[i]] = IF i = 1 THEN NoGen ELSE lineage'[i - 1]
    <3>1. CASE i \in 1 .. Len(lineage)
      BY <3>1, <2>1, <2>3 DEF HistoryInv
    <3>2. CASE i \notin 1 .. Len(lineage)
      <4>1. i = Len(lineage) + 1
        BY <3>2, <2>3
      <4>2. i = 1 <=> lineage = <<>>
        BY <4>1, <1>0
      <4>3. i # 1 => lineage'[i - 1] = lineage[Len(lineage)]
        BY <4>1, <2>3
      <4> QED BY <4>1, <4>2, <4>3, <2>1, <2>3, <2>4 DEF NamedBy
    <3> QED BY <3>1, <3>2
  <2> QED BY <2>5, <2>6, <2>7, <2>8 DEF HistoryInv
<1>3. CASE PowerLoss
  <2>1. PICK n \in 0 .. Len(lineage) :
            /\ lineage' = SubSeq(lineage, 1, n) /\ Len(lineage') = n
            /\ \A i \in 1 .. n : lineage'[i] = lineage[i]
            /\ current' = NamedBy(lineage')
    BY <1>3, PowerLossPrefix
  <2>2. curDisk' = {current'} /\ UNCHANGED expected
    BY <1>3 DEF PowerLoss
  <2>3. \A i \in 1 .. n : i \in 1 .. Len(lineage) /\ (i # 1 => i - 1 \in 1 .. n)
    OBVIOUS
  <2>4. current' = NoGen \/ (n \in 1 .. n /\ lineage'[n] = current')
    <3>1. lineage' \in Seq(Gens)
      BY <1>0, <2>1
    <3>2. lineage' # <<>> => n # 0
      BY <2>1, <3>1
    <3> QED BY <2>1, <3>2 DEF NamedBy
  <2> QED BY <2>1, <2>2, <2>3, <2>4 DEF HistoryInv
<1>4. ASSUME ~PowerLoss, \A g \in Gens : ~RenameCurrent(g) /\ ~Create(g)
      PROVE  HistoryInv'
  <2>1. UNCHANGED <<expected, current, lineage>> /\ curDisk' \in {curDisk, {current}}
    BY <1>4, HistoryFrame
  <2>2. current \in curDisk
    BY DEF PointerInv
  <2> QED BY <2>1, <2>2 DEF HistoryInv, NamedBy
<1> QED BY <1>1, <1>2, <1>3, <1>4

\* What a writer inside the protocol knows of CURRENT stays true: nobody else
\* may change it while the writer holds the lock.
LEMMA WriterHistoryStep ==
    /\ TypeOK /\ LockInv /\ WriterHistoryInv
    /\ [Next]_vars
    => WriterHistoryInv'
<1> SUFFICES ASSUME TypeOK, LockInv, WriterHistoryInv, [Next]_vars
             PROVE  WriterHistoryInv'
  OBVIOUS
<1> USE DEF TypeOK, WriterHistoryInv, Uncommitted, Goto
<1>1. ASSUME NEW g \in Gens, Create(g) \/ WriteComponents(g) PROVE WriterHistoryInv'
  BY <1>1 DEF Create, WriteComponents, curVars
<1>2. ASSUME NEW g \in Gens, AcquireLock(g) \/ VerifyExpectedCurrent(g)
      PROVE  WriterHistoryInv'
  BY <1>2 DEF AcquireLock, VerifyExpectedCurrent, Return, curVars
<1>3. ASSUME NEW g \in Gens,
             \/ WriteInventory(g) \/ SyncTree(g) \/ RenameGeneration(g)
             \/ SyncGenerations(g) \/ WriteCurrentTmp(g) \/ SyncCurrentTmp(g)
      PROVE  WriterHistoryInv'
  BY <1>3 DEF WriteInventory, SyncTree, RenameGeneration, SyncGenerations,
     WriteCurrentTmp, SyncCurrentTmp, curVars
<1>4. ASSUME NEW g \in Gens, RenameCurrent(g) PROVE WriterHistoryInv'
  <2>1. \A h \in Gens \ {g} : pc[h] \notin Publishing
    BY <1>4 DEF RenameCurrent, LockInv, Publishing
  <2> QED BY <1>4, <2>1 DEF RenameCurrent, Publishing
<1>5. ASSUME NEW g \in Gens, SyncRoot(g) \/ PublishFails(g) \/ Kill(g)
      PROVE  WriterHistoryInv'
  BY <1>5 DEF SyncRoot, PublishFails, Kill, Return, Publishing, curVars
<1>6. CASE PowerLoss
  BY <1>6 DEF PowerLoss
<1>7. ASSUME UNCHANGED <<curVars, writerVars>> PROVE WriterHistoryInv'
  BY <1>7 DEF curVars, writerVars
<1> QED
  BY <1>1, <1>2, <1>3, <1>4, <1>5, <1>6, <1>7
  DEF Next, WriterStep, ReaderStep, StartOpen, ReadCurrent, StatGeneration,
      LockShared, RereadCurrent, DropLease, CleanupLock, CleanupRemove, vars

\* A publication that failed stays out of the history and off the disk.
LEMMA ErrorStep ==
    /\ TypeOK /\ PointerInv /\ WriterInv /\ HistoryInv /\ WriterHistoryInv
    /\ ErrorLeavesCurrent /\ [Next]_vars
    => ErrorLeavesCurrent'
<1> SUFFICES ASSUME TypeOK, PointerInv, WriterInv, HistoryInv, WriterHistoryInv,
                    ErrorLeavesCurrent, [Next]_vars,
                    NEW g \in Gens, outcome'[g] = "error"
             PROVE  /\ \A i \in 1 .. Len(lineage') : lineage'[i] # g
                    /\ g \notin curDisk'
  BY DEF ErrorLeavesCurrent
<1>0. lineage \in Seq(Gens)
  BY DEF TypeOK
\* The generation was outside before the step.
<1>1. /\ \A i \in 1 .. Len(lineage) : lineage[i] # g
      /\ g \notin curDisk
      /\ pc[g] # "renameCurrent" \/ lineage' = lineage
  <2>1. CASE outcome[g] = "error"
    BY <2>1 DEF ErrorLeavesCurrent, WriterHistoryInv
  <2>2. CASE outcome[g] # "error"
    <3>1. PICK h \in Gens : SyncRoot(h) \/ PublishFails(h) \/ AcquireLock(h) \/ VerifyExpectedCurrent(h)
      BY <2>2 DEF Next, WriterStep, ReaderStep, WriteComponents, Create,
         WriteInventory, SyncTree, RenameGeneration, SyncGenerations,
         WriteCurrentTmp, SyncCurrentTmp, RenameCurrent, Kill, CleanupLock,
         CleanupRemove, StartOpen, ReadCurrent, StatGeneration, LockShared,
         RereadCurrent, DropLease, PowerLoss, writerVars, vars
    <3>2. h = g /\ pc[g] \notin Installed /\ lineage' = lineage
      BY <2>2, <3>1 DEF SyncRoot, PublishFails, AcquireLock, VerifyExpectedCurrent,
         Return, TypeOK, Installed, Uncommitted, curVars
    <3> QED BY <3>2, NotInstalled
  <2> QED BY <2>1, <2>2
<1>2. ASSUME NEW h \in Gens, RenameCurrent(h) PROVE lineage' = Append(lineage, h) /\ curDisk' = curDisk \cup {h} /\ h # g
  <2>1. lineage' = Append(lineage, h) /\ curDisk' = curDisk \cup {h} /\ pc[h] = "renameCurrent"
    BY <1>2 DEF RenameCurrent, WriterInv, Uncommitted
  <2>2. lineage' # lineage
    BY <1>0, <2>1
  <2> QED BY <1>1, <2>1, <2>2
<1>3. CASE \E h \in Gens : RenameCurrent(h)
  BY <1>0, <1>1, <1>2, <1>3
<1>4. CASE PowerLoss
  <2>1. curDisk' \subseteq curDisk
    BY <1>4, PowerLossPrefix DEF PowerLoss
  <2> QED BY <1>1, <1>4, <2>1, PowerLossPrefix
<1>5. CASE \E h \in Gens : Create(h)
  BY <1>1, <1>5 DEF Create, curVars
<1>6. CASE ~PowerLoss /\ \A h \in Gens : ~RenameCurrent(h) /\ ~Create(h)
  <2>1. lineage' = lineage /\ curDisk' \in {curDisk, {current}} /\ current \in curDisk
    BY <1>6, HistoryFrame DEF PointerInv
  <2> QED BY <1>1, <2>1
<1> QED BY <1>3, <1>4, <1>5, <1>6

\* A generation that is in the history, and that no value on the disk
\* precedes, keeps that position through every step.
DurableAt(g, i) ==
    /\ i \in 1 .. Len(lineage) /\ lineage[i] = g
    /\ \A v \in curDisk : \E j \in i .. Len(lineage) : lineage[j] = v

LEMMA DurableAtStep ==
    ASSUME TypeOK, PointerInv, WriterInv, HistoryInv, [Next]_vars,
           NEW g \in Gens, NEW i \in Nat, DurableAt(g, i)
    PROVE  DurableAt(g, i)'
<1>0. lineage \in Seq(Gens)
  BY DEF TypeOK
<1>1. ASSUME NEW h \in Gens, RenameCurrent(h) PROVE DurableAt(g, i)'
  <2>1. lineage' = Append(lineage, h) /\ curDisk' = curDisk \cup {h}
    BY <1>1 DEF RenameCurrent, WriterInv, Uncommitted
  <2>2. /\ Len(lineage') = Len(lineage) + 1 /\ lineage'[Len(lineage) + 1] = h
        /\ \A j \in 1 .. Len(lineage) : lineage'[j] = lineage[j]
        /\ Len(lineage) \in Nat
    BY <1>0, <2>1
  <2> QED BY <2>1, <2>2 DEF DurableAt
<1>2. CASE PowerLoss
  <2>1. PICK n \in 0 .. Len(lineage) :
            /\ Len(lineage') = n
            /\ \A j \in 1 .. n : lineage'[j] = lineage[j]
            /\ lineage' = SubSeq(lineage, 1, n)
            /\ current' = NamedBy(lineage') /\ current' \in curDisk
    BY <1>2, PowerLossPrefix
  <2>2. PICK j \in i .. Len(lineage) : lineage[j] = current'
    BY <2>1 DEF DurableAt
  <2>3. n # 0
    <3>1. lineage[j] \in Gens
      BY <1>0, <2>2 DEF DurableAt
    <3>2. n = 0 => lineage' = <<>>
      BY <1>0, <2>1
    <3> QED BY <2>1, <2>2, <3>1, <3>2, GenAssumption DEF NamedBy
  <2>4. current' = lineage[n]
    BY <1>0, <2>1, <2>3 DEF NamedBy
  <2>5. j = n
    BY <2>2, <2>3, <2>4 DEF HistoryInv, DurableAt
  <2>6. curDisk' = {current'}
    BY <1>2 DEF PowerLoss
  <2> QED BY <2>1, <2>2, <2>4, <2>5, <2>6 DEF DurableAt
<1>3. CASE \E h \in Gens : Create(h)
  BY <1>3 DEF Create, curVars, DurableAt
<1>4. CASE ~PowerLoss /\ \A h \in Gens : ~RenameCurrent(h) /\ ~Create(h)
  <2>1. lineage' = lineage /\ curDisk' \in {curDisk, {current}} /\ current \in curDisk
    BY <1>4, HistoryFrame DEF PointerInv
  <2> QED BY <2>1 DEF DurableAt
<1> QED BY <1>1, <1>2, <1>3, <1>4

\* A committed generation is durable from the return of its writer on.
LEMMA CommittedStep ==
    /\ TypeOK /\ PointerInv /\ WriterInv /\ HistoryInv /\ WriterHistoryInv
    /\ CommittedSurvives /\ [Next]_vars
    => CommittedSurvives'
<1> SUFFICES ASSUME TypeOK, PointerInv, WriterInv, HistoryInv, WriterHistoryInv,
                    CommittedSurvives, [Next]_vars,
                    NEW g \in Gens, outcome'[g] = "committed"
             PROVE  \E i \in Nat : DurableAt(g, i)'
  BY DEF CommittedSurvives, DurableAt
<1>1. CASE outcome[g] = "committed"
  <2>1. PICK i \in Nat : DurableAt(g, i)
    BY <1>1 DEF CommittedSurvives, DurableAt
  <2> QED BY <2>1, DurableAtStep
<1>2. CASE outcome[g] # "committed"
  <2>1. SyncRoot(g)
    <3>1. PICK h \in Gens : SyncRoot(h) \/ PublishFails(h) \/ AcquireLock(h) \/ VerifyExpectedCurrent(h)
      BY <1>2 DEF Next, WriterStep, ReaderStep, WriteComponents, Create,
         WriteInventory, SyncTree, RenameGeneration, SyncGenerations,
         WriteCurrentTmp, SyncCurrentTmp, RenameCurrent, Kill, CleanupLock,
         CleanupRemove, StartOpen, ReadCurrent, StatGeneration, LockShared,
         RereadCurrent, DropLease, PowerLoss, writerVars, vars
    <3> QED BY <1>2, <3>1 DEF SyncRoot, PublishFails, AcquireLock,
            VerifyExpectedCurrent, Return, TypeOK
  <2>2. pc[g] = "syncRoot" /\ UNCHANGED <<current, lineage>> /\ curDisk' = {current}
    BY <1>2, <2>1 DEF SyncRoot, Return, TypeOK
  <2>3. lineage # <<>> /\ lineage[Len(lineage)] = g /\ current = g
    BY <2>2, GenAssumption DEF WriterHistoryInv, HistoryInv, NamedBy
  <2>4. lineage \in Seq(Gens) /\ Len(lineage) \in 1 .. Len(lineage)
    BY <2>3 DEF TypeOK
  <2> QED BY <2>2, <2>3, <2>4 DEF DurableAt
<1> QED BY <1>1, <1>2

-----------------------------------------------------------------------------
(* The invariants of the history                                           *)

\* The generation that a prefix of a history ends with.
LEMMA PrefixNamed ==
    ASSUME NEW s \in Seq(Gens), NEW n \in 0 .. Len(s)
    PROVE  NamedBy(SubSeq(s, 1, n)) = IF n = 0 THEN NoGen ELSE s[n]
BY DEF NamedBy

\* The history starts empty.
LEMMA HistoryInit == Init => HistoryIInv
BY GenAssumption DEF Init, HistoryIInv, HistoryInv, WriterHistoryInv, NamedBy,
   CommittedSurvives, ErrorLeavesCurrent, Uncommitted

\* The history invariant holds in every state of every behaviour.
THEOREM HistoryInvariance == Spec => []HistoryIInv
<1>1. IInv /\ HistoryIInv /\ [Next]_vars => HistoryIInv'
  BY HistoryStep, WriterHistoryStep, ErrorStep, CommittedStep DEF IInv, HistoryIInv
<1> QED BY <1>1, HistoryInit, Invariance, PTL DEF Spec

\* verify_expected_current under the lock: every generation that CURRENT ever
\* named was built on the one it replaced.
THEOREM NoLostUpdateAlways == Spec => []NoLostUpdate
<1>1. IInv /\ HistoryIInv => NoLostUpdate
  <2> SUFFICES ASSUME IInv, HistoryIInv, NEW i \in 1 .. Len(lineage)
               PROVE  expected[lineage[i]] = NamedBy(SubSeq(lineage, 1, i - 1))
    BY DEF NoLostUpdate
  <2>1. lineage \in Seq(Gens) /\ i - 1 \in 0 .. Len(lineage)
    BY DEF IInv, TypeOK
  <2>2. expected[lineage[i]] = IF i = 1 THEN NoGen ELSE lineage[i - 1]
    BY DEF HistoryIInv, HistoryInv
  <2> QED BY <2>1, <2>2, PrefixNamed
<1> QED BY <1>1, Invariance, HistoryInvariance, PTL

\* A generation reported Committed survives every later power loss.
THEOREM CommittedSurvivesAlways == Spec => []CommittedSurvives
<1>1. HistoryIInv => CommittedSurvives
  BY DEF HistoryIInv
<1> QED BY <1>1, HistoryInvariance, PTL

\* A publication that returned an error never touched CURRENT, on disk or not.
THEOREM ErrorLeavesCurrentAlways == Spec => []ErrorLeavesCurrent
<1>1. HistoryIInv => ErrorLeavesCurrent
  BY DEF HistoryIInv
<1> QED BY <1>1, HistoryInvariance, PTL

-----------------------------------------------------------------------------
(* GenerationPublication implements PublicationLog                         *)

\* Every nonempty set of naturals has a least element: the intervals 0 .. n
\* of its elements are well-founded under strict inclusion.
LEMMA LeastExists ==
    ASSUME NEW S \in SUBSET Nat, S # {}
    PROVE  \E n \in S : \A m \in S : n <= m
<1> DEFINE R == StrictSubsetOrdering(Nat)
           T == {0 .. n : n \in S}
<1>1. IsWellFoundedOn(R, FiniteSubsetsOf(Nat))
  BY FS_StrictSubsetOrderingWellFounded
<1>2. T \subseteq FiniteSubsetsOf(Nat) /\ T # {}
  <2>1. \A n \in S : 0 .. n \in FiniteSubsetsOf(Nat)
    BY FS_Interval DEF FiniteSubsetsOf
  <2> QED BY <2>1
<1>3. PICK t \in T : \A u \in T : ~(<<u, t>> \in R)
  <2> HIDE DEF R, T
  <2> QED BY <1>1, <1>2, WFMin
<1>4. PICK n \in S : t = 0 .. n
  OBVIOUS
<1>5. ASSUME NEW m \in S, ~(n <= m) PROVE FALSE
  <2>1. 0 .. m \in T /\ 0 .. m \subseteq 0 .. n /\ n \in 0 .. n /\ n \notin 0 .. m
    BY <1>5
  <2>2. <<0 .. m, t>> \in R
    BY <2>1, <1>4 DEF StrictSubsetOrdering
  <2> QED BY <1>3, <2>1, <2>2
<1> QED BY <1>5

\* n is the length of the shortest prefix of s that a disk showing D may show.
Shortest(s, D, n) ==
    /\ n \in 0 .. Len(s)
    /\ NamedBy(SubSeq(s, 1, n)) \in D
    /\ \A m \in 0 .. n - 1 : NamedBy(SubSeq(s, 1, m)) \notin D

ShortestLength(s, D) ==
    CHOOSE n \in 0 .. Len(s) :
        /\ NamedBy(SubSeq(s, 1, n)) \in D
        /\ \A m \in 0 .. n - 1 : NamedBy(SubSeq(s, 1, m)) \notin D

\* Some prefix is shown if the whole history is.
LEMMA ShortestExists ==
    ASSUME NEW s \in Seq(Gens), NEW D, NamedBy(s) \in D
    PROVE  Shortest(s, D, ShortestLength(s, D))
<1> DEFINE S == {n \in 0 .. Len(s) : NamedBy(SubSeq(s, 1, n)) \in D}
<1>1. Len(s) \in S
  BY DEF NamedBy
<1>2. PICK n \in S : \A m \in S : n <= m
  <2>1. S \in SUBSET Nat /\ S # {}
    BY <1>1
  <2> HIDE DEF S
  <2> QED BY <2>1, LeastExists
<1>3. Shortest(s, D, n)
  BY <1>2 DEF Shortest
<1> QED BY <1>3 DEF Shortest, ShortestLength

\* There is only one shortest prefix.
LEMMA ShortestUnique ==
    ASSUME NEW s \in Seq(Gens), NEW D, NEW n, Shortest(s, D, n)
    PROVE  ShortestLength(s, D) = n
<1>1. ASSUME NEW m, Shortest(s, D, m) PROVE m = n
  BY <1>1 DEF Shortest
<1>2. Shortest(s, D, ShortestLength(s, D))
  BY DEF Shortest, ShortestLength
<1> QED BY <1>1, <1>2

\* A history without repetitions is its own shortest prefix for a disk that
\* shows its last generation only.
LEMMA ShortestWhole ==
    ASSUME NEW s \in Seq(Gens), \A i, j \in 1 .. Len(s) : s[i] = s[j] => i = j
    PROVE  Shortest(s, {NamedBy(s)}, Len(s))
<1>1. ASSUME NEW m \in 0 .. Len(s) - 1
      PROVE  NamedBy(SubSeq(s, 1, m)) # NamedBy(s)
  <2>1. m \in 0 .. Len(s) /\ Len(s) \in 1 .. Len(s) /\ Len(s) # 0
    OBVIOUS
  <2>2. NamedBy(s) = s[Len(s)] /\ s[Len(s)] \in Gens
    BY <2>1 DEF NamedBy
  <2>3. CASE m = 0
    BY <2>1, <2>2, <2>3, PrefixNamed, GenAssumption
  <2>4. CASE m # 0
    BY <2>1, <2>2, <2>4, PrefixNamed
  <2> QED BY <2>3, <2>4
<1>2. SubSeq(s, 1, Len(s)) = s /\ Len(s) \in 0 .. Len(s)
  OBVIOUS
<1> QED BY <1>1, <1>2 DEF Shortest

\* What the refinement needs of the state: the two invariants' parts.
LEMMA DurableShortest ==
    ASSUME TypeOK, PointerInv, HistoryInv
    PROVE  Shortest(lineage, curDisk, DurableLength)
<1>1. lineage \in Seq(Gens) /\ NamedBy(lineage) \in curDisk
  BY DEF TypeOK, PointerInv, HistoryInv
<1> QED BY <1>1, ShortestExists DEF DurableLength, ShortestLength

Acked == {g \in Gens : outcome[g] = "committed"}

\* Only a successful final barrier tells a writer that it is committed.
LEMMA AckedStep ==
    ASSUME TypeOK, WriterHistoryInv, [Next]_vars, \A g \in Gens : ~SyncRoot(g)
    PROVE  Acked' = Acked
<1>1. CASE UNCHANGED outcome
  BY <1>1 DEF Acked
<1>2. CASE ~UNCHANGED outcome
  <2>1. PICK g \in Gens : PublishFails(g) \/ AcquireLock(g) \/ VerifyExpectedCurrent(g)
    BY <1>2 DEF Next, WriterStep, ReaderStep, WriteComponents, Create,
       WriteInventory, SyncTree, RenameGeneration, SyncGenerations,
       WriteCurrentTmp, SyncCurrentTmp, RenameCurrent, Kill, CleanupLock,
       CleanupRemove, StartOpen, ReadCurrent, StatGeneration, LockShared,
       RereadCurrent, DropLease, PowerLoss, writerVars, vars
  <2>2. outcome' = [outcome EXCEPT ![g] = "error"] /\ pc[g] # "returned"
    BY <1>2, <2>1 DEF PublishFails, AcquireLock, VerifyExpectedCurrent, Return, Uncommitted
  <2>3. outcome[g] # "committed"
    BY <2>2 DEF WriterHistoryInv
  <2> QED BY <2>2, <2>3 DEF Acked, TypeOK
<1> QED BY <1>1, <1>2

\* A mapped step is what the abstract log calls it.
LEMMA LogStep ==
    ASSUME IInv, HistoryIInv, [Next]_vars
    PROVE  [Log!Next]_(Log!vars)
<1> DEFINE d == DurableLength
<1> USE DEF IInv, HistoryIInv
<1>0. /\ lineage \in Seq(Gens)
      /\ \A i, j \in 1 .. Len(lineage) : lineage[i] = lineage[j] => i = j
      /\ Shortest(lineage, curDisk, d)
      /\ d' = ShortestLength(lineage', curDisk')
      /\ lineage' \in Seq(Gens)
  <2>1. lineage' \in Seq(Gens)
    BY TypeStep DEF TypeOK
  <2> QED BY <2>1, DurableShortest DEF TypeOK, HistoryInv, DurableLength, ShortestLength
<1> HIDE DEF d
\* Install: the renamed pointer extends the log by a new generation.
<1>1. ASSUME NEW g \in Gens, RenameCurrent(g) PROVE Log!Install(g)
  <2>1. /\ pc[g] = "renameCurrent" /\ UNCHANGED outcome
        /\ lineage' = Append(lineage, g) /\ curDisk' = curDisk \cup {g}
    BY <1>1 DEF RenameCurrent, WriterInv, Uncommitted
  <2>2. \A i \in 1 .. Len(lineage) : lineage[i] # g
    BY <2>1, NotInstalled DEF Installed
  <2>3. \A n \in 0 .. Len(lineage) :
            /\ n \in 0 .. Len(lineage')
            /\ SubSeq(lineage', 1, n) = SubSeq(lineage, 1, n)
            /\ NamedBy(SubSeq(lineage, 1, n)) # g
    <3> TAKE n \in 0 .. Len(lineage)
    <3>1. NamedBy(SubSeq(lineage, 1, n)) # g
      BY <1>0, <2>2, PrefixNamed, GenAssumption
    <3>2. n \in 0 .. Len(lineage') /\ SubSeq(lineage', 1, n) = SubSeq(lineage, 1, n)
      BY <1>0, <2>1
    <3> QED BY <3>1, <3>2
  <2>4. d \in 0 .. Len(lineage) /\ \A m \in 0 .. d - 1 : m \in 0 .. Len(lineage)
    BY <1>0 DEF Shortest
  <2>5. Shortest(lineage', curDisk', d)
    BY <1>0, <2>1, <2>3, <2>4 DEF Shortest
  <2>6. d' = d
    BY <1>0, <2>5, ShortestUnique
  <2> QED BY <2>1, <2>2, <2>6 DEF Log!Install, d
\* Commit: a successful barrier makes the whole log durable.
<1>2. ASSUME NEW g \in Gens, SyncRoot(g), curDisk' = {current}, outcome'[g] = "committed"
      PROVE  Log!Commit(g)
  <2>1. /\ pc[g] = "syncRoot" /\ UNCHANGED lineage
        /\ outcome' = [outcome EXCEPT ![g] = "committed"]
    BY <1>2 DEF SyncRoot, Return, TypeOK
  <2>2. lineage # <<>> /\ lineage[Len(lineage)] = g /\ NamedBy(lineage) = current
    BY <2>1, GenAssumption DEF WriterHistoryInv, HistoryInv, NamedBy
  <2>3. d' = Len(lineage)
    BY <1>0, <1>2, <2>1, <2>2, ShortestWhole, ShortestUnique
  <2>4. Acked' = Acked \cup {g}
    BY <2>1 DEF Acked, TypeOK
  <2> QED BY <2>1, <2>2, <2>3, <2>4 DEF Log!Commit, d, Acked
\* A failed barrier is not told, and changes nothing.
<1>3. ASSUME NEW g \in Gens, SyncRoot(g), ~(curDisk' = {current} /\ outcome'[g] = "committed")
      PROVE  UNCHANGED Log!vars
  <2>1. /\ pc[g] = "syncRoot" /\ UNCHANGED <<lineage, curDisk>>
        /\ outcome' = [outcome EXCEPT ![g] = "uncertain"]
    BY <1>3 DEF SyncRoot, Return, TypeOK
  <2>2. Acked' = Acked
    BY <2>1 DEF Acked, TypeOK, WriterHistoryInv
  <2>3. d' = d
    BY <2>1 DEF d, DurableLength
  <2> QED BY <2>1, <2>2, <2>3 DEF Log!vars, Acked, d
\* PowerLoss: the log is cut at the generation the disk shows.
<1>4. ASSUME PowerLoss PROVE Log!PowerLoss
  <2>1. PICK n \in 0 .. Len(lineage) :
            /\ lineage' = SubSeq(lineage, 1, n) /\ Len(lineage') = n
            /\ current' = NamedBy(lineage') /\ current' \in curDisk
            /\ \A i \in 1 .. n : lineage'[i] = lineage[i]
    BY <1>4, PowerLossPrefix
  <2>2. n \in d .. Len(lineage)
    BY <1>0, <2>1 DEF Shortest
  <2>3. \A i, j \in 1 .. Len(lineage') : lineage'[i] = lineage'[j] => i = j
    BY <1>0, <2>1
  <2>4. curDisk' = {NamedBy(lineage')}
    BY <1>4, <2>1 DEF PowerLoss
  <2>5. d' = n
    BY <1>0, <2>1, <2>3, <2>4, ShortestWhole, ShortestUnique
  <2>6. Acked' = Acked
    BY <1>4 DEF PowerLoss, Acked
  <2> QED BY <2>1, <2>2, <2>5, <2>6 DEF Log!PowerLoss, d, Acked
\* Everything else is invisible in the log.
<1>5. ASSUME ~PowerLoss, \A g \in Gens : ~RenameCurrent(g) /\ ~SyncRoot(g)
      PROVE  UNCHANGED Log!vars
  <2>1. UNCHANGED <<lineage, curDisk>>
    BY <1>5 DEF Next, WriterStep, ReaderStep, WriteComponents, AcquireLock,
       VerifyExpectedCurrent, WriteInventory, SyncTree, RenameGeneration,
       SyncGenerations, WriteCurrentTmp, SyncCurrentTmp, PublishFails, Create,
       Kill, CleanupLock, CleanupRemove, StartOpen, ReadCurrent, StatGeneration,
       LockShared, RereadCurrent, DropLease, curVars, vars
  <2>2. Acked' = Acked
    BY <1>5, AckedStep
  <2> QED BY <2>1, <2>2 DEF Log!vars, DurableLength, Acked
<1> QED BY <1>1, <1>2, <1>3, <1>4, <1>5 DEF Log!Next

\* The publication protocol, with its files, locks, failures and power losses,
\* implements the append-only log of which a durable prefix survives: a
\* committed generation is never behind the durable point.
THEOREM LogRefinement == Spec => ImplementsLog
<1>1. Init => Log!Init
  <2> SUFFICES ASSUME Init PROVE Log!Init
    OBVIOUS
  <2>1. DurableLength = 0
    <3>1. lineage = <<>> /\ curDisk = {NamedBy(lineage)} /\ lineage \in Seq(Gens)
      BY DEF Init, NamedBy
    <3>2. \A i, j \in 1 .. Len(lineage) : lineage[i] = lineage[j] => i = j
      BY <3>1
    <3>3. Shortest(lineage, {NamedBy(lineage)}, Len(lineage))
      BY <3>1, <3>2, ShortestWhole
    <3>4. ShortestLength(lineage, curDisk) = Len(lineage)
      BY <3>1, <3>3, ShortestUnique
    <3> QED BY <3>1, <3>4 DEF DurableLength, ShortestLength
  <2>2. Acked = {}
    BY DEF Init, Acked
  <2> QED BY <2>1, <2>2 DEF Init, Log!Init, Acked
<1>2. IInv /\ HistoryIInv /\ [Next]_vars => [Log!Next]_(Log!vars)
  BY LogStep
<1> QED BY <1>1, <1>2, Invariance, HistoryInvariance, PTL
        DEF Spec, ImplementsLog, Log!Spec
=============================================================================
