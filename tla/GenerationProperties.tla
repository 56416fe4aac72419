------------------------ MODULE GenerationProperties ------------------------
(***************************************************************************)
(* What publication must guarantee, over the state of                      *)
(* GenerationPublication.  Kept apart from the model so that both the TLC  *)
(* instances and the proofs extend it.                                     *)
(***************************************************************************)
EXTENDS GenerationPublication

\* Every variable has the type its declaration states.
TypeOK ==
    /\ dir \in [Gens -> DirState]
    /\ dirDisk \in [Gens -> SUBSET DirState]
    /\ data \in [Gens -> DataState]
    /\ synced \in [Gens -> BOOLEAN]
    /\ tmp \in [Gens -> TmpState]
    /\ current \in Gens \cup {NoGen, Torn}
    /\ curDisk \in SUBSET (Gens \cup {NoGen, Torn})
    /\ lock \in Gens \cup {NoGen}
    /\ leases \in [Gens -> SUBSET Readers]
    /\ cleaning \in Gens \cup {NoGen}
    /\ pc \in [Gens -> WriterPc]
    /\ expected \in [Gens -> Gens \cup {NoGen}]
    /\ outcome \in [Gens -> Outcome]
    /\ rpc \in [Readers -> ReaderPc]
    /\ rgen \in [Readers -> Gens \cup {NoGen}]
    /\ attempt \in [Readers -> 1 .. MaxAttempts]
    /\ lineage \in Seq(Gens)

\* The files of g are all there and match its GENERATION.json.
Verifies(g) == dir[g] = "published" /\ data[g] = "inventoried"

\* verify_current succeeds whenever CURRENT exists: at any point of any
\* publication, after any failure, after any kill and after any power loss,
\* CURRENT names a complete, inventoried, published generation.
CurrentVerifies ==
    current # NoGen => current \in Gens /\ Verifies(current)

\* Every generation was built on the one that CURRENT named when it was
\* installed: verify_expected_current under the publication lock means that
\* no publication is silently overwritten by a writer that had not seen it.
NoLostUpdate ==
    \A i \in 1 .. Len(lineage) :
        expected[lineage[i]] = NamedBy(SubSeq(lineage, 1, i - 1))

\* A generation reported Committed stays in the history of CURRENT through
\* every later power loss, and no value the disk may show is older than it.
CommittedSurvives ==
    \A g \in Gens : outcome[g] = "committed" =>
        \E i \in 1 .. Len(lineage) :
            /\ lineage[i] = g
            /\ \A v \in curDisk : \E j \in i .. Len(lineage) : lineage[j] = v

\* An error from publish_with_outcome means CURRENT was never touched: the
\* failed generation is not, was not and cannot become current.
ErrorLeavesCurrent ==
    \A g \in Gens : outcome[g] = "error" =>
        /\ \A i \in 1 .. Len(lineage) : lineage[i] # g
        /\ g \notin curDisk

\* While a reader holds a lease its generation is neither removed nor
\* changed, however many publications and cleanups have happened since.
LeaseProtects ==
    \A r \in Readers : rpc[r] = "leased" => rgen[r] \in Gens /\ Verifies(rgen[r])

\* Whoever holds the publication lock gives it up: a failing step, a killed
\* process or a power loss never strands it (permanent lock path, kernel lock).
LockNeverStranded == \A g \in Gens : (lock = g) ~> (lock # g)

\* open_current_pinned answers, with a lease or an error, after a bounded
\* number of retries, whatever publishers and cleanup do meanwhile.
PinnedOpenReturns ==
    \A r \in Readers : (rpc[r] = "read") ~> (rpc[r] \in {"leased", "idle"})

\* The length of the shortest history that the disk may show.
DurableLength ==
    CHOOSE n \in 0 .. Len(lineage) :
        /\ NamedBy(SubSeq(lineage, 1, n)) \in curDisk
        /\ \A m \in 0 .. n - 1 : NamedBy(SubSeq(lineage, 1, m)) \notin curDisk

\* GenerationPublication implements the durable log of generations.
Log == INSTANCE PublicationLog WITH
          log <- lineage,
          durable <- DurableLength,
          acked <- {g \in Gens : outcome[g] = "committed"}

ImplementsLog == Log!Spec
=============================================================================
