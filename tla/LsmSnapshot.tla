---------------------------- MODULE LsmSnapshot ----------------------------
(***************************************************************************)
(* save_to_dir and load_from_dir of the LSM index: a snapshot directory    *)
(* whose files are replaced one by one, each atomically.  A save may fail  *)
(* at any of them and leave the index to go on and save again; a process   *)
(* may stop between any two and be followed by one that loads what is      *)
(* there, or by one that starts with an empty index over it.               *)
(***************************************************************************)
EXTENDS LsmProperties

VARIABLES
    manifest,    \* level_counts and tombstone_count, or NoFile
    tombFile,    \* tombstones.bin, or NoFile
    vecFile,     \* [LevelIdx -> level_<i>_vectors.bin], or NoFile
    idFile,      \* [LevelIdx -> level_<i>_doc_ids.bin], or NoFile
    matching,    \* [LevelIdx -> BOOLEAN]: both files are of one save
    saving,      \* the file that the save in progress writes next, or NotSaving
    saves,       \* how many saves have begun (bounded by MaxSaves)
    sealed       \* history: what the directory is meant to hold, or Unsealed

diskVars == <<manifest, tombFile, vecFile, idFile, matching>>
snapshotVars == <<lsmVars, diskVars, saving, saves, sealed>>

\* A vectors file is the set of copies it was written from and a doc_ids file
\* the set of their ids; NoFile when missing.  MaxSaves is a bound of the model.
CONSTANTS NoFile, Unsealed, MaxSaves

\* What manifest.json holds: the size of every level and of the tombstones.
IsManifest(m) ==
    \E n \in LevelIdx : m \in [counts : [0 .. n -> Nat], tombstone_count : Nat]

ASSUME SnapshotAssumption ==
    /\ ~IsManifest(NoFile)
    /\ \A file \in (SUBSET Ids) \cup (SUBSET Copies) : file # NoFile
    /\ Unsealed \notin [Ids -> Vecs \cup {Missing}]
    /\ MaxSaves \in Nat

NotSaving == [file |-> "none", level |-> 0]
At(file, i) == [file |-> file, level |-> i]
SavePoints == {NotSaving, At("manifest", 0), At("tombstones", 0)}
                \cup {At(f, i) : f \in {"vectors", "doc_ids"}, i \in LevelIdx}

SnapshotInit ==
    /\ Init
    /\ manifest = NoFile
    /\ tombFile = NoFile
    /\ vecFile = [i \in LevelIdx |-> NoFile]
    /\ idFile = [i \in LevelIdx |-> NoFile]
    /\ matching = [i \in LevelIdx |-> FALSE]
    /\ saving = NotSaving
    /\ saves = 0
    /\ sealed = Unsealed

\* validate_snapshot_shape refuses more levels than max_levels.
BeginSave ==
    /\ phase = Idle /\ saving = NotSaving
    /\ depth <= MaxLevels
    /\ saves < MaxSaves
    /\ saving' = At("manifest", 0)
    /\ saves' = saves + 1
    /\ UNCHANGED <<lsmVars, diskVars, sealed>>

WriteManifest ==
    /\ saving = At("manifest", 0)
    /\ manifest' = [counts |-> [i \in 0 .. depth - 1 |-> Cardinality(levels[i])],
                    tombstone_count |-> Cardinality(tombstones)]
    /\ sealed' = Unsealed
    /\ saving' = At("tombstones", 0)
    /\ UNCHANGED <<lsmVars, saves, tombFile, vecFile, idFile, matching>>

\* Mutant: an empty set of tombstones is not written.
WriteTombstonesIfAny ==
    /\ saving = At("tombstones", 0)
    /\ tombFile' = IF tombstones = {} /\ tombFile # NoFile THEN tombFile ELSE tombstones
    /\ saving' = At("vectors", 0)
    /\ UNCHANGED <<lsmVars, saves, manifest, vecFile, idFile, matching, sealed>>

WriteTombstones ==
    /\ saving = At("tombstones", 0)
    /\ tombFile' = tombstones
    /\ saving' = At("vectors", 0)
    /\ UNCHANGED <<lsmVars, saves, manifest, vecFile, idFile, matching, sealed>>

WriteVectors(i) ==
    /\ saving = At("vectors", i)
    /\ vecFile' = [vecFile EXCEPT ![i] = levels[i]]
    /\ matching' = [matching EXCEPT ![i] = FALSE]
    /\ saving' = At("doc_ids", i)
    /\ UNCHANGED <<lsmVars, saves, manifest, tombFile, idFile, sealed>>

\* Files of levels deeper than the index has now stay from earlier saves.
WriteDocIds(i) ==
    /\ saving = At("doc_ids", i)
    /\ idFile' = [idFile EXCEPT ![i] = IdsOf(levels[i])]
    /\ matching' = [matching EXCEPT ![i] = TRUE]
    /\ IF i + 1 < depth
       THEN saving' = At("vectors", i + 1) /\ UNCHANGED sealed
       ELSE saving' = NotSaving /\ sealed' = Contents
    /\ UNCHANGED <<lsmVars, saves, manifest, tombFile, vecFile>>

Save ==
    \/ WriteManifest \/ WriteTombstones
    \/ \E i \in LevelIdx : WriteVectors(i) \/ WriteDocIds(i)

\* A write of save_to_dir returns its error: write_atomic fails no later than
\* at its rename, so the file is as it was, and the index goes on with half a
\* save in the directory.
AbortSave ==
    /\ saving # NotSaving
    /\ saving' = NotSaving
    /\ UNCHANGED <<lsmVars, diskVars, saves, sealed>>

\* The levels that files written by different saves may be read as: the ids
\* of one file with the vectors of the other, in whatever order they are.
Pairings(i) ==
    IF matching[i] THEN {vecFile[i]}
    ELSE {{[id |-> id, vec |-> f[id].vec] : id \in idFile[i]} :
             f \in {g \in [idFile[i] -> vecFile[i]] :
                       {g[id] : id \in idFile[i]} = vecFile[i]}}

\* Every size the manifest states is the size of the file found.
Loadable ==
    /\ manifest # NoFile
    /\ tombFile # NoFile
    /\ Cardinality(tombFile) = manifest.tombstone_count
    /\ \A i \in DOMAIN manifest.counts :
          /\ vecFile[i] # NoFile /\ idFile[i] # NoFile
          /\ Cardinality(vecFile[i]) = manifest.counts[i]
          /\ Cardinality(idFile[i]) = manifest.counts[i]

\* A process starts from the directory, after the last one stopped anywhere:
\* levels are read, graphs rebuilt, and live_level recomputed.
Load ==
    /\ Loadable
    /\ LET last == Cardinality(DOMAIN manifest.counts) - 1
       IN  \E l \in [LevelIdx -> {{}} \cup UNION {Pairings(i) : i \in 0 .. last}] :
              /\ \A i \in LevelIdx : IF i <= last THEN l[i] \in Pairings(i) ELSE l[i] = {}
              /\ \A i \in 1 .. last : Buildable(l[i])
              /\ levels' = l
              /\ depth' = last + 1
    /\ tombstones' = tombFile
    /\ live_level' = [id \in Ids |-> RecomputedLevel(id)']
    /\ phase' = Idle
    /\ saving' = NotSaving
    /\ UNCHANGED <<diskVars, saves, sealed>>

\* A process starts with LsmIndex::new beside the directory, whatever it holds
\* and whether or not it can be loaded, after the last one stopped anywhere.
StartEmpty ==
    /\ levels' = [i \in LevelIdx |-> {}]
    /\ depth' = 1
    /\ tombstones' = {}
    /\ live_level' = [id \in Ids |-> None]
    /\ phase' = Idle
    /\ saving' = NotSaving
    /\ UNCHANGED <<diskVars, saves, sealed>>

SnapshotNext ==
    \/ Next /\ saving = NotSaving /\ UNCHANGED <<diskVars, saving, saves, sealed>>
    \/ BeginSave \/ Save \/ AbortSave
    \/ Load \/ StartEmpty

SnapshotSpec == SnapshotInit /\ [][SnapshotNext]_snapshotVars

-----------------------------------------------------------------------------
\* A restart from a snapshot whose save ran to its end holds exactly what the
\* index held when it was saved, whatever earlier saves left in the same
\* directory: larger ones, ones that failed before the index changed, and ones
\* of a process that stopped and could not be restarted from them.
LoadRestoresSealed == [][Load /\ sealed # Unsealed => Contents' = sealed]_snapshotVars

\* A completed save is always accepted: its counts match its files and every
\* graph level can be rebuilt.
SealedIsLoadable ==
    sealed # Unsealed =>
        /\ Loadable
        /\ \A i \in DOMAIN manifest.counts : matching[i] /\ (i > 0 => Buildable(vecFile[i]))
=============================================================================
