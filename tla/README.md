# Verification of vicinity

TLA+ specifications of the stateful core of vicinity, a Rust library of
approximate nearest neighbour indexes, with TLC configurations that check them
on small instances and TLAPS proofs for every value of the constants.

Most of the library builds a graph once and then only reads it; what a search
finds there is geometry, measured as recall, and is not what these modules are
about. They are about the parts that *change*: files that are published and
replaced while others read them, indexes that take updates and reorganise
themselves, caches that are filled and evicted. Paths are relative to the
root of the repository; the crate's own code is under `src/`.

## 1. Inventory

### Parts with state and an order of events

| Part | State | Operations | What is hard | What must hold |
|---|---|---|---|---|
| Generation publication, `src/persistence/generation.rs` | a directory tree: staging and published generations, `CURRENT`, the publication lock, one lease file per generation | `GenerationWriter::create`, `path`, `publish`, `publish_with_outcome`; `open_current`, `open_current_pinned`, `verify_current` | writers and readers are processes; any system call can fail; a process can die and the machine lose power between any two; cleanup is left to an operator | `CURRENT` always verifies; no publication lost; an error means `CURRENT` was not touched; a lease protects its files |
| LSM index, `src/streaming/lsm.rs` | a flat buffer L0, levels with one HNSW graph each, tombstones, `live_level` | `insert`, `delete`, `compact`, cascades, `force_merge_all`, `search`, `save_to_dir`, `load_from_dir` | several copies of an id on several levels; graph builds that fail; a save of many files into a directory that is reused | it is a map from ids to newest vectors; a restart restores it |
| Cached positional reads, `src/file_io.rs` | a bounded map from blocks to slots, reference bits, a CLOCK hand | `CachedFile::read_exact_at` | a read fails half way through filling a slot; a short last block; budgets that are not multiples of the block | what is read is the file; no slot is lost; the budget holds; reads end |
| Write buffer and streaming coordinator, `src/streaming/{buffer,coordinator,ops}.rs` | buffered inserts, ids to delete, their dimension | `insert`, `delete`, `update`, `compact`, `search`, `buffer_*`, `inner_mut` | an id lives in the buffer and in the main index, whose distances a search merges; compaction is applied in hash order and its errors are swallowed | a call changes one id; compaction changes none; a search finds the nearest in both places |
| In-place index, `src/hnsw/inplace.rs` | nodes in reusable slots, a free list, in- and out-neighbours, an entry point; `MappedInPlaceIndex` adds two id maps | `insert`, `delete`, `search`, save and load | a refused insert after the delete that makes room for it; slots that are given to other ids; an entry point that is deleted | maps and slots name each other; every live node can be found |
| Crash-safe store, `src/store.rs` | a segmented store with a write-ahead log (the external crate segstore), one cached graph per segment and for the live buffer, graph sidecars on disk | `UpdatableIndex::{open, add, extend, delete, checkpoint, compact, compact_tiers, reclaim, search}`; `SnapshotIndex::{open, search}` | a graph that outlives the segment it was built over; a crash between a checkpoint and its sidecars | no deleted id or old vector comes back through a cache |
| HNSW segments, `src/persistence/hnsw.rs` | six files, an optional vector sidecar, and a header with a commit byte | `write_hnsw_index`, `write_hnsw_index_aos`, `load`, `load_index` | a re-save stops at any call, and a power loss undoes what was not synced | what a reader accepts is of one save; a save that returned Ok is kept |
| FreshGraph, `src/fresh_graph/mod.rs` | vectors, neighbours, inbound counts, tombstones, entry point | `add`, `build`, `insert`, `delete`, `compact`, `search`, `save_to_dir`, `load_from_dir` | delete and re-insert cycles; in-degree counts kept in five places; a snapshot of six files | no node loses its last edge; a rebuild reaches every live node; searches start at a live node |
| HNSW, `src/hnsw/{graph,construction,tombstones}.rs` | vectors with their layers, a list of neighbours per node and layer, tombstones, an entry point | `add_slice`, `build`, `delete`, `delete_with_repair`, `delete_batch_with_repair`, `search`, save and load | a build that renumbers its nodes; deletes before and after it; repairs around nodes that are gone, layer by layer | no list outgrows its cap; no edge leads to a removed node; searches start where there are edges, and find what is live |

How they interact. The LSM index and the coordinator are two alternatives for
streaming updates: the first owns HNSW graphs that it rebuilds, the second
wraps any `IndexOps`, in the library the `MappedInPlaceIndex`. The searchers
over files (HNSW segments, IVF-PQ files) each own a `CachedFile` over an
immutable file. Generation publication is what a caller puts several index
files into, so that they appear together; its readers hand the directory they
pinned to those searchers. The store builds an HNSW graph over each of its
segments and writes it as one file, a sidecar, next to the segment; it does not
use the HNSW segment files. Its snapshots are other processes that read that
directory and write sidecars into it. Nothing inside one index is concurrent,
but for the parallel build of HNSW: methods that change it take `&mut self`. Concurrency is between
processes, at the file system.

### Parts without

The quantized and filtered HNSW variants, Vamana, NSW, SNG,
NSG, PiPNN, EMG, FINGER, the IVF indexes, DiskANN, filtered search, trees,
hashing, sparse search and the numeric kernels are functions of data that is
fixed when they run. `persistence/wal.rs` and `persistence/directory.rs`
forward to the external durability crate. They are listed in `PROJECT.json`
with the reason for leaving each out.

## 2. Modules

| Component | Specification | Properties | Instances | Proofs |
|---|---|---|---|---|
| Generation publication | `GenerationPublication` | `GenerationProperties`; abstract `PublicationLog` | `MCGenerationPublication` | `GenerationProofs` |
| LSM index | `LsmIndex`, with its snapshots `LsmSnapshot` | `LsmProperties`; abstract `VectorMap` | `MCLsmIndex`, `MCLsmSnapshot` | `LsmProofs` |
| Cached reads | `BlockCache` | `BlockCacheProperties` | `MCBlockCache` | `FileProofs` |
| Coordinator and its main index | `StreamingIndex` over `MappedIndex` | `StreamingProperties` | `MCStreamingIndex` | `StreamingProofs` |
| In-place graph | `InPlaceGraph` | in the same module | `MCInPlaceGraph` | `InPlaceProofs` |
| HNSW segments | `HnswSegment` | in the same module | `MCHnswSegment` | `FileProofs` |
| Crash-safe store | `UpdatableStore` over `SegmentStore`; `StoreSnapshot` beside it | `StoreProperties`, `StoreSnapshot` | `MCStore` | `StoreProofs` |
| FreshGraph | `FreshGraph` | `FreshProperties` | `MCFreshGraph` | `FreshProofs` |
| HNSW | `HnswIndex` | `HnswProperties` | `MCHnswIndex` | `HnswProofs` |

Properties are apart from the models so that both the instances and the
proofs extend them. A definition whose comment begins with *Mutant* is not part
of a specification: it is a definition with a plausible bug in it, to be put in
the place of the right one to see that a property notices.

### GenerationPublication

A writer is consumed by the one publication it makes and generation ids are
unique, so a writer and its generation are one element of `Gens`. `pc` says
which system call of `publish_with_outcome` comes next, and each that matters is
an action: lock, compare `CURRENT` with what `create` saw, write the inventory,
sync the tree, rename the staging directory, sync `generations/`, write, sync
and rename the temporary pointer, sync the root. `PublishFails` is the error
return of any step before the commit point; the last sync fails into
`uncertain`. `Return` drops the lock, as the guard does. Readers follow
`open_current_pinned` call by call: read, stat, shared lock, read again, retry
up to `MaxAttempts` times (3 in the code).

A file or an entry of a directory has a live value and a set of values that a
power loss may leave (`dirDisk`, `curDisk`); a sync of the directory reduces the
set to the live value. Files that were not synced may be torn. What is assumed:

- changes of the root directory's entries reach the disk in the order they were
  made (a journaling file system), so that a power loss shows a prefix of the
  history of `CURRENT`;
- the caller has written all component files before it publishes, which the code
  cannot see;
- cleanup (`CleanupLock`, `CleanupRemove`) is not in the code. It follows
  `docs/generation-publication.md`: under the exclusive lease, and only a
  generation that was superseded durably. Without the last condition a power
  loss could bring back a `CURRENT` whose files were removed;
- the kernel drops an advisory lock with its file handle.

`PublicationLog` is what a user is promised: an append-only log of generations of
which a durable prefix survives. It is implemented with `log <- lineage`, and
the length of the durable prefix read off `curDisk`.

### LsmIndex and LsmSnapshot

A level is the set of the copies (id and vector) stored in it; `live_level` hides
all but the newest copy of an id. `insert` and `delete` are one step. A call that
compacts is several: `MergeL0`, then one `CascadeCompact` per level, no other
call in between. `MergeInto` is `merge_into_level` with the drain of the source
by its caller. A vector in `Rejected` is one that `add_slice` refuses (not finite,
or of zero norm under the cosine metric) while `insert` lets it into L0; a
build that meets one fails. Distances are a constant; inside one level
search is exact, and a graph level is asked for its K nearest *before* the
superseded ones are dropped, as in the code.

`LsmSnapshot` adds the directory: a manifest, a file of tombstones and two files
per level, each replaced atomically, in the order of `save_to_dir`. Three things can end a save early. A
write fails (`AbortSave`): `write_atomic` fails no later than at its rename, so that file is unchanged, `save_to_dir`
returns the error, and the same index, with half a save in the directory, may change and save again. The process
stops, which changes no file: then another one loads the directory (`Load`, at any point of a save, if it can be
loaded), or starts with an empty index over it (`StartEmpty`, whether it can be loaded or not) and may save into it. A
doc-id file and a vector file of two different saves may be paired in any order of their rows (`Pairings`).
`MaxSaves` bounds the number of saves that begin.

`VectorMap` is a map from ids to vectors, with one exception that the code needs:
`Lose`, when a full rebuild meets a refused vector (section 4).

### BlockCache

The byte at position p of the file is the number p, so a wrong byte is a visible
one. A read is taken lookup by lookup: hit, allocate, or sweep the CLOCK hand to a
victim; fill; copy. A fill may fail with any number of bytes already overwritten.
The file is immutable, which is what index files are once written. Requests
that are larger than half the cache, or made of a cache without capacity, bypass it.

### MappedIndex and StreamingIndex

`MappedIndex` is the record of `MappedInPlaceIndex` (two id maps, slots, free
list) with its operations as functions of the record. Its edges and entry point are those of
`InPlaceGraph` and not composed with it; a search of it is exact. `StreamingIndex` has one action per call of
`StreamingCoordinator`, and a compaction drains the buffer and applies it one id
at a time in any order, deletes before inserts. `DimOf` gives vectors dimensions: the buffer
takes that of the first vector it ever saw, which need not be that of the main
index. Calls of other ids do not interleave with a compaction, which borrows the coordinator mutably. `InnerInsert` and `InnerDelete`
are `inner_mut()`, and the index before it was wrapped.

A search changes nothing, so it is an operator of the state and of what it reads of the configuration (`Configs`: the
metric of the buffer, and whether to merge), in `StreamingProperties`. It fails unless that metric is the one the main
index reports (`Answered`). `MappedInPlaceIndex` does not override `IndexOps::distance_metric` and so reports the
default, cosine (`IndexMetric`); what it computes is the L2 distance (`MainResults`). A result carries the distance that
its side computed, and the merge compares these numbers, as the code does. Equal distances are in no fixed order in the code (an unstable sort over
the order of a hash map); the model orders them by id.

### InPlaceGraph

The graph of `InPlaceIndex`. A list of neighbours is a count for each slot, since the code can
store an edge twice; the order in a list is left open, and with it which of several equally near
or far neighbours an operation takes. `insert` is one step that searches, selects neighbours and
decides about the edges back (`BackEdge`), then a `Link` per neighbour; `delete` is a step that
takes the edges to the node away and finds replacements, a `Relink` for each, and
`FinishDelete`; `repair` a step per node with an edge to an empty slot. No other call comes in
between, since all three take `&mut self`. A limit on in-neighbours is met by not recording an edge
(`Track`), as in the code. What is abstracted: distances are any function of two vectors; the beam
is as wide as the graph, so a search meets everything the entry point leads to (`Reachable`, the
least closed set); the alpha of the diversity test is at least 1; which free slot a node gets and
the order of repairs are left open, a superset of what the code does.

### HnswSegment

A file is the number of the save that wrote it, and a header is the number of its
save with the commit byte. A save is one action per call of the `Directory` that
changes something: the uncommitted header, the deletion of an older sidecar, each
sealed file, the sidecar, the committed header. Each may fail without effect
(`Abandon`, which is also the death of the process) or, when it renames, with the
rename done and its sync failed (`SealHalf`, `WriteHeaderHalf`). As above, a file
has a live value and the set of those a power loss may leave. Assumed:

- `durable_sync_file` and `atomic_rename_durable` do what `persistence/directory.rs`
  documents, `atomic_write` syncs as `persistence/hnsw.rs` says, and a sync of
  the directory makes all earlier changes of its entries durable; these calls are
  in the external durability crate;
- one writer at a time and no reader during a re-save, which the writer's
  documentation demands; the directory of the segment itself is durable;
- the reader's test is the commit byte. Headers of format 0 and 1, which have
  none, are not modelled: the writer no longer produces them.

### SegmentStore, UpdatableStore and StoreSnapshot

The segmented store is the external crate segstore. `SegmentStore` states what `store.rs`, its comments
and its tests rely on, and no more: a segment never changes and its number is not given again; a
buffer that reaches the flush threshold is sealed as a segment; what a call logged survives a
restart, and replaying the log gives the state again; a checkpoint seals the buffer, and merges end
with a checkpoint. An id has at most one copy in the buffer, and a tombstoned one may stay there.

A graph is the set of the copies it was built over, without those that HNSW refuses. `UpdatableStore`
has an action for every method of `UpdatableIndex`, and beside it the same call failing:
`WriteFails` after the graphs were dropped, `ExtendFails` after any part of a batch, `CompactFails`
with the buffer already sealed or not. Every file that is written or deleted may fail to be. `Reopen`
is a stop at any point and the next start: memory is empty, the sidecars are what they were. A
batch is applied copy by copy. `live_epoch` is left out, as it changes exactly when the graph over
the buffer is cleared. A sidecar of another recipe, or one that does not decode, is `Absent`. A
round of `compact_tiers` or `reclaim` may merge any segments.

`StoreSnapshot` puts a `SnapshotIndex` of another process beside it: it reads the manifest of the
last checkpoint, and for each segment loads the sidecar or builds the graph and writes it, late
(`SnapshotWrite` is a step of its own) or never. Writer and snapshot share nothing but the files.

### FreshGraph

Lists of neighbours are bags, since one of the code's pushes can repeat an edge, and the counts of
in-edges are a variable of their own, adjusted where the code adjusts them. `build`, `insert` and
`compact` are loops over nodes; `stage` says where in one a call is: pruning a node's list, adding
reverse edges (`LinkBack`), connecting what the entry point does not reach (`Bridge`). Of equally
near nodes any may be taken. What is abstracted: the beam is as wide as the index, with which the
search is exact, and visits `Reached`, the least closed set; `build` starts from the brute-force neighbours, as it does up to 2000 vectors, so
the random start is left out; a stored edge is repeated at most `MaxRepeats` times. Saving and loading appear
as the test that the loader makes of a list (`Loadable`), not as files.

### HnswIndex

Lists are sets, since every push is preceded by a look whether the node is there, and an id stands
for its vector. `build` is `BeginNode`, `Descend`, `Connect`, `LinkBack` for each neighbour in order,
`EndLinks`, and `EndBuild`, which renumbers the nodes with everything that names them
(`reorder_for_locality`). A repair is `BeginRepair`, a `RepairLayer` for each layer its nodes are in,
`EndRepair`. `Diverse` is what the selection of neighbours computes, as a fixed point; `Selected` adds the backfill.
`Load` is a save and a load, which keeps all but the entry point; before `build` that is not read.
Before `build` a delete with repair is a tombstone, as in the code.

What is abstracted: a beam is as wide as the index, except in the descent of `build`, which keeps one
candidate; of equally near nodes any may be taken; the new order is any in which a node comes after
one that lists it, which includes the breadth-first one; distances are symmetric, as all metrics of
the index are. Left out: the parallel build, edges laid for filters, the compact and compressed
layers (read only, and refused by the repairs), the other seed and diversification strategies, and
narrower beams, with which what a search finds is a matter of recall.

## 3. What the runs check

The type invariants, `OneCopyPerLevel`, `Coherent`, `WithinBudget` and `PersistedCurrent` are not
checked by these runs: they are proved for all constants (section 5), and stated in the modules of properties.

### Generation publication

| Run | Bounds | Result |
|---|---|---|
| `generation_safety` | 3 writers, 1 reader, 2 attempts, symmetry on both | five invariants; implements `PublicationLog` |
| `generation_liveness` | 2 writers, 1 reader, 2 attempts | two liveness properties |

Three writers are what it takes for one to build on a generation, one to
supersede it and one to have started before either; a reader that retries once
has met every case of the loop. Writers cannot be
restarted (a `GenerationWriter` is consumed), but readers may always open again, so
deadlock is checked.

Fairness (`FairSpec`): weak fairness on the steps of each writer inside a
publication and on those of each reader inside an open, that is, system calls
return. Nothing makes a caller publish, cleanup run, or a lease be dropped. No
call of the code waits for a lock (`try_lock`), which is why weak fairness is
enough and `PinnedOpenReturns` is true: it needs the limit on retries and the
lock that fails in place of waiting.

### LSM index

| Run | Bounds | Result |
|---|---|---|
| `lsm_safety` | 3 ids, 3 vectors of which one refused, buffer of 2, ratio 1, 3 levels, K = 2 | live levels, exact search, implements `VectorMap` |
| `lsm_snapshot` | 2 ids, 2 vectors of which one refused, 2 levels, 2 saves | saves that fail or stop at any file, and a second save, by the same or by another index, over what is left |
| `lsm_rebuild_failure` | 2 ids, 2 vectors of which one refused | violation: `LiveLevelHoldsCopy` |

Three levels are L0 and a source and a target that are both graphs: the
second merge meets a superseded copy below it. Three ids overflow a buffer of two while
one is stored deeper. With ratio 1 cascades run to the last level. Snapshots need a smaller
instance, because a directory remembers an earlier save beside the current index; two ids on two
levels are enough for files of saves with equal counts and different content. Two saves are one that
was cut short at any file, or complete and larger, and one over what it left, with any calls, a restart or a
new index in between; mixtures of three are left to the theorems, which hold for any number.
`LoadRestoresSealed` speaks of saves that ran to their end. A restart from a
*mixture* that passes the loader's size checks is allowed by the code and by the
model, and no property excludes it: its content is that of no save (section 4).

### Cached reads

`block_cache`: a file of 5 bytes in blocks of 2, so the last block is short; a
budget of 5 bytes, so two slots for three blocks; reads of up to 3 bytes at every
offset up to the end of the file, so requests within a block, across two, past
the end and too large for the cache. `ReadEnds` assumes weak fairness on
the step of the read in progress: it is a loop of the calling thread, and a
positional read of a file returns.

### Coordinator

| Run | Bounds | Result |
|---|---|---|
| `streaming_safety` | 3 ids, 3 vectors of which one has another dimension, two metrics that order them in opposite ways, a compaction at 2 inserts or 2 deletes, K = 2 | three invariants, three action properties |

Three ids are what it takes for a slot to be freed by one id, taken by a
second and met by the stale entry of the first while a third is compacted. The properties
that hold have preconditions where the unconditional statement is false (section 4):
`OnlyRefusalBreaksMaps` says that the one step that lets the maps of ids and slots
disagree is the re-insert of an id whose vector the main index refuses;
`CompactionKeepsView` excludes ids already left dangling. Each precondition is met by most states of the run.

`SearchExact` quantifies over all configurations. It says what a search that is answered finds: the nearest of
the copies in buffer and main index *by the distances the two sides compute*; an id in both places once, with the nearer copy;
and at most one place less for each hidden vector of the main index beyond those fetched in excess (`n + Hidden <= Fetched`).
That these are the K nearest of what the coordinator holds by *one* metric it promises only where one side alone has
something to answer, because otherwise it is not so (section 4). With K = 2 and a delete beside an empty buffer, one place is lost and the
other must still be the nearest.

### HNSW segments

`hnsw_segment`: the six files of the code and three saves, each with or without
the sidecar. Three saves are one that was accepted, one that stopped and one that
has to clear up after it; the number of a save is all that tells its files apart,
so a fourth adds no new mixture. When no save is left a power loss is still
possible, so deadlock is checked here.

### In-place graph

| Run | Bounds | Result |
|---|---|---|
| `inplace_safety` | 4 slots, 8 calls, 3 points of a line, out-degree 2, 2 in-neighbours, symmetry on slots | one invariant, two action properties |

A list of in-neighbours at its limit of 2 takes a third node with an edge to the same one, and
losing that edge takes a fourth call to delete it; the slot is then free for another node to
take, which leaves three calls for repairs. With an out-degree of 2 edges are added, skipped and
replaced. `OnlyFullListsLoseTrack` is about every step that starts with all edges tracked; it says
that the limit is the *only* cause. The number of calls is bounded (`MaxCalls`),
so in this configuration, and in no other, the absence of a next step is not
an error.

### Store

`store`: 2 ids, 2 vectors of which HNSW refuses one, buffers of 2, at most 2 segments, batches of two
ids, a writer that fails and restarts at any point, and a snapshot beside it. Two segments are one that is
merged away, or loses a copy, and one that takes its place; a sidecar of an earlier state needs two
ids, so that it can hold one of them too many or too few. With a third segment and no batches the
properties hold as well. `SegmentGraphsCurrent` is the property the caches exist under: whatever was
dropped, kept by a failed delete, written late by a snapshot or found after a restart, what a search uses
is over the live copies. `OnlyErrorsLeaveBufferStale` names the two error returns after which that
is not true of the buffer.

### FreshGraph

`fresh_safety`: 2 ids, 3 vectors on a hexagon, where distances tie, lists of 2, 4 nodes. Four nodes with
lists of two make lists overflow, prune and evict; the same id inserted again leaves tombstones to
compact. One repeated edge is enough for counts to go wrong and for a list past its limit, and the
properties say that it is the only cause: in a step that starts without one, counts stay exact
(`InexactOnlyByDuplicates`), and a list the loader would refuse has a repeated edge (`RefusedOnlyForDuplicates`).

### HNSW

`hnsw_index`: five points of a line on two layers, `m` = 2 and `m_max` = 3, two ids deleted, in any way
the interface allows, before or after `build`, with a save and load at any time. Five nodes
on layer 1 are what it takes for a full list there to lose a neighbour and find two nodes to take its place, so
that it would outgrow its cap if it were refilled to that of layer 0. `SmallIndexExact` is about up to four nodes, where layer 0 has
room for every edge and a search must be exact; the fifth makes layer 0 lose edges.

## 4. Disagreements between the code and what is said of it

`lsm_rebuild_failure` is a run that expects a violation: `force_merge_all` clears every level, then
fails on a vector that `insert` had accepted; all vectors are lost and `live_level` still names them, where
its documentation says "Level holding the newest copy of each live ID".

The others were met while modelling. The models contain each of them, and no run turns on it.

*LSM.* A vector in L0 that HNSW refuses makes every later compaction fail, so L0 grows and each insert past
the capacity reports an error after having stored its vector. Tombstones outlive the merge into the
deepest level, where the module documentation of `lsm.rs` says they are collected; `max_levels = 1`
gets two levels after a compaction. After a save that failed or stopped between two files, `load_from_dir` accepts the
mixture if its sizes agree: ids of one save with vectors of another.

*Coordinator and in-place index.* A re-insert that the main index refuses leaves its id pointing to a
freed slot, later to someone else's vector. The search comment in `coordinator.rs` says "By default, both use
cosine distance", and its check of the metrics is there because "mismatched metrics silently produce wrong merged rankings". But
`MappedInPlaceIndex` reports cosine and ranks by L2 (`inplace.rs`, `distance_to_vector`): a default search passes the check and merges
cosine distances of the buffer with L2 distances of the main index, and the configuration that would agree with
it, L2, is refused by the check. A search may return the vector that a buffered update
replaced, when the old one is nearer. Deleting a buffered update brings the older vector back. An update that
the main index refuses has deleted the old vector. `delete` sets no entry point when the old one has
no live neighbour left, though other nodes remain: searches return nothing, and what is saved is
refused by the loader. The edge a delete adds can make an out-degree exceed `max_degree`, and the
target of a replaced edge keeps the record of it.

*Store.* A vector that HNSW refuses (not finite, or of norm zero) is accepted by `add`, never found, and makes
the sidecar of its segment fail the comparison of ids for ever, so that it is rebuilt at each start. A
snapshot may miss vectors that were live at its checkpoint, once the writer has deleted or replaced
them and rewritten the sidecar; `SnapshotIndex::search` promises "The `k` nearest neighbors of `query` over the live
checkpointed corpus". A failed `extend`, `checkpoint` or merge may leave the graph over the buffer stale.

*FreshGraph.* The back edge of `ensure_connectivity` is pushed without a look at the list: repeated edges make the counts drift
and the list grow with every compaction, until `load_from_dir` refuses the
snapshot for having too many neighbours. When every neighbour in a full list is protected, plain
pruning decides and may drop the last edge into several of them, against the invariant that the test
`delete_reinsert_cycles_preserve_reachability` describes; nor does an in-degree of one make a node reachable.
Replacing the only live node leaves the entry point on its tombstone. The documentation of `rng_prune`
has the factor alpha on the other side of the comparison than the code's `alpha * cand_dist`. Six
files are replaced one by one, and the loader compares only lengths and a count, so a save that stops
can leave a mixture of two that loads.

*HNSW.* After the top node was deleted with repair, saving and loading brings it back as the entry
point: it is computed from the layers alone, and every search then ends at a node without edges
(`EntryRemovedOnlyByLoad` says that nothing else does this). A repair gives a node new out-edges but none back, so a live node whose
in-edges all came from removed ones is found no more; one batch delete of two of the five points is
enough, and `delete_with_repair` says it is to "maintain monotonic reachability". `add_metadata` after loading is refused as
unsupported, though `load_from_reader` says to call it then. A single delete refills upper layers to
`m_max`, not `m`; as it adds at most one node for one lost, no cap is passed. The
comment of the parallel build that only the nodes of a batch can have grown past the cap forgets the
nodes that were laid before the first batch.

*Generations.* A failed sync of the temporary pointer leaves that file behind (`write_current` removes it only
after a failed rename).

## 5. What is proved

All theorems hold for every value of the constants under the named assumptions of
the modules (`GenAssumption`, `LsmAssumption`, `MissingAssumption`, `CacheAssumption`,
`MappedAssumption`, `StreamingAssumption`, `SegmentAssumption`, `InPlaceAssumption`, `StoreAssumption`, `UpdatableAssumption`,
`SnapshotAssumption`, `SearchAssumption`, `FreshAssumption`, `HnswAssumption`, `DistSymmetric`): special values are none of the
ordinary ones, and sizes are naturals, positive where a division or a level needs it. `SearchAssumption`
is what the two search theorems need: ids are integers (`u32` in the code; they break ties in the model), distances, of
all metrics, come from one totally ordered scale (integers: only their order is used), and `K` is a natural. `SnapshotAssumption` keeps a
missing file and an unsealed directory apart from any that was written. `IsFiniteSet(Ids)` is assumed for the LSM index,
whose manifest counts the copies of a level.

**GenerationProofs**: `TypeCorrect`, `CurrentVerifiesAlways`, `LeaseProtectsAlways`, for any number of
writers, readers and attempts. None is inductive alone. `CurrentVerifies` must know, at
each step of a publication, what has been synced so far (`WriterInv`), that at most the lock's
holder is at such a step (`LockInv`), and that every value the disk may still show for `CURRENT` is
durable and complete (`PointerInv`), or a power loss would break it. `LeaseProtects` must know that
cleanup never holds a generation that is current, leased, or still reachable from the disk (`CleanInv`), and that a reader
that has the shared lock and has re-read the same pointer pinned a whole generation (`LeaseInv`).

`NoLostUpdateAlways`, `CommittedSurvivesAlways` and `ErrorLeavesCurrentAlways` are about the order of generations, and rest on
a second invariant (`HistoryIInv`), proved on top of the first. From its check of `CURRENT` to its rename, a writer's expected
generation is the current one, so that each generation of the lineage expected the one before it, and none
occurs twice (`HistoryInv`). Whatever the disk may still show for `CURRENT` is a member of the lineage, so that a power loss cuts the
lineage and never forks it (`PowerLossPrefix`), and cuts behind what was acknowledged. `LogRefinement`, that the
protocol implements `PublicationLog`, maps the durable prefix to the shortest lineage a power loss could leave. That there is a
shortest is the least element of a set of naturals, and the steps to look at are the rename, which adds a longer lineage to those
the disk may show, the two syncs of the root directory, after which it shows only that one, and a power loss.

**LsmProofs**: `TypeCorrect`, `OneCopyAlways`, `LiveLevelsAgreeAlways`, and `MapRefinement`, that the index
implements `VectorMap`. The invariant adds to types and unique copies: a stored id without a
tombstone is live no deeper than any copy of it (`NewestAbove`), and stored where it is live
(`LiveStored`). With them the live level is the shallowest one that holds the id, which is what a
restart computes; and a merge moves the visible copy of an id and no other.
`LiveStored` speaks of stored ids only, since a failed `force_merge_all` leaves ids live that are stored nowhere.

`SealedIsLoadableAlways` and `LoadRestores` are about the index beside its snapshot directory. A save takes
many steps, writes its manifest first, and may fail or be cut short at any of them, or go over the files of an earlier one:
larger, half written, of an index that has changed since, or of one that is gone. `SnapshotIInv` says how far the files agree
with the index while a save is in progress, and of other directories only what a sealed one holds, so that a save that ends early leaves
nothing to show: the manifest and the files of the
levels behind it are what the index holds, the two files of a level are of one save, and a level whose graph
must be rebuilt can be. At the end, what the manifest counts is what the files hold, level by level, and a restart, which
reads only as many levels as the manifest has, finds what was saved whatever else is left in the directory. The invariant
of the index itself holds after each kind of start: after `StartEmpty` as initially, after `Load` because what is read is paired
and recomputed, mixtures included.

`SearchExactWhenCleanAlways` is an argument about the k nearest: they are the copies with fewer than k nearer ones, so a
part that holds all of them has the same k nearest (`NearestOfPart`), and nothing that a level leaves out of its own k is among
those of all levels. Counting is needed once, that a subset has no more elements than the set.

**FileProofs** is about the two parts that a search over files stands on: the segment files, and the cache they are read through.

Of the cache: `CacheTypeCorrect`, `CoherentAlways`, `ReadReturnsFileAlways`, `WithinBudgetAlways`,
`EmptySlotsReclaimedAlways`, for every file, block size, budget and sequence of requests. `CallInv` carries what the read in
progress knows: the bytes delivered are a prefix of the answer, the slot being filled is in nobody's
map entry, the slot being copied holds the block; that the position stays inside the file is
where the arithmetic of blocks comes in.

Of the segment: `SegmentTypeCorrect`, `AcceptedIsWholeAlways`, `AckedKeptAlways`, for any number of files and
saves. `AcceptedIsWhole` speaks of what is seen, and a power loss can make any value on the disk
the one seen, so the invariant is about the disk: what is seen is among what may be left
(`SeenOnDisk`), every committed header that may be left finds only files of its save, durable (`CommittedWhole`),
and the save in progress has no header but its uncommitted one on the disk while it changes files,
with all files sealed so far durable (`Progress`).

**StreamingProofs**: `TypeCorrect`, `NodesNamedAlways`, `FreeListExactAlways`, `MapsAgreeAlways` (assuming that
every vector fits), `OnlyRefusalBreaksMapsAlways`, `CompactionKeepsViewAlways`, `CallsKeepOthersAlways`. The invariant `Well(main)` says that
nodes and ids name each other, that the free list is exactly the unused slots without
repetition, and that no slot past the allocated ones is live. That the index never needs more slots than there are ids is a
counting argument: a slot is allocated only when the free list is empty, and then the live
nodes map one to one into the other ids.

`SearchExactAlways` holds for any distances under any metrics, so it cannot rest on their being comparable. It has three more
facts. No id is in the buffer and in the list of deletions at once (`NotBoth`, an invariant of its
own), so that a buffered vector is never dropped as deleted. The results fetched in excess make room for the hidden: those nearer
than one of the n nearest that are shown are shown ones, fewer than n of them, or deleted ones, at most as many as are hidden
(`ExcessSuffices`), so what is merged holds the n nearest copies (`CandidatesSuffice`) and has the same n nearest (`NearestOfPart`).
And a result that comes first of its id among the n nearest also does among the K nearest (`NearestGrow`), since whatever is nearer than one of the n is
one of them too; so dropping repetitions after the cut loses none of these.

**InPlaceProofs**: `TypeCorrect`, `EntryLiveAlways`, `OnlyFullListsLoseTrackAlways`, `RepairClearsAlways`, for any
number of slots and calls, any distances and any limits. The invariant adds what a loop in
progress relies on: the neighbours an insert has still to tell are distinct, and other than
the new node unless that met itself over an edge that was lost track of (`LinkInv`), so that a decision taken before
the loop still fits its neighbour when its turn comes; a replacement edge is between two live nodes
(`RelinkInv`); the nodes left to repair are exactly those with an edge to an empty slot
(`RepairInv`), because repairing one never gives such an edge to another. That a new node does not meet itself
while all edges are tracked is where the search matters: the old nodes are closed under edges.

**StoreProofs**: `TypeCorrect`, `SegmentGraphsCurrentAlways`, `PersistedCurrentAlways`, `OnlyErrorsLeaveBufferStaleAlways` for the
store alone; `GraphsCurrentBesideSnapshots`, `OnlySnapshotsOverwriteAlways`, `SnapshotMissesOnlyLaterWritesAlways` beside a snapshot; for any ids, batches,
thresholds and number of segments. A search compares the ids of a sidecar with the live ones, not the vectors. That this
suffices is the invariant `SidecarsHonest`: a segment never changes, so a sidecar of it, however old and whoever wrote
it, holds copies of that segment, and equal ids are equal copies, as a segment has one copy of an
id (`StoreInv`). `CacheCurrent` is that a graph in memory is over what is live, except inside a batch, whose segments were dropped
before it began (`BatchDropped`). `SegmentGraphsCurrent` follows from these two, also when a snapshot writes
late, since what it writes is honest; for `PersistedCurrent` that is not enough, and there the snapshot's write is the exception.
For the snapshot, a copy that is live in its view and gone from a sidecar was moved by the writer, which
never puts an id back into a sealed segment (`ViewHomes`, `ViewCacheHonest`).

**HnswProofs**: `TypeCorrect`, `DegreeBoundedAlways`, `NoEdgeToRemovedAlways`, `EntryRemovedOnlyByLoadAlways`, for any ids and
distances, caps and layers and any sequence of calls. `NoEdgeToRemoved` is not inductive: a repair walks layers from 0 up to
the highest of the nodes it takes out, and what it leaves alone above must be known to have no edge to them.
That is `EdgesWithinLayer`: an edge of a layer leads to a node that has that layer. It needs that
a replacement comes from the lists of the same layer, and that build's renumbering moves layers and lists together.
`RepairProgress` says which layers a repair is done with; `RemovedMarked` that what was taken out has a tombstone, which is how a
later repair keeps it out of its replacements. For `DegreeBounded`, a list in a repair has lost at least one node, so one more fits
into it, and a batch counts what is left to the cap; the renumbering maps a list one to one into the old one.

`SmallIndexExactAlways` needs more (`SmallInv`, checked by TLC before it was proved): the nodes that `build` has inserted list each other
on layer 0, all of them, because the search that finds a node's neighbours starts in such a clique and reaches all of it, and no list is
full; and a repair, which links the neighbours of the node it takes out, leaves a clique of what is left. Around it are that a build
in progress has no edge to a node it has still to insert, and lays the edges of the node it is at from the top layer down, so that the search
below does not meet that node (`LaidInv`); that no node lists itself; and that tombstones are on the deleted ids, neither
more nor fewer, through the renumbering (`Marked`).

**FreshProofs**: `LastInEdgeKeptAlways`, `InexactOnlyByDuplicatesAlways`, `RefusedOnlyForDuplicatesAlways`, `RebuildReachesAllAlways`,
`EntryLostOnlyByEmptyingAlways`, the five properties of the run, and beside them `DuplicatesOnlyByBridgesAlways`, `CountsCoverEdgesAlways`,
`LiveCopiesNeverGrowAlways`; for any distances, any number of nodes, any degree and any sequence of calls. They are about counts
and walks, which one would define by recursion. In the model the length of a list is the number of its entries, a set of
pairs, and what a walk visits is the least set that holds its start and is closed under edges; so the library's facts about finite sets do what
an induction would. The lemma under all of them is `LengthStep`: replacing what a list has for one node changes its length by the
difference; transposed (`IntoStep`), replacing one node's list changes every in-degree by what the old and the new list name.

The invariant says what a loop in progress relies on (`LoopInv`), that edges stay among the nodes there are and none leads
back to its node (`EdgeInv`), and that `ensure_connectivity` has attached every node it has passed (`BridgeInv`), which
an edge added later does not undo. From these: a list of an index of n nodes that repeats no edge has at most n - 1 entries, which the loader
accepts. That the counts stay exact is one comparison per place that adjusts them, of what it adds and takes with
`IntoStep`; with repeated edges the same comparison still shows that a count is never too low (`CountsCoverEdges`), so that what
goes wrong is only that too much is protected. A full list keeps all that is protected, so a node it drops
is counted twice at least, once for this list and once for another, and keeps an in-edge. For `compact`, the new numbers map one to one onto the
live nodes (`NthLiveFacts`, the one place with an ordering argument): so lists move without gaining a repeated edge, and ids without gaining a vector.

Only model-checked:

- liveness (`LockNeverStranded`, `PinnedOpenReturns`, `ReadEnds`), which rests on fairness and `ENABLED`, both out of the prover's reach;
- the refutation of `LiveLevelHoldsCopy`, which is a counterexample.

Induction over data is out of reach where it needs an induction theorem that takes an operator. Where only a
first or a least element is needed, as in `LogRefinement` and `SearchExactAlways`, the proofs take it from the
well-foundedness of the naturals as a set of pairs (`LeastExists`).

## 6. Plan

Done, in this order, the most important first: generation publication (the only protocol between processes, and the
one that guards against losing data); the LSM index with its snapshots; the block cache under every file searcher; the coordinator with
its main index; the HNSW segments that the file searchers read; the graph of the in-place index; the store with its sidecars and
snapshots; FreshGraph; HNSW.

Next:

1. The six files of a FreshGraph save, cut short anywhere.
2. Filters in `HnswIndex` (edges laid for categories, which the repairs do not know), and the parallel build, whose
   threads search a graph that does not change and whose results are applied in order.
3. `InPlaceGraph` under `MappedIndex`, so that which slot is reused is the free list's choice, and the coordinator's search starts at an entry point.
4. That the store implements `VectorMap`, as the LSM index does.

## 7. Running

```
tlc -workers 2 -config LsmSafety.cfg MCLsmIndex
tlapm LsmProofs.tla
```

Each run of `PROJECT.json` names its module and configuration; every run ends in
under five minutes. The longest is `store`, about two minutes; `generation_safety`, `lsm_snapshot`,
`streaming_safety`, `inplace_safety` and `hnsw_index` take about one each.
