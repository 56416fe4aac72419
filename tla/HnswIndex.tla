------------------------------ MODULE HnswIndex ------------------------------
(***************************************************************************)
(* HNSWIndex of src/hnsw/graph.rs with the sequential build of             *)
(* src/hnsw/construction.rs: vectors are staged, build lays a graph in     *)
(* every layer and renumbers the nodes, and from then on nodes are only    *)
(* deleted, by a tombstone alone or with a repair of the lists around      *)
(* them.                                                                   *)
(*                                                                         *)
(* Every method takes &mut self: the loops of build and of the repairs are *)
(* steps, and `stage` says which one a call is in.  A list is a set, since *)
(* every push is preceded by a look whether it is there; where distances   *)
(* tie, the order is open.  An id stands for its vector, as it is added    *)
(* once.  Beams are as wide as the index, but for the descent of build,    *)
(* which keeps one candidate.                                              *)
(***************************************************************************)
EXTENDS Integers, FiniteSets

CONSTANTS
    Docs,
    Dist,             \* [Docs \X Docs -> Nat]
    M, MMax,          \* m, the cap of a list above layer 0, and m_max, on layer 0
    MaxLayer,         \* bound: the highest layer that a node is assigned
    Inputs,           \* bound: the ids that may be added as the nth, and their layers
    MaxGone,          \* bound: the ids that are deleted
    NoDoc, NoNode

Nodes == 0 .. Cardinality(Docs) - 1
Layers == 0 .. MaxLayer

ASSUME HnswAssumption ==
    /\ IsFiniteSet(Docs) /\ NoDoc \notin Docs /\ NoNode \notin Nodes
    /\ Dist \in [Docs \X Docs -> Nat]
    /\ Inputs \in [Nodes -> SUBSET (Docs \X Layers)] /\ MaxGone \in Nat
    /\ M \in Nat \ {0} /\ MMax \in Nat \ {0} /\ MaxLayer \in Nat

\* All metrics of the index are symmetric.
ASSUME DistSymmetric == \A a, b \in Docs : Dist[a, b] = Dist[b, a]

VARIABLES
    num_vectors,
    doc_ids,              \* [Nodes -> Docs \cup {NoDoc}]
    layer_assignments,    \* [Nodes -> Layers]
    neighbors,            \* [Layers -> [Nodes -> SUBSET Nodes]]
    tombstones,           \* SUBSET Nodes
    entry_point,          \* during build the entry of what is laid so far
    built,
    stage,                \* "idle" between calls, or the loop a call is in
    current,              \* the node that build inserts
    layer,                \* the layer the loop is at
    at,                   \* where the search in that layer starts
    todo,                 \* neighbours that still get the reverse edge
    removing,             \* the nodes a repair takes out
    removed,              \* history: the nodes that repairs took out
    gone                  \* history: the ids that any delete named

dataVars == <<num_vectors, doc_ids, layer_assignments>>
buildVars == <<current, at, todo>>
vars == <<dataVars, neighbors, tombstones, entry_point, built,
          stage, buildVars, layer, removing, removed, gone>>

Used == 0 .. num_vectors - 1
Cap(l) == IF l = 0 THEN MMax ELSE M

Empty == [l \in Layers |-> [i \in Nodes |-> {}]]

Init ==
    /\ num_vectors = 0
    /\ doc_ids = [i \in Nodes |-> NoDoc]
    /\ layer_assignments = [i \in Nodes |-> 0]
    /\ neighbors = Empty
    /\ tombstones = {} /\ entry_point = NoNode /\ built = FALSE
    /\ stage = "idle" /\ current = 0 /\ layer = 0 /\ at = NoNode
    /\ todo = {} /\ removing = {}
    /\ removed = {} /\ gone = {}

-----------------------------------------------------------------------------
D(i, j) == Dist[doc_ids[i], doc_ids[j]]
NoCloser(i, j, q) == D(q, i) <= D(q, j)

\* What a search of layer l visits from node i: the least set of nodes that no
\* edge leaves.
Reached(l, i) ==
    {j \in Nodes : \A C \in SUBSET Nodes :
        i \in C /\ (\A x \in C : neighbors[l][x] \subseteq C) => j \in C}

\* The k members of C nearest to q.
Nearest(q, C, k) ==
    {T \in SUBSET C :
        /\ \/ T = C /\ Cardinality(C) <= k
           \/ Cardinality(T) = k
        /\ \A t \in T, c \in C \ T : NoCloser(t, c, q)}

\* select_neighbors_rnd, before the backfill: nearest first, at most k, and
\* none that is as near to one already selected as it is to q.
Diverse(q, C, k) ==
    {S \in SUBSET C :
        /\ Cardinality(S) <= k
        /\ \A s, c \in S : s # c /\ NoCloser(s, c, q) => D(q, c) < D(s, c)
        /\ \A c \in C \ S :
             \/ \E s \in S : NoCloser(s, c, q) /\ D(q, c) >= D(s, c)
             \/ Cardinality(S) = k /\ \A s \in S : NoCloser(s, c, q)}

\* The nearest of the rejected fill what is left of the k places.
Selected(q, C, k) ==
    UNION {{S \cup B : B \in Nearest(q, C \ S, k - Cardinality(S))} : S \in Diverse(q, C, k)}

-----------------------------------------------------------------------------
AddSlice(doc, l) ==
    /\ ~built /\ stage = "idle" /\ num_vectors \in Nodes
    /\ <<doc, l>> \in Inputs[num_vectors]
    /\ \A i \in Used : doc_ids[i] # doc
    /\ num_vectors' = num_vectors + 1
    /\ doc_ids' = [doc_ids EXCEPT ![num_vectors] = doc]
    /\ layer_assignments' = [layer_assignments EXCEPT ![num_vectors] = l]
    /\ UNCHANGED <<neighbors, tombstones, entry_point, built, stage, buildVars, layer,
                   removing, removed, gone>>

Build ==
    /\ ~built /\ stage = "idle" /\ num_vectors > 0
    /\ neighbors' = Empty
    /\ entry_point' = 0
    /\ stage' = "node" /\ current' = 1
    /\ UNCHANGED <<dataVars, tombstones, built, layer, at, todo, removing, removed, gone>>

\* The next node is inserted, from the top of what is laid.
BeginNode ==
    /\ stage = "node" /\ current < num_vectors
    /\ stage' = "search"
    /\ layer' = layer_assignments[entry_point] /\ at' = entry_point
    /\ UNCHANGED <<dataVars, neighbors, tombstones, entry_point, built, current, todo,
                   removing, removed, gone>>

\* Above its own layer a beam of one ends where no neighbour is closer.
Descend ==
    /\ stage = "search" /\ layer > layer_assignments[current]
    /\ at' \in {c \in Reached(layer, at) :
                  /\ NoCloser(c, at, current)
                  /\ \A x \in neighbors[layer][c] : NoCloser(c, x, current)}
    /\ layer' = layer - 1
    /\ UNCHANGED <<dataVars, neighbors, tombstones, entry_point, built, stage, current, todo,
                   removing, removed, gone>>

\* In its own layers it is connected to a diverse choice of what it finds.
Connect ==
    /\ stage = "search" /\ layer <= layer_assignments[current]
    /\ \E S \in Selected(current, Reached(layer, at), Cap(layer)) :
         /\ todo' = {j \in S : j < current /\ layer_assignments[j] >= layer}
         /\ neighbors' = [neighbors EXCEPT ![layer][current] = todo']
    /\ at' \in {c \in Reached(layer, at) : {c} \in Nearest(current, Reached(layer, at), 1)}
    /\ stage' = "links"
    /\ UNCHANGED <<dataVars, tombstones, entry_point, built, current, layer,
                   removing, removed, gone>>

\* The list of nid with the reverse edge, pruned when it is past its cap.
Linked(nid) ==
    LET list == neighbors[layer][nid] \cup {current}
    IN  IF Cardinality(list) <= Cap(layer) THEN {list} ELSE Selected(nid, list, Cap(layer))

LinkBack(nid) ==
    /\ stage = "links" /\ nid \in todo /\ \A k \in todo : nid <= k
    /\ \E list \in Linked(nid) : neighbors' = [neighbors EXCEPT ![layer][nid] = list]
    /\ todo' = todo \ {nid}
    /\ UNCHANGED <<dataVars, tombstones, entry_point, built, stage, current, layer, at,
                   removing, removed, gone>>

\* One layer down; below layer 0 the node is in, and the entry point if it is
\* higher than the one before.
EndLinks ==
    /\ stage = "links" /\ todo = {}
    /\ IF layer > 0
         THEN /\ stage' = "search" /\ layer' = layer - 1
              /\ UNCHANGED <<current, entry_point>>
         ELSE /\ stage' = "node" /\ current' = current + 1
              /\ entry_point' = IF layer_assignments[current] > layer_assignments[entry_point]
                                  THEN current ELSE entry_point
              /\ UNCHANGED layer
    /\ UNCHANGED <<dataVars, neighbors, tombstones, built, at, todo, removing, removed, gone>>

-----------------------------------------------------------------------------
\* compute_entry_point: the first node of the highest layer.
FirstTop(e) ==
    /\ e \in Used
    /\ \A i \in Used : \/ layer_assignments[i] < layer_assignments[e]
                       \/ layer_assignments[i] = layer_assignments[e] /\ e <= i

\* new_order of reorder_for_locality: the entry point, every node it reaches
\* after one that lists it, then the rest as they were.
NewOrders ==
    {old \in [Used -> Used] :
        LET reached == Reached(0, old[0])
        IN  /\ \A j, k \in Used : old[j] = old[k] => j = k
            /\ FirstTop(old[0])
            /\ \A k \in Used \ {0} : old[k] \in reached =>
                 \E j \in 0 .. k - 1 : old[k] \in neighbors[0][old[j]]
            /\ \A j, k \in Used : j < k /\ old[j] \notin reached =>
                 old[k] \notin reached /\ old[j] < old[k]}

\* Mutant: the tombstones keep the old numbers.
RenumberedButTombstones(old) ==
    /\ doc_ids' = [k \in Nodes |-> IF k \in Used THEN doc_ids[old[k]] ELSE NoDoc]
    /\ layer_assignments' = [k \in Nodes |-> IF k \in Used THEN layer_assignments[old[k]] ELSE 0]
    /\ neighbors' = [l \in Layers |-> [k \in Nodes |->
         IF k \in Used THEN {j \in Used : old[j] \in neighbors[l][old[k]]} ELSE {}]]
    /\ tombstones' = tombstones

Renumbered(old) ==
    /\ doc_ids' = [k \in Nodes |-> IF k \in Used THEN doc_ids[old[k]] ELSE NoDoc]
    /\ layer_assignments' = [k \in Nodes |-> IF k \in Used THEN layer_assignments[old[k]] ELSE 0]
    /\ neighbors' = [l \in Layers |-> [k \in Nodes |->
         IF k \in Used THEN {j \in Used : old[j] \in neighbors[l][old[k]]} ELSE {}]]
    /\ tombstones' = {j \in Used : old[j] \in tombstones}

\* The nodes are renumbered, and the entry point is computed anew.
EndBuild ==
    /\ stage = "node" /\ current = num_vectors
    /\ UNCHANGED num_vectors
    /\ \E old \in NewOrders : Renumbered(old)
    /\ \E e \in Used : FirstTop(e)' /\ entry_point' = e
    /\ built' = TRUE /\ stage' = "idle" /\ at' = NoNode
    /\ UNCHANGED <<current, layer, todo, removing, removed, gone>>

-----------------------------------------------------------------------------
NodesOf(docs) == {i \in Used : doc_ids[i] \in docs}
Known(docs) == \A d \in docs : \E i \in Used : doc_ids[i] = d

\* delete: a tombstone.  Before build there are no lists to repair, and the
\* deletes with repair do the same.
Delete(doc) ==
    /\ stage = "idle" /\ Known({doc})
    /\ tombstones' = tombstones \cup NodesOf({doc})
    /\ gone' = gone \cup {doc} /\ Cardinality(gone') <= MaxGone
    /\ UNCHANGED <<dataVars, neighbors, entry_point, built, stage, buildVars, layer,
                   removing, removed>>

BeginRepair(docs) ==
    /\ built /\ stage = "idle" /\ Known(docs)
    /\ removing' = NodesOf(docs)
    /\ gone' = gone \cup docs /\ Cardinality(gone') <= MaxGone
    /\ layer' = 0
    /\ UNCHANGED <<dataVars, neighbors, tombstones, entry_point, built, buildVars, removed>>

DeleteWithRepair(doc) == BeginRepair({doc}) /\ stage' = "single"
DeleteBatchWithRepair(docs) == BeginRepair(docs) /\ stage' = "batch"

Remaining(i) == neighbors[layer][i] \ removing

\* Mutant: what is being removed is not kept out.
TwoHopsAny(i) ==
    (UNION {neighbors[layer][x] : x \in Remaining(i)})
      \ ({i} \cup Remaining(i) \cup tombstones)

\* The live nodes two hops away that may take the place of a lost neighbour.
TwoHops(i) ==
    (UNION {neighbors[layer][x] : x \in Remaining(i)})
      \ ({i} \cup removing \cup Remaining(i) \cup tombstones)

\* The crescent: closer to i than x was, and farther from x than i is.
Crescent(i, x) == {c \in TwoHops(i) : D(i, c) < D(i, x) /\ D(x, c) > D(i, x)}

\* delete_with_repair: one replacement, of the crescent if it has any.
RepairedSingle(i) ==
    LET crescent == UNION {Crescent(i, x) : x \in removing}
        found == IF crescent # {} THEN crescent ELSE TwoHops(i)
    IN  {Remaining(i) \cup T :
           T \in Nearest(i, found, IF Cardinality(Remaining(i)) < MMax THEN 1 ELSE 0)}

\* Mutant: every layer is refilled to m_max.
RepairedToMMax(i) ==
    LET lost == MMax - Cardinality(Remaining(i))
    IN  {Remaining(i) \cup T : T \in Nearest(i, TwoHops(i), IF lost > 0 THEN lost ELSE 0)}

\* delete_batch_with_repair: the list is refilled to its cap.
RepairedBatch(i) ==
    LET lost == Cap(layer) - Cardinality(Remaining(i))
    IN  {Remaining(i) \cup T : T \in Nearest(i, TwoHops(i), IF lost > 0 THEN lost ELSE 0)}

Repaired(i) == IF stage = "single" THEN RepairedSingle(i) ELSE RepairedBatch(i)

\* The nodes that list one that is being removed.
InNeighbors == {i \in Nodes \ removing : neighbors[layer][i] \cap removing # {}}

\* One layer: the new lists are all found before the first is replaced.
RepairLayer ==
    /\ stage \in {"single", "batch"}
    /\ \E i \in removing : layer <= layer_assignments[i]
    /\ \E lists \in [InNeighbors -> UNION {Repaired(i) : i \in InNeighbors}] :
         /\ \A i \in InNeighbors : lists[i] \in Repaired(i)
         /\ neighbors' = [neighbors EXCEPT ![layer] = [i \in Nodes |->
              IF i \in removing THEN {}
              ELSE IF i \in InNeighbors THEN lists[i]
              ELSE @[i]]]
    /\ layer' = layer + 1
    /\ UNCHANGED <<dataVars, tombstones, entry_point, built, stage, buildVars,
                   removing, removed, gone>>

\* Mutant: nodes with a tombstone are not kept out.
AnyCandidates == Used \ removing

\* find_entry_point_excluding: of the live nodes, the last of the highest layer.
EntryCandidates == Used \ (removing \cup tombstones)

LastTop(e) ==
    /\ e \in EntryCandidates
    /\ \A i \in EntryCandidates : \/ layer_assignments[i] < layer_assignments[e]
                                  \/ layer_assignments[i] = layer_assignments[e] /\ i <= e

EndRepair ==
    /\ stage \in {"single", "batch"}
    /\ \A i \in removing : layer > layer_assignments[i]
    /\ IF entry_point \in removing
         THEN IF EntryCandidates = {} THEN entry_point' = NoNode
              ELSE entry_point' \in Nodes /\ LastTop(entry_point')
         ELSE UNCHANGED entry_point
    /\ tombstones' = tombstones \cup removing
    /\ removed' = removed \cup removing
    /\ removing' = {} /\ stage' = "idle" /\ layer' = 0
    /\ UNCHANGED <<dataVars, neighbors, built, buildVars, gone>>

-----------------------------------------------------------------------------
\* The index is saved and loaded: the entry point is not in the file.  (Before
\* build it is not read, and set by build.)
Load ==
    /\ built /\ stage = "idle"
    /\ entry_point' \in Nodes /\ FirstTop(entry_point')
    /\ UNCHANGED <<dataVars, neighbors, tombstones, built, stage, buildVars, layer,
                   removing, removed, gone>>

Next ==
    \/ \E doc \in Docs, l \in Layers : AddSlice(doc, l)
    \/ Build \/ BeginNode \/ Descend \/ Connect
    \/ \E nid \in Nodes : LinkBack(nid)
    \/ EndLinks \/ EndBuild
    \/ \E doc \in Docs : Delete(doc) \/ DeleteWithRepair(doc)
    \/ \E docs \in SUBSET Docs : DeleteBatchWithRepair(docs)
    \/ RepairLayer \/ EndRepair
    \/ Load

Spec == Init /\ [][Next]_vars
=============================================================================
