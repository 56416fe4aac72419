----------------------------- MODULE FreshGraph -----------------------------
(***************************************************************************)
(* FreshGraphIndex of src/fresh_graph/mod.rs: one proximity graph that     *)
(* takes inserts, tombstones and compactions after it was built, with      *)
(* ensure_connectivity of src/graph_utils.rs.                              *)
(*                                                                         *)
(* Every method takes &mut self.  The loops of build, insert and           *)
(* ensure_connectivity are steps of their own, `stage` says which one a    *)
(* call is in, and nothing else can happen until it returns.  An adjacency *)
(* list is a bag: its order is left open, and decides only which of the    *)
(* live neighbours becomes the entry point.  Where distances tie, the      *)
(* order is open too.  The instances hold no more nodes than a beam is     *)
(* wide, so that a beam search visits all it can reach.                    *)
(***************************************************************************)
EXTENDS Integers, FiniteSets, FiniteSetsExt

CONSTANTS
    Docs, Vecs,
    Dist,                 \* [Vecs \X Vecs -> Nat], the cosine distance, scaled
    AlphaNum, AlphaDen,   \* alpha
    MaxDegree,
    Inputs,               \* the ids and vectors that are staged or inserted
    MaxNodes,             \* bound: vectors held at a time, tombstoned ones included
    MaxRepeats,           \* bound: how often a list names a node when compact is called
    NoDoc, NoVec          \* the slot holds no vector

ASSUME FreshAssumption ==
    /\ IsFiniteSet(Docs) /\ NoDoc \notin Docs /\ NoVec \notin Vecs
    /\ Inputs \subseteq Docs \X Vecs
    /\ Dist \in [Vecs \X Vecs -> Nat]
    /\ AlphaDen \in Nat \ {0} /\ AlphaNum \in Nat /\ AlphaNum >= AlphaDen
    /\ MaxDegree \in Nat \ {0}
    /\ MaxNodes \in Nat \ {0} /\ MaxRepeats \in Nat

Nodes == 0 .. MaxNodes - 1

VARIABLES
    num_vectors,
    vectors,          \* [Nodes -> Vecs \cup {NoVec}]
    doc_ids,          \* [Nodes -> Docs \cup {NoDoc}]
    neighbors,        \* [Nodes -> [Nodes -> Nat]], how often a list names a node
    inbound_count,    \* [Nodes -> Nat]
    deleted,          \* SUBSET Nodes
    entry_point,
    built,
    stage,            \* "idle" between calls, or the loop a call is in
    row,              \* the node whose edges are being laid
    todo              \* its neighbours that still get the reverse edge

dataVars == <<num_vectors, vectors, doc_ids>>
graphVars == <<neighbors, inbound_count>>
callVars == <<stage, row, todo>>
vars == <<dataVars, graphVars, deleted, entry_point, built, callVars>>

None == [j \in Nodes |-> 0]
Used == 0 .. num_vectors - 1
Live == Used \ deleted

Init ==
    /\ num_vectors = 0
    /\ vectors = [i \in Nodes |-> NoVec]
    /\ doc_ids = [i \in Nodes |-> NoDoc]
    /\ neighbors = [i \in Nodes |-> None]
    /\ inbound_count = None
    /\ deleted = {}
    /\ entry_point = 0
    /\ built = FALSE
    /\ stage = "idle" /\ row = 0 /\ todo = {}

-----------------------------------------------------------------------------
\* A list that names each node of S once, and the nodes a list names.
ListOf(S) == [j \in Nodes |-> IF j \in S THEN 1 ELSE 0]
Named(list) == {j \in Nodes : list[j] > 0}

\* The entries of a list, one for each time it names a node.
Entries(list) == UNION {{j} \X (1 .. list[j]) : j \in Nodes}
Length(list) == Cardinality(Entries(list))

\* The entries of all lists that name node j.
InDegree(j) == Length([i \in Nodes |-> neighbors[i][j]])

\* recompute_inbound_count.
InDegrees == [j \in Nodes |-> InDegree(j)]

\* What a walk along out-edges from node i visits.
Reached(i) ==
    {j \in Nodes : \A C \in SUBSET Nodes :
        i \in C /\ (\A x \in C : Named(neighbors[x]) \subseteq C) => j \in C}

\* c is closer to the selected s than alpha allows, seen from q.
Occludes(s, c, q) == AlphaNum * Dist[q, vectors[c]] >= AlphaDen * Dist[vectors[s], vectors[c]]

NoCloser(s, c, q) == Dist[q, vectors[s]] <= Dist[q, vectors[c]]

\* rng_prune: the candidates are taken nearest first, at most `limit`, and
\* none that an earlier one occludes.
Pruned(q, candidates, limit) ==
    {S \in SUBSET candidates :
        /\ Cardinality(S) <= limit
        /\ \A s, c \in S : s # c /\ NoCloser(s, c, q) => ~Occludes(s, c, q)
        /\ \A c \in candidates \ S :
             \/ \E s \in S : NoCloser(s, c, q) /\ Occludes(s, c, q)
             \/ Cardinality(S) = limit /\ \A s \in S : NoCloser(s, c, q)}

\* build_knn_graph_brute_force: the nearest others, the lower number first.
NearestOthers(i) ==
    LET closer(j) == {k \in Used \ {i} :
                        LET dk == Dist[vectors[i], vectors[k]]
                            dj == Dist[vectors[i], vectors[j]]
                        IN  dk < dj \/ (dk = dj /\ k < j)}
    IN  {j \in Used \ {i} : Cardinality(closer(j)) < MaxDegree}

\* compute_medoid.
TotalDist(i) == MapThenSumSet(LAMBDA j : Dist[vectors[i], vectors[j]], Used)
Medoids == {i \in Used : \A j \in Used : TotalDist(i) <= TotalDist(j)}

-----------------------------------------------------------------------------
AddSlice(doc, vec) ==
    /\ ~built /\ stage = "idle" /\ num_vectors < MaxNodes
    /\ vectors' = [vectors EXCEPT ![num_vectors] = vec]
    /\ doc_ids' = [doc_ids EXCEPT ![num_vectors] = doc]
    /\ num_vectors' = num_vectors + 1
    /\ UNCHANGED <<graphVars, deleted, entry_point, built, callVars>>

\* build, up to the pruning pass.
Build ==
    /\ ~built /\ stage = "idle" /\ num_vectors > 0
    /\ entry_point' \in Medoids
    /\ neighbors' = [i \in Nodes |-> IF i \in Used THEN ListOf(NearestOthers(i)) ELSE None]
    /\ inbound_count' = InDegrees'
    /\ stage' = "rows" /\ row' = 0 /\ todo' = {}
    /\ UNCHANGED <<dataVars, deleted, built>>

\* Mutant: the search's hit on the node itself is not taken out.
BuildRowWithItself ==
    /\ stage = "rows"
    /\ \E S \in Pruned(vectors[row], Reached(entry_point), MaxDegree) :
         /\ neighbors' = [neighbors EXCEPT ![row] = ListOf(S)]
         /\ inbound_count' = [j \in Nodes |->
                                LET rest == inbound_count[j] - neighbors[row][j]
                                IN  (IF rest < 0 THEN 0 ELSE rest) + ListOf(S)[j]]
         /\ todo' = S
    /\ stage' = "links"
    /\ UNCHANGED <<dataVars, deleted, entry_point, built, row>>

\* One row of the pruning pass: its list is replaced.
BuildRow ==
    /\ stage = "rows"
    /\ \E S \in Pruned(vectors[row], Reached(entry_point) \ {row}, MaxDegree) :
         /\ neighbors' = [neighbors EXCEPT ![row] = ListOf(S)]
         /\ inbound_count' = [j \in Nodes |->
                                LET rest == inbound_count[j] - neighbors[row][j]
                                IN  (IF rest < 0 THEN 0 ELSE rest) + ListOf(S)[j]]
         /\ todo' = S
    /\ stage' = "links"
    /\ UNCHANGED <<dataVars, deleted, entry_point, built, row>>

-----------------------------------------------------------------------------
\* The candidates of a full list whose last in-edge may be the one in it.
Protected(candidates) == {j \in candidates : inbound_count[j] <= 1}

\* Mutant: nothing is protected.
KeptAny(nid, candidates) == Pruned(vectors[nid], candidates, MaxDegree)

\* What a full list keeps of the candidates: all that are protected, if there
\* is room, and of the others what rng_prune selects for the slots left.
Kept(nid, candidates) ==
    LET orphans == Protected(candidates)
        slots == MaxDegree - Cardinality(orphans)
    IN  IF slots < 0 THEN Pruned(vectors[nid], candidates, MaxDegree)
        ELSE {orphans \cup S : S \in Pruned(vectors[nid], candidates \ orphans, slots)}

\* Mutant: an evicted node stays counted.
RelistCountingEvicted(nid, kept) ==
    LET old == Named(neighbors[nid])
    IN  /\ neighbors' = [neighbors EXCEPT ![nid] = ListOf(kept)]
        /\ inbound_count' = [j \in Nodes |->
             IF j \in kept \ old THEN inbound_count[j] + 1 ELSE inbound_count[j]]

\* The list becomes `kept`; the counts follow the difference of the two sets.
Relist(nid, kept) ==
    LET old == Named(neighbors[nid])
    IN  /\ neighbors' = [neighbors EXCEPT ![nid] = ListOf(kept)]
        /\ inbound_count' = [j \in Nodes |->
             IF j \in old \ kept /\ inbound_count[j] > 0 THEN inbound_count[j] - 1
             ELSE IF j \in kept \ old THEN inbound_count[j] + 1
             ELSE inbound_count[j]]

\* add_reverse_edge_protected, of the node `row` to the list of nid.
AddReverseEdge(nid) ==
    \/ /\ neighbors[nid][row] > 0
       /\ UNCHANGED graphVars
    \/ /\ neighbors[nid][row] = 0 /\ Length(neighbors[nid]) < MaxDegree
       /\ neighbors' = [neighbors EXCEPT ![nid][row] = 1]
       /\ inbound_count' = [inbound_count EXCEPT ![row] = @ + 1]
    \/ /\ neighbors[nid][row] = 0 /\ Length(neighbors[nid]) >= MaxDegree
       /\ \E kept \in Kept(nid, Named(neighbors[nid]) \cup {row}) : Relist(nid, kept)

\* The reverse edges are added for the nearest first.
LinkBack(nid) ==
    /\ stage = "links"
    /\ nid \in todo /\ \A k \in todo : NoCloser(nid, k, vectors[row])
    /\ AddReverseEdge(nid)
    /\ todo' = todo \ {nid}
    /\ UNCHANGED <<dataVars, deleted, entry_point, built, stage, row>>

\* All are added: insert returns, build takes the next row.
EndLinks ==
    /\ stage = "links" /\ todo = {}
    /\ IF built
         THEN stage' = "idle" /\ row' = 0
         ELSE IF row + 1 < num_vectors
           THEN stage' = "rows" /\ row' = row + 1
           ELSE stage' = "bridges" /\ row' = 0
    /\ UNCHANGED <<dataVars, graphVars, deleted, entry_point, built, todo>>

-----------------------------------------------------------------------------
TwoHops(i) == UNION {Named(neighbors[j]) : j \in Named(neighbors[i])}

\* Where ensure_connectivity attaches the unreached node i: the nearest reached
\* node of its surroundings and those of the entry point; the entry point wins
\* a tie.
Anchors(i, reached) ==
    LET near == {entry_point} \cup
                (reached \cap (TwoHops(i) \cup Named(neighbors[entry_point]) \cup TwoHops(entry_point)))
        best == {c \in near : \A d \in near : NoCloser(c, d, vectors[i])}
    IN  IF entry_point \in best THEN {entry_point} ELSE best

\* The first node from `row` on that is not reached.
Unreached == {i \in Used \ Reached(entry_point) : i >= row}

\* Mutant: only the edge out of the unreached node is added.
BridgeOutOnly ==
    /\ stage = "bridges" /\ Unreached # {}
    /\ LET i == Min(Unreached)
       IN  /\ \E best \in Anchors(i, Reached(entry_point)) :
                neighbors' = [neighbors EXCEPT ![i][best] = @ + 1]
           /\ row' = i + 1
    /\ UNCHANGED <<dataVars, inbound_count, deleted, entry_point, built, stage, todo>>

\* One round of ensure_connectivity: an edge from the anchor, and one back.
Bridge ==
    /\ stage = "bridges" /\ Unreached # {}
    /\ LET i == Min(Unreached)
       IN  /\ \E best \in Anchors(i, Reached(entry_point)) :
                neighbors' = [neighbors EXCEPT ![best][i] = @ + 1, ![i][best] = @ + 1]
           /\ row' = i + 1
    /\ UNCHANGED <<dataVars, inbound_count, deleted, entry_point, built, stage, todo>>

\* build or compact counts the edges anew and returns.
EndBridges ==
    /\ stage = "bridges" /\ Unreached = {}
    /\ inbound_count' = InDegrees
    /\ built' = TRUE
    /\ stage' = "idle" /\ row' = 0
    /\ UNCHANGED <<dataVars, neighbors, deleted, entry_point, todo>>

-----------------------------------------------------------------------------
LiveOf(doc) == {i \in Live : doc_ids[i] = doc}

\* repromote_entry_point, from the tombstoned node i to one of `live`.
Promoted(i, live) ==
    IF Named(neighbors[i]) \cap live # {} THEN Named(neighbors[i]) \cap live
    ELSE IF live # {} THEN {Min(live)}
    ELSE {i}

\* Mutant: the entry point is left where it is.
TombstoneOnly(doc) ==
    IF LiveOf(doc) = {} THEN UNCHANGED <<deleted, entry_point>>
    ELSE deleted' = deleted \cup {Min(LiveOf(doc))} /\ UNCHANGED entry_point

\* delete: the first live node of the id, and no other.
Tombstone(doc) ==
    IF LiveOf(doc) = {} THEN UNCHANGED <<deleted, entry_point>>
    ELSE LET i == Min(LiveOf(doc))
         IN  /\ deleted' = deleted \cup {i}
             /\ entry_point' \in IF entry_point = i THEN Promoted(i, Live \ {i}) ELSE {entry_point}

Delete(doc) ==
    /\ built /\ stage = "idle" /\ LiveOf(doc) # {}
    /\ Tombstone(doc)
    /\ UNCHANGED <<dataVars, graphVars, built, callVars>>

\* insert, up to the reverse edges.
Insert(doc, vec) ==
    /\ built /\ stage = "idle" /\ num_vectors < MaxNodes
    /\ Tombstone(doc)
    /\ vectors' = [vectors EXCEPT ![num_vectors] = vec]
    /\ doc_ids' = [doc_ids EXCEPT ![num_vectors] = doc]
    /\ num_vectors' = num_vectors + 1
    /\ \E S \in Pruned(vec, Reached(entry_point'), MaxDegree) :
         /\ neighbors' = [neighbors EXCEPT ![num_vectors] = ListOf(S)]
         /\ inbound_count' = [j \in Nodes |-> inbound_count[j] + ListOf(S)[j]]
         /\ todo' = S
    /\ stage' = "links" /\ row' = num_vectors
    /\ UNCHANGED built

\* compact with nothing left: back to an index that is not built.
CompactToEmpty ==
    /\ built /\ stage = "idle" /\ deleted # {} /\ Live = {}
    /\ num_vectors' = 0
    /\ vectors' = [i \in Nodes |-> NoVec]
    /\ doc_ids' = [i \in Nodes |-> NoDoc]
    /\ neighbors' = [i \in Nodes |-> None]
    /\ inbound_count' = None
    /\ deleted' = {} /\ entry_point' = 0 /\ built' = FALSE
    /\ UNCHANGED callVars

\* The live node that k live ones come before.
NthLive(k) == CHOOSE i \in Live : Cardinality({j \in Live : j < i}) = k

\* compact, up to ensure_connectivity: the live nodes close up in their order,
\* kept[k] was the number of node k.
Compact ==
    LET kept == [k \in 0 .. Cardinality(Live) - 1 |-> NthLive(k)]
        new == DOMAIN kept
    IN  /\ built /\ stage = "idle" /\ deleted # {} /\ Live # {}
        /\ \A i, j \in Nodes : neighbors[i][j] <= MaxRepeats
        /\ num_vectors' = Cardinality(Live)
        /\ vectors' = [k \in Nodes |-> IF k \in new THEN vectors[kept[k]] ELSE NoVec]
        /\ doc_ids' = [k \in Nodes |-> IF k \in new THEN doc_ids[kept[k]] ELSE NoDoc]
        /\ neighbors' = [k \in Nodes |-> [j \in Nodes |->
             IF k \in new /\ j \in new THEN neighbors[kept[k]][kept[j]] ELSE 0]]
        /\ entry_point' = IF entry_point \in Live THEN CHOOSE k \in new : kept[k] = entry_point ELSE 0
        /\ deleted' = {}
        /\ stage' = "bridges" /\ row' = 0
        /\ UNCHANGED <<inbound_count, built, todo>>

Next ==
    \/ \E input \in Inputs : AddSlice(input[1], input[2]) \/ Insert(input[1], input[2])
    \/ \E doc \in Docs : Delete(doc)
    \/ Build \/ BuildRow
    \/ \E nid \in Nodes : LinkBack(nid)
    \/ EndLinks \/ Bridge \/ EndBridges
    \/ CompactToEmpty \/ Compact

Spec == Init /\ [][Next]_vars
=============================================================================
