---------------------------- MODULE InPlaceGraph ----------------------------
(***************************************************************************)
(* hnsw/inplace.rs, InPlaceIndex: a graph over slots that takes inserts    *)
(* and deletes in place.  A node keeps the list of its out-neighbours and, *)
(* up to a limit, of its in-neighbours, so that a delete finds the edges   *)
(* it has to remove.                                                       *)
(*                                                                         *)
(* A list is the number of times each slot occurs in it; its order is left *)
(* open.  Distances are any function of two vectors.  The beam is taken as *)
(* wide as the graph, so that a search meets every node it can reach, and  *)
(* the alpha of the diversity test as at least 1.  An insert or a delete   *)
(* is a step per neighbour it changes, with no other call in between.      *)
(* Which free slot a node gets is left open here, as is the order in which *)
(* nodes are repaired: MappedIndex has the free list.                      *)
(***************************************************************************)
EXTENDS Integers, FiniteSets, Functions

CONSTANTS
    Slots,             \* bound on the nodes
    MaxCalls,          \* bound on the calls
    Vecs, Distance,    \* [Vecs \X Vecs -> Nat]
    MaxDegree, MaxInNeighbors,
    BackEdges,         \* enable_back_edges
    Missing, NoSlot

ASSUME InPlaceAssumption ==
    /\ IsFiniteSet(Slots) /\ NoSlot \notin Slots
    /\ MaxCalls \in Nat /\ MaxDegree \in Nat /\ MaxInNeighbors \in Nat
    /\ Distance \in [Vecs \X Vecs -> Nat] /\ BackEdges \in BOOLEAN
    /\ Missing \notin Vecs

VARIABLES
    nodes,             \* [Slots -> Vecs \cup {Missing}]
    out_neighbors,     \* [Slots -> Lists]
    in_neighbors,      \* [Slots -> Lists]
    entry_point,
    pc,                \* the loop that the call in progress is in
    id,                \* the slot of that call
    todo,              \* what is left of the loop
    calls

vars == <<nodes, out_neighbors, in_neighbors, entry_point, pc, id, todo, calls>>

Lists == [Slots -> Nat]
Nil == [s \in Slots |-> 0]
Elems(list) == {s \in Slots : list[s] > 0}
Size(list) == SumFunction(list)
Add(list, s) == [list EXCEPT ![s] = @ + 1]
Without(list, s) == [list EXCEPT ![s] = 0]

\* push onto a list of in-neighbours, which is skipped at the limit.
Full(list) == Size(list) >= MaxInNeighbors
Track(list, s) == IF Full(list) THEN list ELSE Add(list, s)

Live(n) == {s \in Slots : n[s] # Missing}

Init ==
    /\ nodes = [s \in Slots |-> Missing]
    /\ out_neighbors = [s \in Slots |-> Nil]
    /\ in_neighbors = [s \in Slots |-> Nil]
    /\ entry_point = NoSlot
    /\ pc = "idle" /\ id = NoSlot /\ todo = {} /\ calls = 0

-----------------------------------------------------------------------------
(* The choices that distances make                                         *)

\* search_for_candidates: the live nodes that the entry point leads to, which
\* is the least set of them that no edge leaves.
Closed(n, out, C) ==
    /\ entry_point \in C
    /\ \A x \in C : Elems(out[x]) \cap Live(n) \subseteq C
Reachable(n, out) ==
    {s \in Live(n) : \A C \in SUBSET Live(n) : Closed(n, out, C) => s \in C}

\* The members of C in the order of their distance to a vector; equals in any.
Ranks == Bijection(Slots, 1 .. Cardinality(Slots))
Before(n, v, r, s, t) ==
    \/ Distance[n[s], v] < Distance[n[t], v]
    \/ Distance[n[s], v] = Distance[n[t], v] /\ r[s] < r[t]

\* select_neighbors: nearest first, at most MaxDegree, and none that is as
\* near to one already selected as to the vector.
Selections(n, v, C) ==
    {S \in SUBSET C : \E r \in Ranks : \A c \in C :
        LET selected == {s \in S : Before(n, v, r, s, c)}
        IN  c \in S <=> /\ Cardinality(selected) < MaxDegree
                        /\ \A s \in selected : Distance[n[c], n[s]] > Distance[n[c], v]}

\* The k members of C nearest to a vector.
NearestSets(n, v, C, k) ==
    {T \in SUBSET C :
        /\ \/ T = C /\ Cardinality(C) <= k
           \/ Cardinality(T) = k
        /\ \A t \in T, c \in C \ T : Distance[n[t], v] <= Distance[n[c], v]}

\* The out-neighbours of s that are farthest from it.
Worst(n, out, s) ==
    LET E == Elems(out[s]) \cap Live(n)
    IN  {e \in E : \A f \in E : Distance[n[f], n[s]] <= Distance[n[e], n[s]]}

\* What an insert of v does to the edges of its neighbour s: skip it, add an
\* edge, or put the edge in the place of the worst one.
Decision(kind, s, worst) == [kind |-> kind, nb |-> s, worst |-> worst]

BackEdge(n, out, s, v) ==
    LET worst == Worst(n, out, s)
        full == Size(out[s]) >= MaxDegree
        closer(w) == Distance[n[s], v] < Distance[n[s], n[w]]
    IN  IF ~BackEdges \/ (full /\ worst = {}) THEN {Decision("skip", s, NoSlot)}
        ELSE IF worst = {} THEN {Decision("add", s, NoSlot)}
        ELSE IF full
        THEN {Decision(IF closer(w) THEN "replace" ELSE "skip", s, w) : w \in worst}
        ELSE {Decision(IF closer(w) \/ Size(out[s]) < MaxDegree \div 2 THEN "add" ELSE "skip",
                       s, NoSlot) : w \in worst}

\* The neighbours of the neighbours of s that it has no edge to.
TwoHop(n, out, s) ==
    {t \in Live(n) \ (Elems(out[s]) \cup {s}) :
        \E x \in Elems(out[s]) \cap Live(n) : out[x][t] > 0}

\* find_replacement_wolverine: the nearest two-hop neighbour that is nearer to
\* s than the deleted vector v and farther from v than s is, or else any.
Replacements(n, out, s, v) ==
    LET C == TwoHop(n, out, s)
        crescent == {c \in C : /\ Distance[n[s], n[c]] < Distance[n[s], v]
                               /\ Distance[v, n[c]] > Distance[n[s], v]}
        best == IF crescent # {} THEN crescent ELSE C
    IN  {b \in best : \A c \in best : Distance[n[s], n[b]] <= Distance[n[s], n[c]]}

-----------------------------------------------------------------------------
\* A call begins when no other is in progress.
Call == pc = "idle" /\ calls < MaxCalls /\ calls' = calls + 1

(* insert                                                                  *)

\* The first node becomes the entry point; any other chooses its neighbours,
\* and what to do about the edges back.
Insert(s, v) ==
    /\ Call /\ nodes[s] = Missing
    /\ nodes' = [nodes EXCEPT ![s] = v]
    /\ in_neighbors' = [in_neighbors EXCEPT ![s] = Nil]
    /\ LET out == [out_neighbors EXCEPT ![s] = Nil]
       IN  IF entry_point = NoSlot
           THEN /\ entry_point' = s /\ out_neighbors' = out
                /\ UNCHANGED <<pc, id, todo>>
           ELSE \E S \in Selections(nodes', v, Reachable(nodes', out)) :
                /\ out_neighbors' = [out EXCEPT ![s] = [x \in Slots |-> IF x \in S THEN 1 ELSE 0]]
                /\ \E d \in [S -> UNION {BackEdge(nodes', out_neighbors', x, v) : x \in S}] :
                       /\ \A x \in S : d[x] \in BackEdge(nodes', out_neighbors', x, v)
                       /\ todo' = {d[x] : x \in S}
                /\ pc' = IF S = {} THEN "idle" ELSE "link"
                /\ id' = IF S = {} THEN NoSlot ELSE s
                /\ UNCHANGED entry_point

\* The call goes on, or returns when nothing is left.
Advance(left) ==
    /\ todo' = left
    /\ pc' = IF left = {} THEN "idle" ELSE pc
    /\ id' = IF left = {} THEN NoSlot ELSE id

\* The edges of a neighbour after the decision about it is carried out.
Linked(list, d) ==
    IF d.kind = "skip" THEN list
    ELSE IF d.kind = "add" THEN Add(list, id)
    ELSE Add([list EXCEPT ![d.worst] = @ - 1], id)

\* Mutant: the edge back is not recorded at its target.
LinkUntracked ==
    /\ pc = "link"
    /\ \E d \in todo :
          /\ out_neighbors' = [out_neighbors EXCEPT ![d.nb] = Linked(@, d)]
          /\ in_neighbors' = [in_neighbors EXCEPT ![d.nb] = Track(@, id)]
          /\ Advance(todo \ {d})
    /\ UNCHANGED <<nodes, entry_point, calls>>

\* One neighbour of the new node learns of it.
Link ==
    /\ pc = "link"
    /\ \E d \in todo :
          /\ out_neighbors' = [out_neighbors EXCEPT ![d.nb] = Linked(@, d)]
          /\ LET tracked == [in_neighbors EXCEPT ![d.nb] = Track(@, id)]
             IN  in_neighbors' = IF d.kind = "skip" THEN tracked
                                 ELSE [tracked EXCEPT ![id] = Track(@, d.nb)]
          /\ Advance(todo \ {d})
    /\ UNCHANGED <<nodes, entry_point, calls>>

-----------------------------------------------------------------------------
(* delete                                                                  *)

\* Mutant: the entry point stays at the deleted node when no neighbour is left.
NewEntryStale(s, n) ==
    LET near(list) == Elems(list) \cap Live(n)
    IN  IF entry_point # s THEN {entry_point}
        ELSE IF near(out_neighbors[s]) # {} THEN near(out_neighbors[s])
        ELSE IF near(in_neighbors[s]) # {} THEN near(in_neighbors[s])
        ELSE {s}

\* A live neighbour of the entry point takes its place, if there is one.
NewEntry(s, n) ==
    LET near(list) == Elems(list) \cap Live(n)
    IN  IF entry_point # s THEN {entry_point}
        ELSE IF near(out_neighbors[s]) # {} THEN near(out_neighbors[s])
        ELSE IF near(in_neighbors[s]) # {} THEN near(in_neighbors[s])
        ELSE {NoSlot}

\* The edges to the node go, and each in-neighbour is given a replacement.
Delete(s) ==
    /\ Call /\ nodes[s] # Missing
    /\ nodes' = [nodes EXCEPT ![s] = Missing]
    /\ entry_point' \in NewEntry(s, nodes')
    /\ LET I == Elems(in_neighbors[s]) \cap Live(nodes')
           R(x) == Replacements(nodes', out_neighbors', x, nodes[s])
           N == {x \in I : R(x) # {}}
       IN  /\ out_neighbors' = [x \in Slots |-> IF x \in I THEN Without(out_neighbors[x], s)
                                                ELSE out_neighbors[x]]
           /\ \E r \in [N -> Slots] :
                 /\ \A x \in N : r[x] \in R(x)
                 /\ todo' = {[nb |-> x, to |-> r[x], times |-> in_neighbors[s][x]] : x \in N}
    /\ pc' = "relink" /\ id' = s
    /\ UNCHANGED in_neighbors

\* One occurrence of an in-neighbour is linked to its replacement.
Relink ==
    /\ pc = "relink"
    /\ \E d \in todo :
          /\ out_neighbors' = [out_neighbors EXCEPT ![d.nb] =
                 IF @[d.to] > 0 THEN @ ELSE Add(@, d.to)]
          /\ in_neighbors' = [in_neighbors EXCEPT ![d.to] = Track(@, d.nb)]
          /\ todo' = (todo \ {d}) \cup
                        (IF d.times = 1 THEN {} ELSE {[d EXCEPT !.times = @ - 1]})
    /\ UNCHANGED <<nodes, entry_point, pc, id, calls>>

\* The out-neighbours forget the node, and its slot is free.
FinishDelete ==
    /\ pc = "relink" /\ todo = {}
    /\ in_neighbors' = [x \in Slots |->
          IF x = id THEN Nil
          ELSE IF x \in Elems(out_neighbors[id]) THEN Without(in_neighbors[x], id)
          ELSE in_neighbors[x]]
    /\ out_neighbors' = [out_neighbors EXCEPT ![id] = Nil]
    /\ pc' = "idle" /\ id' = NoSlot
    /\ UNCHANGED <<nodes, entry_point, todo, calls>>

-----------------------------------------------------------------------------
(* repair                                                                  *)

\* The live nodes with an edge to a slot that holds no node.
Dangling(n, out) == {s \in Live(n) : ~ (Elems(out[s]) \subseteq Live(n))}

Repair ==
    /\ Call /\ Dangling(nodes, out_neighbors) # {}
    /\ pc' = "repair" /\ todo' = Dangling(nodes, out_neighbors)
    /\ UNCHANGED <<nodes, out_neighbors, in_neighbors, entry_point, id>>

\* Mutant: the edges to empty slots are kept beside the new ones.
ValidKeeping(s) == out_neighbors[s]

\* What is left of the edges of s when those to empty slots are gone.
Valid(s) == [x \in Slots |-> IF nodes[x] = Missing THEN 0 ELSE out_neighbors[s][x]]

\* What becomes of the lists when s keeps the edges valid, has the two-hop
\* neighbours C, gets edges to T, and records P as in-neighbours.
Rewire(s, valid, C, T, P) ==
    /\ out_neighbors' = [x \in Slots |->
           IF x = s THEN [y \in Slots |-> IF y \in T THEN 1 ELSE valid[y]]
           ELSE IF /\ BackEdges /\ x \in C
                   /\ out_neighbors[x][s] = 0 /\ Size(out_neighbors[x]) < MaxDegree
           THEN Add(out_neighbors[x], s)
           ELSE out_neighbors[x]]
    /\ in_neighbors' = [x \in Slots |->
           IF x = s THEN [y \in Slots |-> IF y \in P THEN 1 ELSE in_neighbors[s][y]]
           ELSE IF BackEdges /\ x \in C /\ in_neighbors[x][s] = 0
           THEN Track(in_neighbors[x], s)
           ELSE in_neighbors[x]]

\* The next node loses its edges to empty slots, fills up with its nearest
\* two-hop neighbours, and all of these get an edge back if they have room.
RepairNode ==
    /\ pc = "repair"
    /\ \E s \in todo :
       LET valid == Valid(s)
           C == TwoHop(nodes, [out_neighbors EXCEPT ![s] = valid], s)
           room(list, limit) == IF Size(list) < limit THEN limit - Size(list) ELSE 0
           untracked == {c \in C : BackEdges /\ in_neighbors[s][c] = 0}
       IN  \E T \in NearestSets(nodes, nodes[s], C, room(valid, MaxDegree)),
              P \in NearestSets(nodes, nodes[s], untracked,
                                room(in_neighbors[s], MaxInNeighbors)) :
             /\ Rewire(s, valid, C, T, P)
             /\ Advance(todo \ {s})
    /\ UNCHANGED <<nodes, entry_point, calls>>

-----------------------------------------------------------------------------
Next ==
    \/ \E s \in Slots, v \in Vecs : Insert(s, v)
    \/ Link
    \/ \E s \in Slots : Delete(s)
    \/ Relink \/ FinishDelete
    \/ Repair \/ RepairNode

Spec == Init /\ [][Next]_vars

-----------------------------------------------------------------------------
(* What the graph must guarantee                                           *)

Decisions == [kind : {"skip", "add", "replace"}, nb : Slots, worst : Slots \cup {NoSlot}]
Relinks == [nb : Slots, to : Slots, times : Nat]

\* Every variable has the type its declaration states.
TypeOK ==
    /\ nodes \in [Slots -> Vecs \cup {Missing}]
    /\ out_neighbors \in [Slots -> Lists] /\ in_neighbors \in [Slots -> Lists]
    /\ entry_point \in Slots \cup {NoSlot}
    /\ calls \in 0 .. MaxCalls
    /\ pc \in {"idle", "link", "relink", "repair"}
    /\ pc \in {"link", "relink"} => id \in Slots
    /\ pc = "idle" => todo = {}
    /\ pc = "link" => todo \in SUBSET Decisions
    /\ pc = "relink" => todo \in SUBSET Relinks
    /\ pc = "repair" => todo \in SUBSET Slots

\* Searches start at a node: while nodes are replaced, removed and repaired,
\* the entry point is never a slot without one.
EntryLive == entry_point # NoSlot => entry_point \in Live(nodes)

\* An edge leads to another live node, which lists it as an in-neighbour or
\* is the next to be told by the insert that made it.
Tracked(s, t) ==
    /\ s # t /\ t \in Live(nodes)
    /\ in_neighbors[t][s] > 0 \/ (pc = "link" /\ s = id /\ \E d \in todo : d.nb = t)
EdgesTracked == \A s \in Live(nodes) : \A t \in Elems(out_neighbors[s]) : Tracked(s, t)

\* A delete finds every edge to its node, so that no edge is left to a slot
\* that another node may take: the only way to lose track of an edge is a
\* list of in-neighbours at its limit.
ListFull == \E s \in Live(nodes) : Full(in_neighbors[s])
OnlyFullListsLoseTrack == [][EdgesTracked => EdgesTracked' \/ ListFull']_vars

\* A repair leaves no edge to an empty slot behind, also in the nodes that
\* repairing another one gave new edges.
RepairClears == [][pc = "repair" /\ pc' = "idle" => Dangling(nodes, out_neighbors)' = {}]_vars
=============================================================================
