--------------------------- MODULE InPlaceProofs ---------------------------
(***************************************************************************)
(* Proofs about InPlaceGraph, for any number of slots, any vectors and     *)
(* distances and any limits: types, EntryLive, OnlyFullListsLoseTrack and  *)
(* RepairClears.                                                           *)
(***************************************************************************)
EXTENDS InPlaceGraph, TLAPS

-----------------------------------------------------------------------------
(* The inductive invariant                                                 *)

\* The neighbours that an insert has still to tell are other nodes, unless the
\* new node met itself over an edge that was lost track of; the edge that one
\* of them is to give up is there.
LinkInv ==
    pc = "link" =>
        /\ id \in Live(nodes)
        /\ \/ out_neighbors[id][id] > 0
           \/ \A d \in todo : d.nb # id /\ d.nb \in Live(nodes)
        /\ \A d, e \in todo : d.nb = e.nb => d = e
        /\ \A d \in todo : d.kind = "replace" =>
               d.worst \in Slots /\ out_neighbors[d.nb][d.worst] > 0

\* The edges that a delete has still to add are between live nodes.
RelinkInv ==
    pc = "relink" =>
        /\ id \notin Live(nodes)
        /\ \A d \in todo : /\ d.nb \in Live(nodes) /\ d.to \in Live(nodes)
                           /\ d.nb # d.to /\ d.times > 0

\* The nodes left to repair are all that have an edge to an empty slot.
RepairInv == pc = "repair" => todo = Dangling(nodes, out_neighbors)

IInv == TypeOK /\ EntryLive /\ LinkInv /\ RelinkInv /\ RepairInv

-----------------------------------------------------------------------------
(* Lists                                                                   *)

\* Adding to a list takes nothing away; tracking adds unless the list is full.
LEMMA ListFacts ==
    ASSUME NEW list \in Lists, NEW s \in Slots
    PROVE  /\ Nil \in Lists
           /\ Add(list, s) \in Lists /\ Without(list, s) \in Lists /\ Track(list, s) \in Lists
           /\ Add(list, s)[s] > 0
           /\ \A x \in Slots : list[x] > 0 => Add(list, s)[x] > 0 /\ Track(list, s)[x] > 0
           /\ \A x \in Slots \ {s} : Add(list, s)[x] = list[x] /\ Without(list, s)[x] = list[x]
           /\ Without(list, s)[s] = 0
           /\ Track(list, s)[s] > 0 \/ (Full(list) /\ Track(list, s) = list)
<1>1. Nil \in Lists
  BY DEF Nil, Lists
<1>2. /\ Add(list, s) \in Lists /\ Without(list, s) \in Lists
      /\ Add(list, s)[s] > 0 /\ Without(list, s)[s] = 0
      /\ \A x \in Slots : list[x] > 0 => Add(list, s)[x] > 0
      /\ \A x \in Slots \ {s} : Add(list, s)[x] = list[x] /\ Without(list, s)[x] = list[x]
  BY DEF Add, Without, Lists
<1>3. CASE ~ Full(list)
  <2>1. Track(list, s) = Add(list, s)
    BY <1>3 DEF Track
  <2> QED BY <1>1, <1>2, <2>1
<1>4. CASE Full(list)
  <2>1. Track(list, s) = list
    BY <1>4 DEF Track
  <2> QED BY <1>1, <1>2, <1>4, <2>1
<1> QED BY <1>3, <1>4

\* A slot is live if it holds a vector.
LEMMA LiveFacts ==
    ASSUME NEW n \in [Slots -> Vecs \cup {Missing}]
    PROVE  /\ Live(n) \subseteq Slots
           /\ \A s \in Slots : s \in Live(n) <=> n[s] \in Vecs
           /\ \A s \in Slots, v \in Vecs :
                 LET m == [n EXCEPT ![s] = v]
                 IN  m \in [Slots -> Vecs \cup {Missing}] /\ Live(m) = Live(n) \cup {s}
           /\ \A s \in Slots :
                 LET m == [n EXCEPT ![s] = Missing]
                 IN  m \in [Slots -> Vecs \cup {Missing}] /\ Live(m) = Live(n) \ {s}
BY InPlaceAssumption DEF Live

-----------------------------------------------------------------------------
(* What distances choose                                                   *)

\* A decision is about the neighbour it is made for, and an edge that it gives
\* up leads to a live node.
LEMMA BackEdgeFacts ==
    ASSUME NEW n, NEW out, NEW s \in Slots, NEW v, NEW d \in BackEdge(n, out, s, v)
    PROVE  /\ d \in Decisions /\ d.nb = s
           /\ d.kind = "replace" => d.worst \in Slots /\ out[s][d.worst] > 0
<1>1. Worst(n, out, s) \subseteq Slots /\ \A w \in Worst(n, out, s) : out[s][w] > 0
  BY DEF Worst, Elems, Live
<1>2. \/ d = Decision("skip", s, NoSlot) \/ d = Decision("add", s, NoSlot)
      \/ \E w \in Worst(n, out, s) : d = Decision("skip", s, w) \/ d = Decision("replace", s, w)
  BY DEF BackEdge
<1> QED BY <1>1, <1>2 DEF Decision, Decisions

\* Replacements are live, are not the node itself, and its edges do not lead
\* there yet.
LEMMA TwoHopFacts ==
    ASSUME NEW n, NEW out, NEW s
    PROVE  /\ TwoHop(n, out, s) \subseteq Live(n) \ {s}
           /\ \A v : Replacements(n, out, s, v) \subseteq TwoHop(n, out, s)
<1>1. TwoHop(n, out, s) \subseteq Live(n) \ {s}
  BY DEF TwoHop
<1>2. ASSUME NEW v PROVE Replacements(n, out, s, v) \subseteq TwoHop(n, out, s)
  BY DEF Replacements
<1> QED BY <1>1, <1>2

\* Neighbours are selected among the nodes that a search meets.
LEMMA SelectionFacts ==
    ASSUME NEW n, NEW out, NEW v, NEW S \in Selections(n, v, Reachable(n, out))
    PROVE  S \subseteq Live(n)
<1>1. Reachable(n, out) \subseteq Live(n)
  BY DEF Reachable
<1>2. S \subseteq Reachable(n, out)
  BY DEF Selections
<1> QED BY <1>1, <1>2

-----------------------------------------------------------------------------
(* The steps                                                               *)

\* Nothing is stored at first.
LEMMA InitInv == Init => IInv
<1> SUFFICES ASSUME Init PROVE IInv
  OBVIOUS
<1>1. TypeOK
  BY InPlaceAssumption DEF Init, TypeOK, Nil, Lists
<1>2. EntryLive /\ LinkInv /\ RelinkInv /\ RepairInv
  BY DEF Init, EntryLive, LinkInv, RelinkInv, RepairInv
<1> QED BY <1>1, <1>2 DEF IInv

\* The loss of an edge's track by a step, if there is one.
Keeps == EdgesTracked => EdgesTracked' \/ ListFull'
Clears == pc = "repair" /\ pc' = "idle" => Dangling(nodes, out_neighbors)' = {}
Good == IInv' /\ Keeps /\ Clears

\* What stays the same keeps the invariant.
LEMMA StutterStep == IInv /\ UNCHANGED vars => Good
BY DEF vars, IInv, TypeOK, EntryLive, LinkInv, RelinkInv, RepairInv, Good, Keeps, Clears,
       EdgesTracked, Tracked

\* A new node has edges to live nodes, each of which is to be told.
LEMMA InsertStep ==
    ASSUME IInv, NEW s \in Slots, NEW v \in Vecs, Insert(s, v)
    PROVE  Good
<1>1. /\ pc = "idle" /\ calls' \in 0 .. MaxCalls /\ nodes[s] = Missing
      /\ nodes' = [nodes EXCEPT ![s] = v] /\ in_neighbors' = [in_neighbors EXCEPT ![s] = Nil]
      /\ Nil \in Lists
      /\ nodes \in [Slots -> Vecs \cup {Missing}]
      /\ out_neighbors \in [Slots -> Lists] /\ in_neighbors \in [Slots -> Lists]
      /\ entry_point \in Slots \cup {NoSlot} /\ todo = {}
  BY InPlaceAssumption DEF Insert, Call, IInv, TypeOK, Nil, Lists
<1>2. /\ nodes' \in [Slots -> Vecs \cup {Missing}]
      /\ Live(nodes') = Live(nodes) \cup {s} /\ s \notin Live(nodes)
  BY <1>1, LiveFacts, InPlaceAssumption
<1>3. /\ in_neighbors' \in [Slots -> Lists]
      /\ \A x \in Slots \ {s} : in_neighbors'[x] = in_neighbors[x]
  BY <1>1
<1>4. CASE entry_point = NoSlot
  <2>1. /\ entry_point' = s /\ out_neighbors' = [out_neighbors EXCEPT ![s] = Nil]
        /\ UNCHANGED <<pc, id, todo>>
    BY <1>4 DEF Insert
  <2>2. /\ out_neighbors' \in [Slots -> Lists] /\ Elems(out_neighbors[s])' = {}
        /\ \A x \in Slots \ {s} : out_neighbors'[x] = out_neighbors[x]
    BY <1>1, <2>1 DEF Elems, Nil
  <2>3. TypeOK'
    BY <1>1, <1>2, <1>3, <2>1, <2>2 DEF TypeOK
  <2>4. EntryLive' /\ LinkInv' /\ RelinkInv' /\ RepairInv' /\ Clears
    BY <1>1, <1>2, <2>1 DEF EntryLive, LinkInv, RelinkInv, RepairInv, Clears
  <2>5. Keeps
    <3> SUFFICES ASSUME EdgesTracked, NEW x \in Live(nodes)', NEW t \in Elems(out_neighbors[x])'
                 PROVE  Tracked(x, t)'
      BY DEF Keeps, EdgesTracked
    <3>1. x \in Live(nodes) /\ t \in Elems(out_neighbors[x]) /\ t \in Slots
      BY <1>2, <2>2 DEF Elems, Live
    <3>2. Tracked(x, t)
      BY <3>1 DEF EdgesTracked
    <3> QED BY <1>1, <1>2, <1>3, <3>1, <3>2, <2>1 DEF Tracked
  <2> QED BY <2>3, <2>4, <2>5 DEF Good, IInv
<1>5. CASE entry_point # NoSlot
  <2> DEFINE out == [out_neighbors EXCEPT ![s] = Nil]
  <2>1. PICK S \in Selections(nodes', v, Reachable(nodes', out)) :
          /\ out_neighbors' = [out EXCEPT ![s] = [x \in Slots |-> IF x \in S THEN 1 ELSE 0]]
          /\ \E d \in [S -> UNION {BackEdge(nodes', out_neighbors', x, v) : x \in S}] :
                 /\ \A x \in S : d[x] \in BackEdge(nodes', out_neighbors', x, v)
                 /\ todo' = {d[x] : x \in S}
          /\ pc' = IF S = {} THEN "idle" ELSE "link"
          /\ id' = IF S = {} THEN NoSlot ELSE s
          /\ UNCHANGED entry_point
    BY <1>5 DEF Insert
  <2>2. S \subseteq Live(nodes') /\ S \subseteq Slots
    BY <1>2, SelectionFacts DEF Live
  <2>3. /\ out_neighbors' \in [Slots -> Lists]
        /\ \A x \in Slots \ {s} : out_neighbors'[x] = out_neighbors[x]
        /\ \A x \in Slots : out_neighbors'[s][x] > 0 <=> x \in S
    BY <1>1, <2>1 DEF Lists
  <2>4. PICK d \in [S -> UNION {BackEdge(nodes', out_neighbors', x, v) : x \in S}] :
          /\ \A x \in S : d[x] \in BackEdge(nodes', out_neighbors', x, v)
          /\ todo' = {d[x] : x \in S}
    BY <2>1
  <2>5. \A x \in S : /\ d[x] \in Decisions /\ d[x].nb = x
                     /\ d[x].kind = "replace" => /\ d[x].worst \in Slots
                                                 /\ out_neighbors'[x][d[x].worst] > 0
    BY <2>2, <2>4, BackEdgeFacts
  <2> HIDE DEF out
  <2>6. /\ todo' \in SUBSET Decisions
        /\ \A e, f \in todo' : e.nb = f.nb => e = f
        /\ \A e \in todo' : /\ e.nb \in S
                            /\ e.kind = "replace" => e.worst \in Slots
                                                     /\ out_neighbors'[e.nb][e.worst] > 0
        /\ \A x \in S : \E e \in todo' : e.nb = x
        /\ S = {} => todo' = {}
    BY <2>4, <2>5
  <2>7. TypeOK'
    BY <1>1, <1>2, <1>3, <2>1, <2>3, <2>6 DEF TypeOK
  <2>8. LinkInv'
    <3> SUFFICES ASSUME S # {} PROVE LinkInv'
      BY <2>1 DEF LinkInv
    <3>1. id' = s /\ s \in Live(nodes')
      BY <1>2, <2>1
    <3>2. out_neighbors'[s][s] > 0 \/ \A e \in todo' : e.nb # s /\ e.nb \in Live(nodes')
      BY <2>2, <2>3, <2>6
    <3> QED BY <2>6, <3>1, <3>2 DEF LinkInv
  <2>9. EntryLive' /\ RelinkInv' /\ RepairInv' /\ Clears
    BY <1>1, <1>2, <2>1 DEF IInv, EntryLive, RelinkInv, RepairInv, Clears
  <2>10. Keeps
    <3> SUFFICES ASSUME EdgesTracked, NEW x \in Live(nodes)', NEW t \in Elems(out_neighbors[x])'
                 PROVE  Tracked(x, t)'
      BY DEF Keeps, EdgesTracked
    <3>1. s \notin S
      <4>1. Live(nodes) \in SUBSET Live(nodes') /\ s \notin Live(nodes)
        BY <1>2
      <4>2. entry_point \in Live(nodes)
        BY <1>5 DEF IInv, EntryLive
      <4>3. \A y \in Live(nodes) : Elems(out[y]) \subseteq Live(nodes)
        BY <1>1, <1>2, <4>1 DEF EdgesTracked, Tracked, out, Live
      <4>4. Closed(nodes', out, Live(nodes))
        BY <4>2, <4>3 DEF Closed
      <4>5. s \notin Reachable(nodes', out)
        BY <4>1, <4>4 DEF Reachable
      <4> QED BY <4>5 DEF Selections
    <3>2. CASE x = s
      <4>1. t \in S
        BY <2>3, <3>2 DEF Elems
      <4> QED BY <2>1, <2>2, <2>6, <3>1, <3>2, <4>1 DEF Tracked
    <3>3. CASE x # s
      <4>1. x \in Live(nodes) /\ t \in Elems(out_neighbors[x]) /\ t \in Slots
        BY <1>2, <2>3, <3>3 DEF Elems, Live
      <4>2. Tracked(x, t)
        BY <4>1 DEF EdgesTracked
      <4> QED BY <1>1, <1>2, <1>3, <4>1, <4>2 DEF Tracked
    <3> QED BY <3>2, <3>3
  <2> QED BY <2>7, <2>8, <2>9, <2>10 DEF Good, IInv
<1> QED BY <1>4, <1>5

\* A neighbour that is told of the new node records the edge to it, and the
\* new node the edge back, unless a list is full.
LEMMA LinkStep ==
    ASSUME IInv, Link
    PROVE  Good
<1> DEFINE Told(d) == [in_neighbors EXCEPT ![d.nb] = Track(@, id)]
<1>1. PICK d \in todo :
        /\ out_neighbors' = [out_neighbors EXCEPT ![d.nb] = Linked(out_neighbors[d.nb], d)]
        /\ in_neighbors' = IF d.kind = "skip" THEN Told(d)
                           ELSE [Told(d) EXCEPT ![id] = Track(@, d.nb)]
        /\ Advance(todo \ {d})
  BY DEF Link
<1>2. /\ pc = "link" /\ UNCHANGED <<nodes, entry_point, calls>>
      /\ todo' = todo \ {d} /\ pc' = IF todo' = {} THEN "idle" ELSE "link"
      /\ id' = IF todo' = {} THEN NoSlot ELSE id
  BY <1>1 DEF Link, Advance
<1>3. /\ nodes \in [Slots -> Vecs \cup {Missing}] /\ todo \in SUBSET Decisions
      /\ out_neighbors \in [Slots -> Lists] /\ in_neighbors \in [Slots -> Lists]
      /\ id \in Slots /\ id \in Live(nodes) /\ d \in Decisions /\ d.nb \in Slots
      /\ out_neighbors[id][id] > 0 \/ \A e \in todo : e.nb # id /\ e.nb \in Live(nodes)
      /\ \A e, f \in todo : e.nb = f.nb => e = f
      /\ \A e \in todo : e.kind = "replace" =>
            e.worst \in Slots /\ out_neighbors[e.nb][e.worst] > 0
  BY <1>1, <1>2 DEF IInv, TypeOK, LinkInv, Decisions
<1>4. /\ Linked(out_neighbors[d.nb], d) \in Lists
      /\ \A t \in Slots : Linked(out_neighbors[d.nb], d)[t] > 0 => out_neighbors[d.nb][t] > 0
                                             \/ (t = id /\ d.kind # "skip")
      /\ out_neighbors[d.nb][id] > 0 => Linked(out_neighbors[d.nb], d)[id] > 0
  <2> DEFINE list == out_neighbors[d.nb]
  <2>0. list \in Lists /\ \A x \in Slots : x # id => x \in Slots \ {id}
    BY <1>3
  <2> HIDE DEF list
  <2>1. CASE d.kind = "skip"
    <3>1. Linked(list, d) = list
      BY <2>1 DEF Linked
    <3> QED BY <2>0, <3>1 DEF list
  <2>2. CASE d.kind = "add"
    <3>1. Linked(list, d) = Add(list, id)
      BY <2>2 DEF Linked
    <3>2. /\ Add(list, id) \in Lists /\ Add(list, id)[id] > 0
          /\ \A t \in Slots \ {id} : Add(list, id)[t] = list[t]
      BY <1>3, <2>0, ListFacts
    <3> QED BY <1>3, <2>0, <2>2, <3>1, <3>2 DEF list
  <2>3. CASE d.kind = "replace"
    <3> DEFINE less == [list EXCEPT ![d.worst] = @ - 1]
    <3>1. /\ less \in Lists
          /\ \A t \in Slots : less[t] > 0 => list[t] > 0
      BY <1>3, <2>0, <2>3 DEF Lists, list
    <3>2. Linked(list, d) = Add(less, id) /\ Add(less, id)[id] > 0
      BY <1>3, <2>3, <3>1, ListFacts DEF Linked
    <3> HIDE DEF less
    <3>3. /\ Add(less, id) \in Lists
          /\ \A t \in Slots \ {id} : Add(less, id)[t] = less[t]
      BY <1>3, <3>1, ListFacts
    <3> QED BY <1>3, <2>0, <2>3, <3>1, <3>2, <3>3 DEF list
  <2> QED BY <1>3, <2>1, <2>2, <2>3 DEF Decisions
<1>5. /\ out_neighbors' \in [Slots -> Lists] /\ out_neighbors'[d.nb] = Linked(out_neighbors[d.nb], d)
      /\ \A x \in Slots \ {d.nb} : out_neighbors'[x] = out_neighbors[x]
  BY <1>1, <1>3, <1>4
<1>6. /\ Told(d) \in [Slots -> Lists]
      /\ \A x, y \in Slots : in_neighbors[x][y] > 0 => Told(d)[x][y] > 0
      /\ Told(d)[d.nb][id] > 0 \/ Full(Told(d)[d.nb])
  BY <1>3, ListFacts
<1> HIDE DEF Told
<1>7. /\ in_neighbors' \in [Slots -> Lists]
      /\ \A x, y \in Slots : Told(d)[x][y] > 0 => in_neighbors'[x][y] > 0
      /\ d.kind # "skip" => in_neighbors'[id][d.nb] > 0 \/ Full(in_neighbors'[id])
      /\ d.nb # id => in_neighbors'[d.nb] = Told(d)[d.nb]
  BY <1>1, <1>3, <1>6, ListFacts
<1>8. TypeOK'
  BY <1>2, <1>3, <1>5, <1>7 DEF IInv, TypeOK
<1>9. LinkInv'
  <2> SUFFICES ASSUME pc' = "link" PROVE LinkInv'
    BY DEF LinkInv
  <2>1. /\ id' = id /\ todo' = todo \ {d} /\ nodes' = nodes
    BY <1>2
  <2>2. out_neighbors[id][id] > 0 => out_neighbors'[id][id] > 0
    BY <1>3, <1>4, <1>5
  <2>3. \A e \in todo' : e.nb # d.nb /\ e.nb \in Slots /\ e \in todo
    BY <1>3, <2>1 DEF Decisions
  <2>4. \A e \in todo' : e.kind = "replace" =>
            e.worst \in Slots /\ out_neighbors'[e.nb][e.worst] > 0
    BY <1>3, <1>5, <2>3
  <2> QED BY <1>3, <2>1, <2>2, <2>3, <2>4 DEF LinkInv
<1>10. EntryLive' /\ RelinkInv' /\ RepairInv' /\ Clears
  BY <1>2 DEF IInv, EntryLive, RelinkInv, RepairInv, Clears
<1>11. Keeps
  <2> SUFFICES ASSUME EdgesTracked, ~ ListFull', NEW s \in Live(nodes)',
                      NEW t \in Elems(out_neighbors[s])'
               PROVE  Tracked(s, t)'
    BY DEF Keeps, EdgesTracked
  <2>1. /\ s \in Live(nodes) /\ s \in Slots /\ t \in Slots /\ out_neighbors'[s][t] > 0
        /\ nodes' = nodes
    BY <1>2 DEF Elems, Live
  <2>2. \A e \in todo : e.nb # id /\ e.nb \in Live(nodes)
    BY <1>3 DEF EdgesTracked, Tracked, Elems
  <2>3. /\ in_neighbors'[d.nb][id] > 0
        /\ d.kind # "skip" => in_neighbors'[id][d.nb] > 0
    <3>1. ~ Full(in_neighbors'[d.nb]) /\ ~ Full(in_neighbors'[id])
      BY <1>2, <1>3, <2>2 DEF ListFull
    <3> QED BY <1>3, <1>6, <1>7, <2>2, <3>1
  <2>4. CASE out_neighbors[s][t] > 0
    <3>1. Tracked(s, t)
      BY <2>1, <2>4 DEF EdgesTracked, Elems
    <3>2. CASE in_neighbors[t][s] > 0
      <4>1. in_neighbors'[t][s] > 0
        BY <1>6, <1>7, <2>1, <3>2
      <4> QED BY <2>1, <3>1, <4>1 DEF Tracked
    <3>3. CASE s = id /\ \E e \in todo : e.nb = t
      <4>1. PICK e \in todo : e.nb = t
        BY <3>3
      <4>2. CASE e = d
        BY <2>1, <2>3, <3>1, <3>3, <4>1, <4>2 DEF Tracked
      <4>3. CASE e # d
        <5>1. e \in todo' /\ pc' = "link" /\ id' = id
          BY <1>2, <4>3
        <5> QED BY <2>1, <3>1, <3>3, <4>1, <5>1 DEF Tracked
      <4> QED BY <4>2, <4>3
    <3> QED BY <3>1, <3>2, <3>3 DEF Tracked
  <2>5. CASE ~ (out_neighbors[s][t] > 0)
    <3>1. s = d.nb /\ t = id /\ d.kind # "skip"
      BY <1>4, <1>5, <2>1, <2>5
    <3> QED BY <1>3, <2>1, <2>2, <2>3, <3>1 DEF Tracked
  <2> QED BY <2>4, <2>5
<1> QED BY <1>8, <1>9, <1>10, <1>11 DEF Good, IInv

\* The edges to a node are gone if it lists their nodes; what replaces them
\* leads from a live node to another.
LEMMA DeleteStep ==
    ASSUME IInv, NEW s \in Slots, Delete(s)
    PROVE  Good
<1> DEFINE I == Elems(in_neighbors[s]) \cap Live(nodes')
           R(x) == Replacements(nodes', out_neighbors', x, nodes[s])
           N == {x \in I : R(x) # {}}
<1>1. /\ pc = "idle" /\ calls' \in 0 .. MaxCalls /\ nodes[s] # Missing
      /\ nodes' = [nodes EXCEPT ![s] = Missing]
      /\ nodes \in [Slots -> Vecs \cup {Missing}]
      /\ out_neighbors \in [Slots -> Lists] /\ in_neighbors \in [Slots -> Lists]
      /\ in_neighbors' = in_neighbors /\ pc' = "relink" /\ id' = s
      /\ entry_point' \in NewEntry(s, nodes')
  BY InPlaceAssumption DEF Delete, Call, IInv, TypeOK
<1>2. /\ nodes' \in [Slots -> Vecs \cup {Missing}]
      /\ Live(nodes') = Live(nodes) \ {s} /\ Live(nodes') \subseteq Slots
  BY <1>1, LiveFacts
<1>3. /\ out_neighbors' = [x \in Slots |-> IF x \in I THEN Without(out_neighbors[x], s)
                                         ELSE out_neighbors[x]]
      /\ \E r \in [N -> Slots] :
            /\ \A x \in N : r[x] \in R(x)
            /\ todo' = {[nb |-> x, to |-> r[x], times |-> in_neighbors[s][x]] : x \in N}
  BY DEF Delete
<1>4. PICK r \in [N -> Slots] :
        /\ \A x \in N : r[x] \in R(x)
        /\ todo' = {[nb |-> x, to |-> r[x], times |-> in_neighbors[s][x]] : x \in N}
  BY <1>3
<1>5. /\ out_neighbors' \in [Slots -> Lists]
      /\ \A x \in Slots : out_neighbors'[x] =
            IF x \in I THEN Without(out_neighbors[x], s) ELSE out_neighbors[x]
  BY <1>1, <1>3, ListFacts
<1>6. \A x \in N : /\ x \in Slots /\ x \in Live(nodes') /\ in_neighbors[s][x] > 0
                   /\ in_neighbors[s][x] \in Nat
                   /\ r[x] \in Live(nodes') /\ r[x] # x
  <2> SUFFICES ASSUME NEW x \in N
               PROVE  /\ x \in Slots /\ x \in Live(nodes') /\ in_neighbors[s][x] > 0
                      /\ in_neighbors[s][x] \in Nat
                      /\ r[x] \in Live(nodes') /\ r[x] # x
    OBVIOUS
  <2>1. /\ x \in Slots /\ x \in Live(nodes') /\ in_neighbors[s][x] > 0
        /\ in_neighbors[s][x] \in Nat
    BY <1>1 DEF Elems, Lists
  <2>2. R(x) \subseteq Live(nodes') \ {x}
    BY TwoHopFacts
  <2> QED BY <1>4, <2>1, <2>2
<1> HIDE DEF R, N
<1>7. todo' \in SUBSET Relinks
  BY <1>4, <1>6 DEF Relinks
<1>8. EntryLive' /\ entry_point' \in Slots \cup {NoSlot}
  <2>1. EntryLive
    BY DEF IInv
  <2> QED BY <1>1, <1>2, <2>1 DEF NewEntry, EntryLive
<1>9. TypeOK'
  BY <1>1, <1>2, <1>5, <1>7, <1>8 DEF TypeOK
<1>10. RelinkInv'
  <2> SUFFICES ASSUME NEW d \in todo'
               PROVE  /\ d.nb \in Live(nodes') /\ d.to \in Live(nodes')
                      /\ d.nb # d.to /\ d.times > 0
    BY <1>1, <1>2 DEF RelinkInv
  <2>1. PICK x \in N : d = [nb |-> x, to |-> r[x], times |-> in_neighbors[s][x]]
    BY <1>4
  <2> QED BY <1>6, <2>1
<1>11. LinkInv' /\ RepairInv' /\ Clears
  BY <1>1 DEF LinkInv, RepairInv, Clears
<1>12. Keeps
  <2> SUFFICES ASSUME EdgesTracked, NEW x \in Live(nodes)', NEW t \in Elems(out_neighbors[x])'
               PROVE  Tracked(x, t)'
    BY DEF Keeps, EdgesTracked
  <2>1. x \in Live(nodes) /\ x \in Slots /\ t \in Slots /\ out_neighbors'[x][t] > 0
    BY <1>2 DEF Elems
  <2>2. out_neighbors[x][t] > 0 /\ (x \in I => t # s)
    <3>1. out_neighbors[x] \in Lists
      BY <1>1, <2>1
    <3>2. CASE x \in I
      <4>1. out_neighbors'[x] = Without(out_neighbors[x], s)
        BY <1>5, <2>1, <3>2
      <4> QED BY <2>1, <3>1, <4>1, <3>2 DEF Without, Lists
    <3>3. CASE x \notin I
      BY <1>5, <2>1, <3>3
    <3> QED BY <3>2, <3>3
  <2>3. Tracked(x, t)
    BY <2>1, <2>2 DEF EdgesTracked, Elems
  <2>4. in_neighbors[t][x] > 0 /\ t \in Live(nodes) /\ x # t
    BY <1>1, <2>3 DEF Tracked
  <2>5. t # s
    BY <2>1, <2>2, <2>4 DEF Elems
  <2> QED BY <1>1, <1>2, <2>4, <2>5 DEF Tracked
<1> QED BY <1>8, <1>9, <1>10, <1>11, <1>12 DEF Good, IInv

\* A replacement is recorded unless its list is full.
LEMMA RelinkStep ==
    ASSUME IInv, Relink
    PROVE  Good
<1>1. PICK d \in todo :
        /\ out_neighbors' = [out_neighbors EXCEPT ![d.nb] =
               IF @[d.to] > 0 THEN @ ELSE Add(@, d.to)]
        /\ in_neighbors' = [in_neighbors EXCEPT ![d.to] = Track(@, d.nb)]
        /\ todo' = (todo \ {d}) \cup
                      (IF d.times = 1 THEN {} ELSE {[d EXCEPT !.times = @ - 1]})
  BY DEF Relink
<1>2. pc = "relink" /\ UNCHANGED <<nodes, entry_point, pc, id, calls>>
  BY DEF Relink
<1>3. /\ nodes \in [Slots -> Vecs \cup {Missing}] /\ todo \in SUBSET Relinks
      /\ out_neighbors \in [Slots -> Lists] /\ in_neighbors \in [Slots -> Lists]
      /\ d \in Relinks /\ d.nb \in Slots /\ d.to \in Slots /\ d.times \in Nat
      /\ \A e \in todo : /\ e.nb \in Live(nodes) /\ e.to \in Live(nodes)
                         /\ e.nb # e.to /\ e.times > 0
  BY <1>1, <1>2 DEF IInv, TypeOK, RelinkInv, Relinks
<1>4. /\ out_neighbors' \in [Slots -> Lists]
      /\ \A x, y \in Slots : out_neighbors'[x][y] > 0 =>
            out_neighbors[x][y] > 0 \/ (x = d.nb /\ y = d.to)
  <2> DEFINE list == out_neighbors[d.nb]
  <2>1. list \in Lists
    BY <1>3
  <2> HIDE DEF list
  <2>2. /\ Add(list, d.to) \in Lists
        /\ \A x \in Slots \ {d.to} : Add(list, d.to)[x] = list[x]
    BY <1>3, <2>1, ListFacts
  <2> QED BY <1>1, <1>3, <2>2 DEF list
<1>5. /\ in_neighbors' \in [Slots -> Lists]
      /\ \A x, y \in Slots : in_neighbors[x][y] > 0 => in_neighbors'[x][y] > 0
      /\ in_neighbors'[d.to][d.nb] > 0 \/ Full(in_neighbors'[d.to])
  BY <1>1, <1>3, ListFacts
<1>6. /\ todo' \in SUBSET Relinks
      /\ \A e \in todo' : /\ e.nb \in Live(nodes) /\ e.to \in Live(nodes)
                          /\ e.nb # e.to /\ e.times > 0
  <2> DEFINE again == [d EXCEPT !.times = @ - 1]
  <2>1. d.times # 1 => /\ again \in Relinks /\ again.nb = d.nb /\ again.to = d.to
                       /\ again.times > 0
    BY <1>3 DEF Relinks
  <2> QED BY <1>1, <1>3, <2>1
<1>7. TypeOK'
  BY <1>2, <1>4, <1>5, <1>6 DEF IInv, TypeOK
<1>8. EntryLive' /\ LinkInv' /\ RelinkInv' /\ RepairInv' /\ Clears
  BY <1>2, <1>6 DEF IInv, EntryLive, LinkInv, RelinkInv, RepairInv, Clears
<1>9. Keeps
  <2> SUFFICES ASSUME EdgesTracked, ~ ListFull', NEW s \in Live(nodes)',
                      NEW t \in Elems(out_neighbors[s])'
               PROVE  Tracked(s, t)'
    BY DEF Keeps, EdgesTracked
  <2>1. /\ s \in Live(nodes) /\ s \in Slots /\ t \in Slots /\ out_neighbors'[s][t] > 0
        /\ nodes' = nodes
    BY <1>2 DEF Elems, Live
  <2>2. CASE out_neighbors[s][t] > 0
    <3>1. Tracked(s, t)
      BY <2>1, <2>2 DEF EdgesTracked, Elems
    <3> QED BY <1>2, <1>5, <2>1, <3>1 DEF Tracked
  <2>3. CASE s = d.nb /\ t = d.to
    <3>1. in_neighbors'[t][s] > 0
      BY <1>2, <1>3, <1>5, <2>3 DEF ListFull
    <3> QED BY <1>3, <2>1, <2>3, <3>1 DEF Tracked
  <2> QED BY <1>4, <2>1, <2>2, <2>3
<1> QED BY <1>7, <1>8, <1>9 DEF Good, IInv

\* The slot of a deleted node is in no list that counts.
LEMMA FinishDeleteStep ==
    ASSUME IInv, FinishDelete
    PROVE  Good
<1>1. /\ pc = "relink" /\ pc' = "idle" /\ id' = NoSlot /\ todo = {}
      /\ UNCHANGED <<nodes, entry_point, todo, calls>>
      /\ out_neighbors' = [out_neighbors EXCEPT ![id] = Nil]
      /\ in_neighbors' = [x \in Slots |->
            IF x = id THEN Nil
            ELSE IF x \in Elems(out_neighbors[id]) THEN Without(in_neighbors[x], id)
            ELSE in_neighbors[x]]
  BY DEF FinishDelete
<1>2. /\ nodes \in [Slots -> Vecs \cup {Missing}]
      /\ out_neighbors \in [Slots -> Lists] /\ in_neighbors \in [Slots -> Lists]
      /\ id \in Slots /\ id \notin Live(nodes)
  BY <1>1 DEF IInv, TypeOK, RelinkInv
<1>3. Nil \in Lists
  BY DEF Nil, Lists
<1>4. /\ out_neighbors' \in [Slots -> Lists]
      /\ \A x \in Slots \ {id} : out_neighbors'[x] = out_neighbors[x]
  BY <1>1, <1>2, <1>3
<1>5. /\ in_neighbors' \in [Slots -> Lists]
      /\ \A x, y \in Slots \ {id} : in_neighbors'[x][y] = in_neighbors[x][y]
  <2> SUFFICES ASSUME NEW x \in Slots
               PROVE  /\ in_neighbors'[x] \in Lists
                      /\ x # id => \A y \in Slots \ {id} : in_neighbors'[x][y] = in_neighbors[x][y]
    BY <1>1
  <2>1. in_neighbors[x] \in Lists
    BY <1>2
  <2>2. /\ Without(in_neighbors[x], id) \in Lists
        /\ \A y \in Slots \ {id} : Without(in_neighbors[x], id)[y] = in_neighbors[x][y]
    BY <1>2, <2>1, ListFacts
  <2> QED BY <1>1, <1>3, <2>1, <2>2
<1>6. TypeOK'
  BY <1>1, <1>4, <1>5 DEF IInv, TypeOK
<1>7. EntryLive' /\ LinkInv' /\ RelinkInv' /\ RepairInv' /\ Clears
  BY <1>1 DEF IInv, EntryLive, LinkInv, RelinkInv, RepairInv, Clears
<1>8. Keeps
  <2> SUFFICES ASSUME EdgesTracked, NEW s \in Live(nodes)', NEW t \in Elems(out_neighbors[s])'
               PROVE  Tracked(s, t)'
    BY DEF Keeps, EdgesTracked
  <2>1. /\ s \in Live(nodes) /\ s \in Slots \ {id} /\ t \in Elems(out_neighbors[s])
        /\ nodes' = nodes
    BY <1>1, <1>2, <1>4 DEF Elems, Live
  <2>2. Tracked(s, t) /\ t \in Slots \ {id}
    BY <1>2, <2>1 DEF EdgesTracked, Tracked, Live
  <2> QED BY <1>1, <1>5, <2>1, <2>2 DEF Tracked
<1> QED BY <1>6, <1>7, <1>8 DEF Good, IInv

\* A repair starts with all the nodes that need it.
LEMMA RepairStep ==
    ASSUME IInv, Repair
    PROVE  Good
<1>1. /\ pc = "idle" /\ calls' \in 0 .. MaxCalls /\ pc' = "repair"
      /\ todo' = Dangling(nodes, out_neighbors)
      /\ UNCHANGED <<nodes, out_neighbors, in_neighbors, entry_point, id>>
  BY InPlaceAssumption DEF Repair, Call, IInv, TypeOK
<1>2. Dangling(nodes, out_neighbors) \in SUBSET Slots
  BY DEF Dangling, Live
<1>3. TypeOK' /\ EntryLive' /\ LinkInv' /\ RelinkInv' /\ RepairInv' /\ Clears
  BY <1>1, <1>2 DEF IInv, TypeOK, EntryLive, LinkInv, RelinkInv, RepairInv, Clears
<1>4. Keeps
  BY <1>1 DEF Keeps, EdgesTracked, Tracked
<1> QED BY <1>3, <1>4 DEF Good, IInv

\* The node that is repaired has no edge to an empty slot any more, and no
\* other node gets one.  Nothing needs repair while every edge is tracked.
LEMMA RepairNodeStep ==
    ASSUME IInv, RepairNode
    PROVE  Good
<1> DEFINE C(s) == TwoHop(nodes, [out_neighbors EXCEPT ![s] = Valid(s)], s)
<1>1. PICK s \in todo : \E T, P \in SUBSET C(s) : /\ Rewire(s, Valid(s), C(s), T, P)
                                                 /\ Advance(todo \ {s})
  <2> DEFINE U(s) == {c \in C(s) : BackEdges /\ in_neighbors[s][c] = 0}
             room(list, limit) == IF Size(list) < limit THEN limit - Size(list) ELSE 0
  <2>1. PICK s \in todo :
          \E T \in NearestSets(nodes, nodes[s], C(s), room(Valid(s), MaxDegree)),
             P \in NearestSets(nodes, nodes[s], U(s), room(in_neighbors[s], MaxInNeighbors)) :
                Rewire(s, Valid(s), C(s), T, P) /\ Advance(todo \ {s})
    BY Zenon DEF RepairNode
  <2> HIDE DEF room
  <2>2. PICK T \in NearestSets(nodes, nodes[s], C(s), room(Valid(s), MaxDegree)),
             P \in NearestSets(nodes, nodes[s], U(s), room(in_neighbors[s], MaxInNeighbors)) :
                Rewire(s, Valid(s), C(s), T, P) /\ Advance(todo \ {s})
    BY <2>1, Zenon
  <2>3. U(s) \subseteq C(s)
    OBVIOUS
  <2> HIDE DEF C, U
  <2>4. T \in SUBSET C(s) /\ P \in SUBSET C(s)
    <3>1. T \subseteq C(s) /\ P \subseteq U(s)
      BY DEF NearestSets
    <3> QED BY <2>3, <3>1, Zenon
  <2> QED BY <2>2, <2>4, Zenon
<1>2. PICK T \in SUBSET C(s), P \in SUBSET C(s) :
        Rewire(s, Valid(s), C(s), T, P) /\ Advance(todo \ {s})
  BY <1>1
<1>3. /\ pc = "repair" /\ UNCHANGED <<nodes, entry_point, calls>>
      /\ todo' = todo \ {s} /\ pc' = IF todo' = {} THEN "idle" ELSE "repair"
  BY <1>2 DEF RepairNode, Advance
<1>4. /\ nodes \in [Slots -> Vecs \cup {Missing}] /\ todo = Dangling(nodes, out_neighbors)
      /\ out_neighbors \in [Slots -> Lists] /\ in_neighbors \in [Slots -> Lists]
      /\ s \in Slots /\ s \in Live(nodes) /\ Live(nodes) \subseteq Slots
  BY <1>3 DEF IInv, TypeOK, RepairInv, Dangling, Live
<1>5. T \subseteq Live(nodes)
  BY TwoHopFacts
<1>6. /\ Valid(s) \in Lists
      /\ \A y \in Slots : Valid(s)[y] > 0 => y \in Live(nodes)
  BY <1>4 DEF Valid, Lists, Live
<1> HIDE DEF C
<1>7. /\ out_neighbors' \in [Slots -> Lists]
      /\ Elems(out_neighbors'[s]) \subseteq Live(nodes)
      /\ \A x \in Slots \ {s} : \A y \in Slots :
            out_neighbors'[x][y] > 0 <=> out_neighbors[x][y] > 0
                                         \/ (y = s /\ out_neighbors'[x][y] > 0)
  <2> SUFFICES ASSUME NEW x \in Slots
               PROVE  /\ out_neighbors'[x] \in Lists
                      /\ x = s => Elems(out_neighbors'[x]) \subseteq Live(nodes)
                      /\ x # s => \A y \in Slots :
                            out_neighbors'[x][y] > 0 <=> out_neighbors[x][y] > 0
                                         \/ (y = s /\ out_neighbors'[x][y] > 0)
    BY <1>2, <1>4 DEF Rewire
  <2>1. CASE x = s
    <3>1. out_neighbors'[x] = [y \in Slots |-> IF y \in T THEN 1 ELSE Valid(s)[y]]
      BY <1>2, <1>4, <2>1 DEF Rewire
    <3> QED BY <1>5, <1>6, <2>1, <3>1 DEF Elems, Lists
  <2>2. CASE x # s
    <3>1. out_neighbors[x] \in Lists
      BY <1>4
    <3>2. /\ Add(out_neighbors[x], s) \in Lists /\ Add(out_neighbors[x], s)[s] > 0
          /\ \A y \in Slots \ {s} : Add(out_neighbors[x], s)[y] = out_neighbors[x][y]
      BY <1>4, <3>1, ListFacts
    <3>3. out_neighbors'[x] = out_neighbors[x] \/ out_neighbors'[x] = Add(out_neighbors[x], s)
      BY <1>2, <2>2 DEF Rewire
    <3> QED BY <1>4, <2>2, <3>1, <3>2, <3>3
  <2> QED BY <2>1, <2>2
<1>8. in_neighbors' \in [Slots -> Lists]
  <2> SUFFICES ASSUME NEW x \in Slots PROVE in_neighbors'[x] \in Lists
    BY <1>2 DEF Rewire
  <2>1. CASE x = s
    <3>1. in_neighbors'[x] = [y \in Slots |-> IF y \in P THEN 1 ELSE in_neighbors[s][y]]
      BY <1>2, <2>1 DEF Rewire
    <3> QED BY <1>4, <3>1 DEF Lists
  <2>2. CASE x # s
    <3>1. in_neighbors[x] \in Lists /\ Track(in_neighbors[x], s) \in Lists
      BY <1>4, ListFacts
    <3> QED BY <1>2, <2>2, <3>1 DEF Rewire
  <2> QED BY <2>1, <2>2
<1>9. TypeOK'
  <2>1. todo \in SUBSET Slots
    BY <1>3 DEF IInv, TypeOK
  <2> QED BY <1>3, <1>7, <1>8, <2>1 DEF IInv, TypeOK
<1>10. Dangling(nodes, out_neighbors)' = todo'
  <2> SUFFICES ASSUME NEW x \in Live(nodes)
               PROVE  ~ (Elems(out_neighbors'[x]) \subseteq Live(nodes)) <=>
                          x # s /\ ~ (Elems(out_neighbors[x]) \subseteq Live(nodes))
    BY <1>3, <1>4 DEF Dangling
  <2>1. CASE x = s
    BY <1>7, <2>1
  <2>2. CASE x # s
    BY <1>4, <1>7, <2>2 DEF Elems
  <2> QED BY <2>1, <2>2
<1>11. EntryLive' /\ LinkInv' /\ RelinkInv' /\ RepairInv' /\ Clears
  BY <1>3, <1>10 DEF IInv, EntryLive, LinkInv, RelinkInv, RepairInv, Clears
<1>12. Keeps
  <2>1. ~ EdgesTracked
    BY <1>4 DEF EdgesTracked, Tracked, Dangling
  <2> QED BY <2>1 DEF Keeps
<1> QED BY <1>9, <1>11, <1>12 DEF Good, IInv

-----------------------------------------------------------------------------
(* The theorems                                                            *)

\* Every step of the graph is good.
LEMMA StepGood == IInv /\ [Next]_vars => Good
<1> SUFFICES ASSUME IInv, [Next]_vars PROVE Good
  OBVIOUS
<1>1. ASSUME NEW s \in Slots, NEW v \in Vecs, Insert(s, v) PROVE Good
  BY <1>1, InsertStep
<1>2. ASSUME NEW s \in Slots, Delete(s) PROVE Good
  BY <1>2, DeleteStep
<1> QED BY <1>1, <1>2, LinkStep, RelinkStep, FinishDeleteStep, RepairStep, RepairNodeStep,
           StutterStep DEF Next

\* The invariant holds in every state.
THEOREM Invariance == Spec => []IInv
<1>1. IInv /\ [Next]_vars => IInv'
  BY StepGood DEF Good
<1> QED BY InitInv, <1>1, PTL DEF Spec

\* Variables keep their types: counts do not go below zero when an edge is
\* replaced, and what is left of a loop fits the loop.
THEOREM TypeCorrect == Spec => []TypeOK
<1>1. IInv => TypeOK
  BY DEF IInv
<1> QED BY Invariance, <1>1, PTL

\* Searches start at a node, whatever was deleted.
THEOREM EntryLiveAlways == Spec => []EntryLive
<1>1. IInv => EntryLive
  BY DEF IInv
<1> QED BY Invariance, <1>1, PTL

\* Only a list of in-neighbours at its limit makes insert and delete lose
\* track of an edge.
THEOREM OnlyFullListsLoseTrackAlways == Spec => OnlyFullListsLoseTrack
<1>1. IInv /\ [Next]_vars => [EdgesTracked => EdgesTracked' \/ ListFull']_vars
  BY StepGood DEF Good, Keeps
<1> QED BY Invariance, <1>1, PTL DEF Spec, OnlyFullListsLoseTrack

\* After a repair no edge leads to an empty slot.
THEOREM RepairClearsAlways == Spec => RepairClears
<1>1. IInv /\ [Next]_vars =>
        [pc = "repair" /\ pc' = "idle" => Dangling(nodes, out_neighbors)' = {}]_vars
  BY StepGood DEF Good, Clears
<1> QED BY Invariance, <1>1, PTL DEF Spec, RepairClears
=============================================================================
