----------------------------- MODULE HnswProofs -----------------------------
(***************************************************************************)
(* Proofs about HnswIndex, for any ids and distances, any m and m_max, any *)
(* number of layers and any sequence of calls: types, DegreeBounded,       *)
(* NoEdgeToRemoved, EntryRemovedOnlyByLoad, and SmallIndexExact.           *)
(***************************************************************************)
EXTENDS HnswProperties, FiniteSetTheorems, TLAPS

-----------------------------------------------------------------------------
(* The inductive invariant                                                 *)

\* What holds of the locals of the loop that a call is in.
LoopInv ==
    /\ stage \in {"idle", "node", "search", "links"} => removing = {}
    /\ stage \in {"single", "batch"} => built /\ removing \subseteq Used
    /\ stage \in {"node", "search", "links"} =>
         ~built /\ entry_point \in Used /\ current \in 1 .. num_vectors
    /\ stage \in {"search", "links"} => current < num_vectors /\ layer \in Layers /\ at \in Nodes
    /\ stage = "links" => /\ layer <= layer_assignments[current]
                          /\ \A j \in todo : j \in Used /\ layer <= layer_assignments[j]

\* Every edge of a layer leads to a node of that layer: the repair of a node,
\* which stops at the layer it was assigned, leaves out none that leads to it.
EdgesWithinLayer ==
    \A l \in Layers, i \in Nodes : \A j \in neighbors[l][i] :
        j \in Used /\ l <= layer_assignments[j]

\* The layers that a repair is done with have no edge to what it takes out.
RepairProgress ==
    \A l \in Layers, i \in Nodes : l < layer => neighbors[l][i] \cap removing = {}

\* What was taken out has a tombstone, and nothing is before build.
RemovedMarked == removed \subseteq tombstones /\ (~built => removed = {})

IInv ==
    /\ TypeOK /\ LoopInv /\ EdgesWithinLayer /\ RepairProgress /\ RemovedMarked
    /\ DegreeBounded /\ NoEdgeToRemoved

-----------------------------------------------------------------------------
(* The choices that distances make                                         *)

\* There are finitely many nodes, and a cap is a positive number.
LEMMA NodeFacts ==
    /\ Cardinality(Docs) \in Nat /\ IsFiniteSet(Nodes) /\ Nodes \subseteq Nat
    /\ \A S \in SUBSET Nodes : IsFiniteSet(S) /\ Cardinality(S) \in Nat
    /\ \A l \in Layers : Cap(l) \in Nat \ {0}
    /\ Layers \subseteq Nat /\ 0 \in Layers
<1>1. Cardinality(Docs) \in Nat
  BY HnswAssumption, FS_CardinalityType
<1>2. IsFiniteSet(Nodes) /\ Nodes \subseteq Nat
  BY <1>1, FS_Interval DEF Nodes
<1>3. ASSUME NEW S \in SUBSET Nodes PROVE IsFiniteSet(S) /\ Cardinality(S) \in Nat
  BY <1>2, <1>3, FS_Subset, FS_CardinalityType
<1>4. \A l \in Layers : Cap(l) \in Nat \ {0}
  BY HnswAssumption DEF Cap
<1>5. Layers \subseteq Nat /\ 0 \in Layers
  BY HnswAssumption DEF Layers
<1> QED BY <1>1, <1>2, <1>3, <1>4, <1>5

\* The bounds of the loop variables.
LEMMA BoundFacts ==
    /\ Cardinality(Docs) \in Nat /\ MaxLayer \in Nat /\ 0 \in Layers
    /\ \A l \in Layers : l \in 0 .. MaxLayer + 1 /\ (l > 0 => l - 1 \in Layers)
BY NodeFacts, HnswAssumption DEF Layers

\* A part of a set of nodes is no larger.
LEMMA PartSize ==
    ASSUME NEW S \in SUBSET Nodes, NEW T \in SUBSET S
    PROVE  /\ Cardinality(T) <= Cardinality(S)
           /\ T # S => Cardinality(T) < Cardinality(S)
<1>1. IsFiniteSet(S) /\ Cardinality(S) \in Nat /\ Cardinality(T) \in Nat
  BY NodeFacts
<1>2. Cardinality(T) <= Cardinality(S) /\ (Cardinality(S) = Cardinality(T) => S = T)
  BY <1>1, FS_Subset
<1> QED BY <1>1, <1>2

\* An empty list fits into any layer.
LEMMA EmptyFits == \A l \in Layers : Cardinality({}) <= Cap(l)
<1> SUFFICES ASSUME NEW l \in Layers PROVE Cardinality({}) <= Cap(l)
  OBVIOUS
<1>1. Cap(l) \in Nat
  BY NodeFacts
<1>2. Cardinality({}) = 0
  BY FS_EmptySet
<1> QED BY <1>1, <1>2

\* Two sets of nodes together have at most as many as both.
LEMMA JoinSize ==
    ASSUME NEW S \in SUBSET Nodes, NEW T \in SUBSET Nodes
    PROVE  Cardinality(S \cup T) <= Cardinality(S) + Cardinality(T)
<1>1. IsFiniteSet(S) /\ IsFiniteSet(T)
  BY NodeFacts
<1>2. Cardinality(S \cup T) = Cardinality(S) + Cardinality(T) - Cardinality(S \cap T)
  BY <1>1, FS_Union
<1>3. S \cap T \in SUBSET Nodes /\ S \cup T \in SUBSET Nodes
  OBVIOUS
<1>4. /\ Cardinality(S) \in Nat /\ Cardinality(T) \in Nat
      /\ Cardinality(S \cap T) \in Nat /\ Cardinality(S \cup T) \in Nat
  BY <1>3, NodeFacts
<1> QED BY <1>2, <1>4

\* The nearest k are at most k.
LEMMA NearestFacts ==
    ASSUME NEW q, NEW C \in SUBSET Nodes, NEW k \in Nat, NEW T \in Nearest(q, C, k)
    PROVE  T \subseteq C /\ Cardinality(T) <= k
<1>1. T \subseteq C /\ ((Cardinality(C) <= k /\ T = C) \/ Cardinality(T) = k)
  BY DEF Nearest
<1> QED BY <1>1

\* What is selected for a list fits into it.
LEMMA SelectedFacts ==
    ASSUME NEW q, NEW C \in SUBSET Nodes, NEW k \in Nat, NEW S \in Selected(q, C, k)
    PROVE  S \subseteq C /\ Cardinality(S) <= k
<1>1. PICK T \in Diverse(q, C, k) :
        S \in {T \cup B : B \in Nearest(q, C \ T, k - Cardinality(T))}
  BY DEF Selected
<1>2. PICK B \in Nearest(q, C \ T, k - Cardinality(T)) : S = T \cup B
  BY <1>1
<1>3. T \subseteq C /\ Cardinality(T) <= k
  BY <1>1 DEF Diverse
<1>4. Cardinality(T) \in Nat
  BY <1>3, NodeFacts
<1>5. k - Cardinality(T) \in Nat
  BY <1>3, <1>4
<1>6. C \ T \in SUBSET Nodes
  OBVIOUS
<1>7. B \subseteq C \ T /\ Cardinality(B) <= k - Cardinality(T)
  BY <1>2, <1>5, <1>6, NearestFacts
<1>8. Cardinality(B) \in Nat /\ Cardinality(S) \in Nat
  BY <1>2, <1>3, <1>7, NodeFacts
<1>9. Cardinality(S) <= Cardinality(T) + Cardinality(B)
  BY <1>2, <1>3, <1>7, JoinSize
<1> QED BY <1>2, <1>3, <1>4, <1>7, <1>8, <1>9

\* A search visits nodes.
LEMMA ReachedNodes == \A l, i : Reached(l, i) \subseteq Nodes
BY DEF Reached

-----------------------------------------------------------------------------
(* Build                                                                   *)

\* Nothing is stored at first.
LEMMA InitIInv == Init => IInv
<1> SUFFICES ASSUME Init PROVE IInv
  OBVIOUS
<1>1. \A l \in Layers, i \in Nodes : neighbors[l][i] = {}
  BY DEF Init, Empty
<1>2. TypeOK
  <2>1. neighbors \in [Layers -> [Nodes -> SUBSET Nodes]]
    BY DEF Init, Empty
  <2>2. layer_assignments \in [Nodes -> Layers] /\ doc_ids \in [Nodes -> Docs \cup {NoDoc}]
    BY BoundFacts DEF Init
  <2>3. num_vectors \in 0 .. Cardinality(Docs) /\ current \in 0 .. Cardinality(Docs)
        /\ layer \in 0 .. MaxLayer + 1
    BY BoundFacts DEF Init
  <2> QED BY <2>1, <2>2, <2>3 DEF Init, TypeOK
<1>3. LoopInv /\ EdgesWithinLayer /\ RepairProgress /\ RemovedMarked /\ NoEdgeToRemoved
  BY <1>1 DEF Init, LoopInv, EdgesWithinLayer, RepairProgress, RemovedMarked, NoEdgeToRemoved
<1>4. DegreeBounded
  BY <1>1, EmptyFits DEF DegreeBounded
<1> QED BY <1>2, <1>3, <1>4 DEF IInv

\* A vector is staged.
LEMMA AddSliceIInv ==
    ASSUME IInv, NEW doc \in Docs, NEW l \in Layers, AddSlice(doc, l)
    PROVE  IInv'
<1>1. num_vectors \in Nodes /\ num_vectors' = num_vectors + 1 /\ Used \subseteq Used'
  BY NodeFacts DEF AddSlice, IInv, TypeOK, Used, Nodes
<1>2. TypeOK'
  <2>1. num_vectors' \in 0 .. Cardinality(Docs)
    BY <1>1, BoundFacts DEF Nodes
  <2>2. doc_ids' \in [Nodes -> Docs \cup {NoDoc}] /\ layer_assignments' \in [Nodes -> Layers]
    BY <1>1 DEF AddSlice, IInv, TypeOK
  <2> QED BY <2>1, <2>2 DEF AddSlice, IInv, TypeOK, buildVars
<1>3. \A j \in Used : layer_assignments'[j] = layer_assignments[j]
  BY <1>1, NodeFacts DEF AddSlice, IInv, TypeOK, Used, Nodes
<1>4. EdgesWithinLayer'
  BY <1>1, <1>3 DEF AddSlice, IInv, EdgesWithinLayer
<1>5. LoopInv' /\ RepairProgress' /\ RemovedMarked' /\ DegreeBounded' /\ NoEdgeToRemoved'
  BY DEF AddSlice, IInv, LoopInv, RepairProgress, RemovedMarked, DegreeBounded, NoEdgeToRemoved, buildVars
<1> QED BY <1>2, <1>4, <1>5 DEF IInv

\* Build starts on empty lists.
LEMMA BuildIInv == IInv /\ Build => IInv'
<1> SUFFICES ASSUME IInv, Build PROVE IInv'
  OBVIOUS
<1>1. \A l \in Layers, i \in Nodes : neighbors'[l][i] = {}
  BY DEF Build, Empty
<1>2. num_vectors \in Nat \ {0} /\ num_vectors <= Cardinality(Docs) /\ 0 \in Used /\ 0 \in Nodes
  BY NodeFacts DEF Build, IInv, TypeOK, Used, Nodes
<1>3. TypeOK'
  <2>1. neighbors' \in [Layers -> [Nodes -> SUBSET Nodes]]
    BY DEF Build, Empty
  <2>2. current' \in 0 .. Cardinality(Docs)
    BY <1>2, BoundFacts DEF Build
  <2> QED BY <1>2, <2>1, <2>2 DEF Build, IInv, TypeOK, dataVars
<1>4. LoopInv'
  BY <1>2 DEF Build, IInv, LoopInv, Used, dataVars
<1>5. EdgesWithinLayer' /\ RepairProgress' /\ RemovedMarked' /\ NoEdgeToRemoved'
  BY <1>1 DEF Build, dataVars, IInv, EdgesWithinLayer, RepairProgress, RemovedMarked, NoEdgeToRemoved
<1>6. DegreeBounded'
  BY <1>1, EmptyFits DEF DegreeBounded
<1> QED BY <1>3, <1>4, <1>5, <1>6 DEF IInv

\* The loops of build that lay no edge.
LEMMA SearchIInv == IInv /\ (BeginNode \/ Descend \/ EndLinks) => IInv'
<1> SUFFICES ASSUME IInv, BeginNode \/ Descend \/ EndLinks PROVE IInv'
  OBVIOUS
<1>1. Used \subseteq Nodes /\ Used \subseteq Nat /\ num_vectors \in Nat
  BY NodeFacts DEF IInv, TypeOK, Used, Nodes
<1>2. removing = {} /\ removing' = {} /\ built' = built
  BY DEF BeginNode, Descend, EndLinks, IInv, LoopInv
<1>3. RepairProgress' /\ EdgesWithinLayer' /\ RemovedMarked' /\ DegreeBounded' /\ NoEdgeToRemoved'
  <2>1. UNCHANGED <<neighbors, num_vectors, layer_assignments, removed, tombstones, built>>
    BY DEF BeginNode, Descend, EndLinks, dataVars
  <2>2. RepairProgress'
    BY <1>2 DEF RepairProgress
  <2>3. EdgesWithinLayer' /\ RemovedMarked' /\ DegreeBounded' /\ NoEdgeToRemoved'
    BY <2>1 DEF IInv, EdgesWithinLayer, RemovedMarked, DegreeBounded, NoEdgeToRemoved, Used
  <2> QED BY <2>2, <2>3
<1>4. CASE BeginNode
  <2>1. layer_assignments[entry_point] \in Layers /\ entry_point \in Nodes
    BY <1>1, <1>4 DEF BeginNode, IInv, TypeOK, LoopInv
  <2>2. layer' \in Layers /\ layer' \in 0 .. MaxLayer + 1 /\ at' \in Nodes
    BY <1>4, <2>1, BoundFacts DEF BeginNode
  <2>3. TypeOK'
    BY <1>4, <2>2 DEF BeginNode, IInv, TypeOK, dataVars
  <2>4. LoopInv'
    BY <1>4, <2>2 DEF BeginNode, IInv, LoopInv, Used, dataVars
  <2> QED BY <1>3, <2>3, <2>4 DEF IInv
<1>5. CASE Descend
  <2>1. at' \in Nodes
    BY <1>5, ReachedNodes DEF Descend
  <2>2. current \in Nodes /\ layer \in Layers
    BY <1>1, <1>5 DEF Descend, IInv, LoopInv, Used
  <2>3. layer_assignments[current] \in Layers
    BY <2>2 DEF IInv, TypeOK
  <2>4. layer' \in Layers /\ layer' \in 0 .. MaxLayer + 1
    <3>1. layer > 0
      BY <1>5, <2>2, <2>3, BoundFacts DEF Descend, Layers
    <3> QED BY <1>5, <2>2, <3>1, BoundFacts DEF Descend
  <2>5. TypeOK'
    BY <1>5, <2>1, <2>4 DEF Descend, IInv, TypeOK, dataVars
  <2>6. LoopInv'
    BY <1>5, <2>1, <2>4 DEF Descend, IInv, LoopInv, Used, dataVars
  <2> QED BY <1>3, <2>5, <2>6 DEF IInv
<1>6. CASE EndLinks
  <2>1. current \in 1 .. num_vectors /\ current < num_vectors /\ layer \in Layers /\ at \in Nodes
    BY <1>6 DEF EndLinks, IInv, LoopInv
  <2>2. current \in Used /\ current + 1 \in 1 .. num_vectors
    BY <1>1, <2>1 DEF Used
  <2>3. layer > 0 => layer - 1 \in Layers /\ layer - 1 \in 0 .. MaxLayer + 1
    BY <2>1, BoundFacts
  <2>4. TypeOK'
    <3>1. current' \in 0 .. Cardinality(Docs)
      BY <1>6, <2>1, <2>2, BoundFacts DEF EndLinks, IInv, TypeOK
    <3>2. layer' \in 0 .. MaxLayer + 1
      BY <1>6, <2>3 DEF EndLinks, IInv, TypeOK
    <3>3. entry_point' \in Nodes \cup {NoNode}
      BY <1>1, <1>6, <2>2 DEF EndLinks, IInv, TypeOK
    <3>4. stage' \in {"search", "node"}
      BY <1>6 DEF EndLinks
    <3> QED BY <1>6, <3>1, <3>2, <3>3, <3>4 DEF EndLinks, IInv, TypeOK, dataVars
  <2>5. ASSUME layer > 0 PROVE LoopInv'
    BY <1>1, <1>6, <2>1, <2>3, <2>5 DEF EndLinks, IInv, LoopInv, Used, dataVars
  <2>6. ASSUME ~(layer > 0) PROVE LoopInv'
    BY <1>1, <1>6, <2>1, <2>2, <2>6 DEF EndLinks, IInv, LoopInv, Used, dataVars
  <2> QED BY <1>3, <2>4, <2>5, <2>6 DEF IInv
<1> QED BY <1>4, <1>5, <1>6

\* One list is replaced, in one layer, by one that fits and stays in the layer.
LEMMA RelistFacts ==
    ASSUME IInv, NEW n \in Nodes, NEW list \in SUBSET Nodes,
           stage \in {"search", "links"},
           neighbors' = [neighbors EXCEPT ![layer][n] = list],
           Cardinality(list) <= Cap(layer),
           \A j \in list : j \in Used /\ layer <= layer_assignments[j],
           UNCHANGED <<dataVars, layer, removing, removed, tombstones, built>>
    PROVE  /\ neighbors' \in [Layers -> [Nodes -> SUBSET Nodes]]
           /\ EdgesWithinLayer' /\ RepairProgress' /\ RemovedMarked' /\ DegreeBounded' /\ NoEdgeToRemoved'
<1>1. layer \in Layers /\ removing = {} /\ removed = {}
  BY DEF IInv, LoopInv, RemovedMarked
<1>2. neighbors \in [Layers -> [Nodes -> SUBSET Nodes]]
  BY DEF IInv, TypeOK
<1>3. neighbors' \in [Layers -> [Nodes -> SUBSET Nodes]]
  BY <1>1, <1>2
<1>4. \A l \in Layers, i \in Nodes :
        neighbors'[l][i] = IF l = layer /\ i = n THEN list ELSE neighbors[l][i]
  BY <1>1, <1>2
<1>5. EdgesWithinLayer'
  BY <1>4 DEF EdgesWithinLayer, IInv, dataVars, Used
<1>6. DegreeBounded'
  BY <1>4 DEF DegreeBounded, IInv
<1>7. RepairProgress' /\ RemovedMarked' /\ NoEdgeToRemoved'
  BY <1>1 DEF RepairProgress, RemovedMarked, NoEdgeToRemoved, IInv
<1> QED BY <1>3, <1>5, <1>6, <1>7

\* The new node gets its list.
LEMMA ConnectIInv == IInv /\ Connect => IInv'
<1> SUFFICES ASSUME IInv, Connect PROVE IInv'
  OBVIOUS
<1>1. /\ layer \in Layers /\ num_vectors \in Nat /\ Used \subseteq Nodes /\ Used \subseteq Nat
      /\ current \in Used
  BY NodeFacts DEF Connect, IInv, LoopInv, TypeOK, Used, Nodes
<1>2. PICK S \in Selected(current, Reached(layer, at), Cap(layer)) :
        /\ todo' = {j \in S : j < current /\ layer_assignments[j] >= layer}
        /\ neighbors' = [neighbors EXCEPT ![layer][current] = todo']
  BY DEF Connect
<1>3. S \subseteq Nodes /\ Cardinality(S) <= Cap(layer)
  BY <1>1, <1>2, ReachedNodes, NodeFacts, SelectedFacts
<1>4. todo' \subseteq S /\ todo' \subseteq Nodes
  BY <1>2, <1>3
<1>5. Cardinality(todo') <= Cap(layer)
  <2>1. Cardinality(todo') <= Cardinality(S)
    BY <1>3, <1>4, PartSize
  <2> QED BY <1>1, <1>3, <1>4, <2>1, NodeFacts
<1>6. \A j \in todo' : j \in Used /\ layer <= layer_assignments[j]
  <2> SUFFICES ASSUME NEW j \in todo' PROVE j \in Used /\ layer <= layer_assignments[j]
    OBVIOUS
  <2>1. j \in Nodes /\ j < current /\ layer_assignments[j] >= layer
    BY <1>2, <1>4
  <2>2. layer_assignments[j] \in Nat /\ layer \in Nat /\ j \in Nat
    BY <1>1, <2>1, NodeFacts DEF IInv, TypeOK
  <2> QED BY <1>1, <2>1, <2>2 DEF Used
<1>7. at' \in Nodes /\ stage = "search"
  BY ReachedNodes DEF Connect
<1>8. /\ neighbors' \in [Layers -> [Nodes -> SUBSET Nodes]]
      /\ EdgesWithinLayer' /\ RepairProgress' /\ RemovedMarked' /\ DegreeBounded' /\ NoEdgeToRemoved'
  BY <1>1, <1>2, <1>4, <1>5, <1>6, <1>7, RelistFacts DEF Connect
<1>9. TypeOK'
  BY <1>4, <1>7, <1>8 DEF Connect, IInv, TypeOK, dataVars
<1>10. LoopInv'
  BY <1>6, <1>7 DEF Connect, IInv, LoopInv, dataVars, Used
<1> QED BY <1>8, <1>9, <1>10 DEF IInv

\* A neighbour gets the reverse edge.
LEMMA LinkBackIInv == ASSUME IInv, NEW nid \in Nodes, LinkBack(nid) PROVE IInv'
<1>1. /\ layer \in Layers /\ num_vectors \in Nat /\ Used \subseteq Nodes /\ Used \subseteq Nat
      /\ current \in Used /\ layer <= layer_assignments[current]
  BY NodeFacts DEF LinkBack, IInv, LoopInv, TypeOK, Used, Nodes
<1>2. PICK list \in Linked(nid) : neighbors' = [neighbors EXCEPT ![layer][nid] = list]
  BY DEF LinkBack
<1> DEFINE all == neighbors[layer][nid] \cup {current}
<1>3. all \in SUBSET Nodes /\ Cap(layer) \in Nat /\ Cardinality(all) \in Nat
  BY <1>1, NodeFacts DEF IInv, TypeOK
<1>4. list \subseteq all /\ Cardinality(list) <= Cap(layer)
  <2>1. CASE Cardinality(all) <= Cap(layer)
    BY <1>2, <2>1 DEF Linked
  <2>2. CASE ~(Cardinality(all) <= Cap(layer))
    <3>1. list \in Selected(nid, all, Cap(layer))
      BY <1>2, <2>2 DEF Linked
    <3> QED BY <1>3, <3>1, SelectedFacts
  <2> QED BY <2>1, <2>2
<1>5. \A j \in list : j \in Used /\ layer <= layer_assignments[j]
  BY <1>1, <1>4 DEF IInv, EdgesWithinLayer
<1>6. list \in SUBSET Nodes /\ stage = "links"
  BY <1>3, <1>4 DEF LinkBack
<1> HIDE DEF all
<1>7. /\ neighbors' \in [Layers -> [Nodes -> SUBSET Nodes]]
      /\ EdgesWithinLayer' /\ RepairProgress' /\ RemovedMarked' /\ DegreeBounded' /\ NoEdgeToRemoved'
  BY <1>2, <1>4, <1>5, <1>6, RelistFacts DEF LinkBack
<1>8. TypeOK'
  BY <1>7 DEF LinkBack, IInv, TypeOK, dataVars
<1>9. LoopInv'
  BY DEF LinkBack, IInv, LoopInv, dataVars, Used
<1> QED BY <1>7, <1>8, <1>9 DEF IInv

\* The renumbering keeps the length of every list, and where its edges lead.
LEMMA RenumberedFacts ==
    ASSUME IInv, NEW old \in NewOrders, Renumbered(old), num_vectors' = num_vectors
    PROVE  /\ doc_ids' \in [Nodes -> Docs \cup {NoDoc}]
           /\ layer_assignments' \in [Nodes -> Layers]
           /\ neighbors' \in [Layers -> [Nodes -> SUBSET Nodes]]
           /\ tombstones' \in SUBSET Nodes
           /\ EdgesWithinLayer' /\ DegreeBounded'
<1>1. Used \subseteq Nodes /\ Used' = Used
  BY NodeFacts DEF IInv, TypeOK, Used, Nodes
<1>2. old \in [Used -> Used] /\ \A j, k \in Used : old[j] = old[k] => j = k
  BY DEF NewOrders
<1>3. \A k \in Used : old[k] \in Used /\ old[k] \in Nodes
  BY <1>1, <1>2
<1>4. doc_ids' \in [Nodes -> Docs \cup {NoDoc}] /\ tombstones' \in SUBSET Nodes
  BY <1>1, <1>3 DEF Renumbered, IInv, TypeOK
<1>5. layer_assignments' \in [Nodes -> Layers] /\ \A k \in Used : layer_assignments'[k] = layer_assignments[old[k]]
  BY <1>1, <1>3, NodeFacts DEF Renumbered, IInv, TypeOK
<1>6. \A l \in Layers, k \in Nodes : neighbors'[l][k] =
        IF k \in Used THEN {j \in Used : old[j] \in neighbors[l][old[k]]} ELSE {}
  BY DEF Renumbered
<1>7. neighbors' \in [Layers -> [Nodes -> SUBSET Nodes]]
  <2>1. neighbors' = [l \in Layers |-> [k \in Nodes |->
          IF k \in Used THEN {j \in Used : old[j] \in neighbors[l][old[k]]} ELSE {}]]
    BY DEF Renumbered
  <2>2. \A l \in Layers, k \in Nodes :
          (IF k \in Used THEN {j \in Used : old[j] \in neighbors[l][old[k]]} ELSE {}) \in SUBSET Nodes
    BY <1>1
  <2> QED BY <2>1, <2>2
<1>8. EdgesWithinLayer'
  <2> SUFFICES ASSUME NEW l \in Layers, NEW k \in Nodes, NEW j \in neighbors'[l][k]
               PROVE  j \in Used' /\ l <= layer_assignments'[j]
    BY DEF EdgesWithinLayer
  <2>1. k \in Used /\ j \in Used /\ old[j] \in neighbors[l][old[k]]
    BY <1>6
  <2>2. l <= layer_assignments[old[j]]
    BY <1>3, <2>1 DEF IInv, EdgesWithinLayer
  <2> QED BY <1>1, <1>5, <2>1, <2>2
<1>9. DegreeBounded'
  <2> SUFFICES ASSUME NEW l \in Layers, NEW k \in Nodes
               PROVE  Cardinality(neighbors'[l][k]) <= Cap(l)
    BY DEF DegreeBounded
  <2>1. CASE k \notin Used
    BY <1>6, <2>1, EmptyFits
  <2>2. CASE k \in Used
    <3> DEFINE list == neighbors[l][old[k]]
               new == {j \in Used : old[j] \in list}
               f == [j \in new |-> old[j]]
    <3>1. list \in SUBSET Nodes /\ Cardinality(list) <= Cap(l)
      BY <1>3, <2>2 DEF IInv, TypeOK, DegreeBounded
    <3>2. f \in Injection(new, list)
      BY <1>2 DEF Injection, IsInjective
    <3>3. IsFiniteSet(list) /\ new \in SUBSET Nodes
      BY <1>1, <3>1, NodeFacts
    <3> HIDE DEF f
    <3>4. Cardinality(new) <= Cardinality(list)
      BY <3>2, <3>3, FS_Injection
    <3>5. neighbors'[l][k] = new
      BY <1>6, <2>2
    <3>6. Cardinality(new) \in Nat /\ Cardinality(list) \in Nat /\ Cap(l) \in Nat
      BY <3>1, <3>3, NodeFacts
    <3> QED BY <3>1, <3>4, <3>5, <3>6
  <2> QED BY <2>1, <2>2
<1> QED BY <1>4, <1>5, <1>7, <1>8, <1>9

\* Build ends.
LEMMA EndBuildIInv == IInv /\ EndBuild => IInv'
<1> SUFFICES ASSUME IInv, EndBuild PROVE IInv'
  OBVIOUS
<1>1. num_vectors' = num_vectors /\ Used' = Used /\ Used \subseteq Nodes
  BY NodeFacts DEF EndBuild, IInv, TypeOK, Used, Nodes
<1>2. PICK old \in NewOrders : Renumbered(old)
  BY DEF EndBuild
<1>3. /\ doc_ids' \in [Nodes -> Docs \cup {NoDoc}]
      /\ layer_assignments' \in [Nodes -> Layers]
      /\ neighbors' \in [Layers -> [Nodes -> SUBSET Nodes]]
      /\ tombstones' \in SUBSET Nodes
      /\ EdgesWithinLayer' /\ DegreeBounded'
  BY <1>1, <1>2, RenumberedFacts
<1>4. entry_point' \in Nodes
  BY <1>1 DEF EndBuild
<1>5. removing' = {} /\ removed' = {}
  BY DEF EndBuild, IInv, LoopInv, RemovedMarked
<1>6. TypeOK'
  BY <1>3, <1>4 DEF EndBuild, IInv, TypeOK
<1>7. LoopInv' /\ RepairProgress' /\ RemovedMarked' /\ NoEdgeToRemoved'
  BY <1>5 DEF EndBuild, LoopInv, RepairProgress, RemovedMarked, NoEdgeToRemoved
<1> QED BY <1>3, <1>6, <1>7 DEF IInv

-----------------------------------------------------------------------------
(* Deletes, repairs and loading                                            *)

\* A tombstone changes no list.
LEMMA DeleteIInv == ASSUME IInv, NEW doc \in Docs, Delete(doc) PROVE IInv'
<1>1. tombstones \subseteq tombstones' /\ tombstones' \subseteq Nodes /\ gone' \subseteq Docs
  <2>1. NodesOf({doc}) \subseteq Nodes
    BY NodeFacts DEF NodesOf, IInv, TypeOK, Used, Nodes
  <2> QED BY <2>1 DEF Delete, IInv, TypeOK
<1>2. TypeOK'
  BY <1>1 DEF Delete, IInv, TypeOK, dataVars, buildVars
<1>3. LoopInv'
  BY DEF Delete, IInv, LoopInv, dataVars, buildVars, Used
<1>4. EdgesWithinLayer' /\ RepairProgress' /\ RemovedMarked' /\ DegreeBounded' /\ NoEdgeToRemoved'
  BY <1>1 DEF Delete, IInv, EdgesWithinLayer, RepairProgress, RemovedMarked,
              DegreeBounded, NoEdgeToRemoved, dataVars, Used
<1> QED BY <1>2, <1>3, <1>4 DEF IInv

\* A repair starts at layer 0, with no layer done.
LEMMA BeginRepairIInv ==
    ASSUME IInv, NEW docs \in SUBSET Docs, BeginRepair(docs), stage' \in {"single", "batch"}
    PROVE  IInv'
<1>1. NodesOf(docs) \subseteq Used /\ Used \subseteq Nodes /\ Used' = Used
  BY NodeFacts DEF BeginRepair, NodesOf, IInv, TypeOK, Used, Nodes, dataVars
<1>2. TypeOK'
  BY <1>1, BoundFacts DEF BeginRepair, IInv, TypeOK, dataVars, buildVars
<1>3. LoopInv'
  BY <1>1 DEF BeginRepair, LoopInv
<1>4. RepairProgress'
  <2> SUFFICES ASSUME NEW l \in Layers PROVE ~(l < layer')
    BY DEF RepairProgress
  <2> QED BY BoundFacts DEF BeginRepair, Layers
<1>5. EdgesWithinLayer' /\ RemovedMarked' /\ DegreeBounded' /\ NoEdgeToRemoved'
  BY <1>1 DEF BeginRepair, IInv, EdgesWithinLayer, RemovedMarked, DegreeBounded,
              NoEdgeToRemoved, dataVars
<1> QED BY <1>2, <1>3, <1>4, <1>5 DEF IInv

\* What a repair puts into the list of a node: what is left of it and some
\* nodes two hops away, as many as there is room for.
LEMMA RepairedParts ==
    ASSUME IInv, stage \in {"single", "batch"}, layer \in Layers,
           NEW i \in InNeighbors, NEW list \in Repaired(i)
    PROVE  \E T \in SUBSET TwoHops(i) :
             /\ list = Remaining(i) \cup T
             /\ Cardinality(Remaining(i)) + Cardinality(T) <= Cap(layer)
<1>1. i \in Nodes /\ neighbors[layer][i] \cap removing # {}
  BY DEF InNeighbors
<1>2. neighbors[layer] \in [Nodes -> SUBSET Nodes]
  BY DEF IInv, TypeOK
<1>3. TwoHops(i) \in SUBSET Nodes /\ neighbors[layer][i] \in SUBSET Nodes
  BY <1>1, <1>2 DEF TwoHops, Remaining
<1>4. Remaining(i) \subseteq neighbors[layer][i] /\ Remaining(i) # neighbors[layer][i]
  BY <1>1 DEF Remaining
<1> DEFINE left == Cardinality(Remaining(i))
           had == Cardinality(neighbors[layer][i])
<1>5. left < had
  BY <1>3, <1>4, PartSize
<1>6. left \in Nat /\ had \in Nat /\ Cap(layer) \in Nat /\ MMax \in Nat
  BY <1>3, <1>4, NodeFacts, HnswAssumption
<1>7. had <= Cap(layer)
  BY <1>1 DEF IInv, DegreeBounded
<1>8. CASE stage = "single"
  <2> DEFINE crescent == UNION {Crescent(i, x) : x \in removing}
             found == IF crescent # {} THEN crescent ELSE TwoHops(i)
             k == IF left < MMax THEN 1 ELSE 0
  <2>1. PICK T \in Nearest(i, found, k) : list = Remaining(i) \cup T
    BY <1>8 DEF Repaired, RepairedSingle
  <2>2. found \subseteq TwoHops(i)
    BY DEF Crescent
  <2>3. k \in Nat /\ left + k <= Cap(layer)
    BY <1>5, <1>6, <1>7
  <2>4. found \in SUBSET Nodes
    BY <1>3, <2>2
  <2> HIDE DEF found, k, left
  <2>5. T \subseteq found /\ Cardinality(T) <= k
    BY <2>1, <2>3, <2>4, NearestFacts
  <2>6. Cardinality(T) \in Nat
    BY <2>4, <2>5, NodeFacts
  <2>7. left + Cardinality(T) <= Cap(layer)
    BY <1>6, <2>3, <2>5, <2>6
  <2> QED BY <2>1, <2>2, <2>5, <2>7 DEF left
<1>9. CASE stage = "batch"
  <2> DEFINE lost == Cap(layer) - left
             k == IF lost > 0 THEN lost ELSE 0
  <2>1. PICK T \in Nearest(i, TwoHops(i), k) : list = Remaining(i) \cup T
    BY <1>9 DEF Repaired, RepairedBatch
  <2>2. k \in Nat /\ left + k <= Cap(layer)
    BY <1>5, <1>6, <1>7
  <2> HIDE DEF k, left
  <2>3. T \subseteq TwoHops(i) /\ Cardinality(T) <= k
    BY <1>3, <2>1, <2>2, NearestFacts
  <2>4. Cardinality(T) \in Nat
    BY <1>3, <2>3, NodeFacts
  <2>5. left + Cardinality(T) <= Cap(layer)
    BY <1>6, <2>2, <2>3, <2>4
  <2> QED BY <2>1, <2>3, <2>5 DEF left
<1> QED BY <1>8, <1>9

\* So the list fits, and leads to nothing that is or was taken out.
LEMMA RepairedFacts ==
    ASSUME IInv, stage \in {"single", "batch"}, layer \in Layers,
           NEW i \in InNeighbors, NEW list \in Repaired(i)
    PROVE  /\ list \in SUBSET Nodes /\ Cardinality(list) <= Cap(layer)
           /\ list \cap removing = {} /\ list \cap removed = {}
           /\ \A j \in list : j \in Used /\ layer <= layer_assignments[j]
<1>1. i \in Nodes
  BY DEF InNeighbors
<1>2. neighbors[layer] \in [Nodes -> SUBSET Nodes]
  BY DEF IInv, TypeOK
<1>3. PICK T \in SUBSET TwoHops(i) :
        /\ list = Remaining(i) \cup T
        /\ Cardinality(Remaining(i)) + Cardinality(T) <= Cap(layer)
  BY RepairedParts
<1>4. Remaining(i) \subseteq neighbors[layer][i] /\ Remaining(i) \cap removing = {}
  BY DEF Remaining
<1>5. Remaining(i) \in SUBSET Nodes
  BY <1>1, <1>2, <1>4
<1>6. T \in SUBSET Nodes /\ T \cap removing = {} /\ T \cap tombstones = {}
  <2>1. \A x \in Remaining(i) : neighbors[layer][x] \subseteq Nodes
    BY <1>2, <1>5
  <2>2. UNION {neighbors[layer][x] : x \in Remaining(i)} \subseteq Nodes
    BY <2>1
  <2>3. \A j \in T : /\ j \in UNION {neighbors[layer][x] : x \in Remaining(i)}
                    /\ j \notin removing /\ j \notin tombstones
    <3> SUFFICES ASSUME NEW j \in T
                 PROVE  /\ j \in UNION {neighbors[layer][x] : x \in Remaining(i)}
                        /\ j \notin removing /\ j \notin tombstones
      OBVIOUS
    <3>1. j \in TwoHops(i)
      OBVIOUS
    <3> QED BY <3>1, Zenon DEF TwoHops
  <2> QED BY <2>2, <2>3
<1>7. list \in SUBSET Nodes
  BY <1>3, <1>5, <1>6
<1>8. Cardinality(list) <= Cap(layer)
  <2>1. Cardinality(list) <= Cardinality(Remaining(i)) + Cardinality(T)
    BY <1>3, <1>5, <1>6, JoinSize
  <2>2. /\ Cardinality(list) \in Nat /\ Cardinality(Remaining(i)) \in Nat
        /\ Cardinality(T) \in Nat /\ Cap(layer) \in Nat
    BY <1>5, <1>6, <1>7, NodeFacts
  <2> QED BY <1>3, <2>1, <2>2
<1>9. list \cap removed = {}
  BY <1>1, <1>3, <1>4, <1>6 DEF IInv, RemovedMarked, NoEdgeToRemoved
<1>10. \A j \in list : j \in Used /\ layer <= layer_assignments[j]
  <2>1. \A x \in Nodes : \A j \in neighbors[layer][x] : j \in Used /\ layer <= layer_assignments[j]
    BY DEF IInv, EdgesWithinLayer
  <2>2. \A j \in T : \E x \in Remaining(i) : j \in neighbors[layer][x]
    BY <1>3 DEF TwoHops
  <2> QED BY <1>1, <1>3, <1>4, <1>5, <2>1, <2>2
<1> QED BY <1>3, <1>4, <1>6, <1>7, <1>8, <1>9, <1>10

\* One layer is repaired.
LEMMA RepairLayerIInv == IInv /\ RepairLayer => IInv'
<1> SUFFICES ASSUME IInv, RepairLayer PROVE IInv'
  OBVIOUS
<1>1. stage \in {"single", "batch"} /\ Used' = Used
  BY DEF RepairLayer, dataVars, Used
<1>2. layer \in Layers
  <2>1. PICK i \in removing : layer <= layer_assignments[i]
    BY DEF RepairLayer
  <2>2. layer_assignments[i] \in Layers /\ layer \in 0 .. MaxLayer + 1
    BY <2>1 DEF IInv, TypeOK
  <2> QED BY <2>1, <2>2, BoundFacts DEF Layers
<1>3. PICK lists \in [InNeighbors -> UNION {Repaired(i) : i \in InNeighbors}] :
         /\ \A i \in InNeighbors : lists[i] \in Repaired(i)
         /\ neighbors' = [neighbors EXCEPT ![layer] = [i \in Nodes |->
              IF i \in removing THEN {}
              ELSE IF i \in InNeighbors THEN lists[i]
              ELSE @[i]]]
  BY DEF RepairLayer
<1> DEFINE New(i) == IF i \in removing THEN {}
                     ELSE IF i \in InNeighbors THEN lists[i]
                     ELSE neighbors[layer][i]
<1>4. neighbors \in [Layers -> [Nodes -> SUBSET Nodes]]
  BY DEF IInv, TypeOK
<1>5. \A i \in InNeighbors : /\ lists[i] \in SUBSET Nodes /\ Cardinality(lists[i]) <= Cap(layer)
                             /\ lists[i] \cap removing = {} /\ lists[i] \cap removed = {}
                             /\ \A j \in lists[i] : j \in Used /\ layer <= layer_assignments[j]
  BY <1>1, <1>2, <1>3, RepairedFacts
<1>6. ASSUME NEW i \in Nodes
      PROVE  /\ New(i) \in SUBSET Nodes /\ Cardinality(New(i)) <= Cap(layer)
             /\ New(i) \cap removing = {} /\ New(i) \cap removed = {}
             /\ \A j \in New(i) : j \in Used /\ layer <= layer_assignments[j]
  <2>1. CASE i \in removing
    BY <1>2, <2>1, EmptyFits
  <2>2. CASE i \in InNeighbors
    BY <1>5, <2>2 DEF InNeighbors
  <2>3. CASE i \notin removing /\ i \notin InNeighbors
    <3>1. New(i) = neighbors[layer][i] /\ neighbors[layer][i] \cap removing = {}
      BY <1>6, <2>3 DEF InNeighbors
    <3>2. /\ neighbors[layer][i] \cap removed = {} /\ Cardinality(neighbors[layer][i]) <= Cap(layer)
          /\ \A j \in neighbors[layer][i] : j \in Used /\ layer <= layer_assignments[j]
      BY <1>2, <1>6 DEF IInv, NoEdgeToRemoved, DegreeBounded, EdgesWithinLayer
    <3> QED BY <1>2, <1>4, <1>6, <3>1, <3>2
  <2> QED BY <2>1, <2>2, <2>3
<1>7. neighbors' = [neighbors EXCEPT ![layer] = [i \in Nodes |-> New(i)]]
  BY <1>3
<1> HIDE DEF New
<1>8. neighbors' \in [Layers -> [Nodes -> SUBSET Nodes]]
  <2>1. [i \in Nodes |-> New(i)] \in [Nodes -> SUBSET Nodes]
    BY <1>6
  <2> QED BY <1>2, <1>4, <1>7, <2>1
<1>9. \A l \in Layers, i \in Nodes :
        neighbors'[l][i] = IF l = layer THEN New(i) ELSE neighbors[l][i]
  BY <1>2, <1>4, <1>7
<1>10. layer' = layer + 1 /\ layer' \in 0 .. MaxLayer + 1
  BY <1>2, BoundFacts DEF RepairLayer, Layers
<1>11. TypeOK'
  BY <1>8, <1>10 DEF RepairLayer, IInv, TypeOK, dataVars, buildVars
<1>12. LoopInv'
  BY <1>1 DEF RepairLayer, IInv, LoopInv
<1>13. EdgesWithinLayer'
  <2>1. layer_assignments' = layer_assignments
    BY DEF RepairLayer, dataVars
  <2> QED BY <1>1, <1>6, <1>9, <2>1 DEF IInv, EdgesWithinLayer
<1>14. RepairProgress'
  <2> SUFFICES ASSUME NEW l \in Layers, NEW i \in Nodes, l < layer'
               PROVE  neighbors'[l][i] \cap removing' = {}
    BY DEF RepairProgress
  <2>1. removing' = removing
    BY DEF RepairLayer
  <2>2. l = layer \/ l < layer
    BY <1>2, <1>10, NodeFacts
  <2> QED BY <1>6, <1>9, <2>1, <2>2 DEF IInv, RepairProgress
<1>15. DegreeBounded'
  BY <1>6, <1>9 DEF IInv, DegreeBounded
<1>16. RemovedMarked' /\ NoEdgeToRemoved'
  BY <1>6, <1>9 DEF RepairLayer, IInv, RemovedMarked, NoEdgeToRemoved
<1> QED BY <1>11, <1>12, <1>13, <1>14, <1>15, <1>16 DEF IInv

\* A repair ends: the layers it has not walked have no edge to what it took
\* out, as that is not in them.
LEMMA EndRepairIInv == IInv /\ EndRepair => IInv'
<1> SUFFICES ASSUME IInv, EndRepair PROVE IInv'
  OBVIOUS
<1>1. removing \subseteq Used /\ built /\ removed \subseteq tombstones
  BY DEF EndRepair, IInv, LoopInv, RemovedMarked
<1>2. \A l \in Layers, i \in Nodes : neighbors[l][i] \cap removing = {}
  <2> SUFFICES ASSUME NEW l \in Layers, NEW i \in Nodes, NEW j \in neighbors[l][i], j \in removing
               PROVE  FALSE
    OBVIOUS
  <2>1. ~(l < layer)
    BY DEF IInv, RepairProgress
  <2>2. l <= layer_assignments[j] /\ layer > layer_assignments[j]
    BY DEF IInv, EdgesWithinLayer, EndRepair
  <2>3. j \in Nodes
    BY DEF IInv, TypeOK
  <2>4. layer_assignments[j] \in Layers /\ layer \in 0 .. MaxLayer + 1
    BY <2>3 DEF IInv, TypeOK
  <2> QED BY <2>1, <2>2, <2>4, BoundFacts DEF Layers
<1>3. entry_point' \in Nodes \cup {NoNode}
  BY DEF EndRepair, IInv, TypeOK
<1>4. TypeOK'
  BY <1>3, BoundFacts DEF EndRepair, IInv, TypeOK, dataVars, buildVars
<1>5. LoopInv'
  BY DEF EndRepair, LoopInv
<1>6. EdgesWithinLayer' /\ RepairProgress' /\ DegreeBounded'
  BY DEF EndRepair, IInv, EdgesWithinLayer, RepairProgress, DegreeBounded, dataVars, Used
<1>7. NoEdgeToRemoved'
  BY <1>2 DEF EndRepair, IInv, NoEdgeToRemoved
<1>8. RemovedMarked'
  BY <1>1 DEF EndRepair, RemovedMarked
<1> QED BY <1>4, <1>5, <1>6, <1>7, <1>8 DEF IInv

\* Loading changes the entry point, and no step nothing.
LEMMA LoadIInv == IInv /\ (Load \/ UNCHANGED vars) => IInv'
<1> SUFFICES ASSUME IInv, Load \/ UNCHANGED vars PROVE IInv'
  OBVIOUS
<1>1. UNCHANGED <<dataVars, neighbors, tombstones, built, stage, buildVars, layer,
                  removing, removed, gone>>
  BY DEF Load, vars
<1>2. entry_point' \in Nodes \cup {NoNode}
  BY DEF Load, vars, IInv, TypeOK
<1>3. TypeOK'
  BY <1>1, <1>2 DEF IInv, TypeOK, dataVars, buildVars
<1>4. LoopInv'
  <2>1. stage \in {"node", "search", "links"} => entry_point' = entry_point
    BY DEF Load, vars
  <2> QED BY <1>1, <2>1 DEF IInv, LoopInv, dataVars, buildVars, Used
<1>5. EdgesWithinLayer' /\ RepairProgress' /\ RemovedMarked' /\ DegreeBounded' /\ NoEdgeToRemoved'
  BY <1>1 DEF IInv, EdgesWithinLayer, RepairProgress, RemovedMarked, DegreeBounded,
              NoEdgeToRemoved, dataVars, Used
<1> QED BY <1>3, <1>4, <1>5 DEF IInv

-----------------------------------------------------------------------------
(* The theorems                                                            *)

\* Every step of the index preserves the invariant.
LEMMA StepIInv == IInv /\ [Next]_vars => IInv'
<1> SUFFICES ASSUME IInv, [Next]_vars PROVE IInv'
  OBVIOUS
<1>1. ASSUME NEW doc \in Docs, NEW l \in Layers, AddSlice(doc, l) PROVE IInv'
  BY <1>1, AddSliceIInv
<1>2. ASSUME NEW nid \in Nodes, LinkBack(nid) PROVE IInv'
  BY <1>2, LinkBackIInv
<1>3. ASSUME NEW doc \in Docs, Delete(doc) PROVE IInv'
  BY <1>3, DeleteIInv
<1>4. ASSUME NEW doc \in Docs, DeleteWithRepair(doc) PROVE IInv'
  BY <1>4, BeginRepairIInv DEF DeleteWithRepair
<1>5. ASSUME NEW docs \in SUBSET Docs, DeleteBatchWithRepair(docs) PROVE IInv'
  BY <1>5, BeginRepairIInv DEF DeleteBatchWithRepair
<1>6. CASE Build \/ BeginNode \/ Descend \/ Connect \/ EndLinks \/ EndBuild
  BY <1>6, BuildIInv, SearchIInv, ConnectIInv, EndBuildIInv
<1>7. CASE RepairLayer \/ EndRepair \/ Load \/ UNCHANGED vars
  BY <1>7, RepairLayerIInv, EndRepairIInv, LoadIInv
<1> QED BY <1>1, <1>2, <1>3, <1>4, <1>5, <1>6, <1>7 DEF Next

\* The invariant holds in every reachable state.
THEOREM Invariance == Spec => []IInv
BY InitIInv, StepIInv, PTL DEF Spec

\* Every variable of the index keeps its type: the loops of build and of the
\* repairs stay within the nodes and layers there are.
THEOREM TypeCorrect == Spec => []TypeOK
<1>1. IInv => TypeOK
  BY DEF IInv
<1> QED BY <1>1, Invariance, PTL

\* However many calls add, build, delete and repair, no list outgrows the cap
\* of its layer.
THEOREM DegreeBoundedAlways == Spec => []DegreeBounded
<1>1. IInv => DegreeBounded
  BY DEF IInv
<1> QED BY <1>1, Invariance, PTL

\* However many nodes the repairs take out, one by one or in batches, no edge
\* of any layer leads to one of them afterwards.
THEOREM NoEdgeToRemovedAlways == Spec => []NoEdgeToRemoved
<1>1. IInv => NoEdgeToRemoved
  BY DEF IInv
<1> QED BY <1>1, Invariance, PTL

\* Only loading the index can move the entry point to a node that a repair
\* took out, while there is a live one.
THEOREM EntryRemovedOnlyByLoadAlways == Spec => EntryRemovedOnlyByLoad
<1>1. ASSUME IInv, Next, EntryUsable PROVE EntryUsable' \/ Load
  <2> SUFFICES ASSUME ~Load, built', Live' # {} PROVE entry_point' \in Used' \ removed'
    BY DEF EntryUsable
  <2>1. ASSUME NEW doc \in Docs, Delete(doc) PROVE entry_point' \in Used' \ removed'
    <3>1. Live' \subseteq Live
      BY <2>1 DEF Delete, Live, Used, dataVars
    <3> QED BY <1>1, <2>1, <3>1 DEF Delete, EntryUsable, Used, dataVars
  <2>2. ASSUME NEW docs \in SUBSET Docs, BeginRepair(docs) PROVE entry_point' \in Used' \ removed'
    BY <1>1, <2>2 DEF BeginRepair, EntryUsable, Live, Used, dataVars
  <2>3. CASE RepairLayer
    BY <1>1, <2>3 DEF RepairLayer, EntryUsable, Live, Used, dataVars
  <2>4. CASE EndRepair
    <3>1. /\ Live' = EntryCandidates /\ removed' = removed \cup removing /\ Used' = Used
          /\ Live' \subseteq Live
      BY <2>4 DEF EndRepair, Live, EntryCandidates, Used, dataVars
    <3>2. CASE entry_point \in removing
      <4>1. entry_point' \in EntryCandidates
        BY <2>4, <3>1, <3>2 DEF EndRepair, LastTop
      <4>2. removed \subseteq tombstones
        BY <1>1 DEF IInv, RemovedMarked
      <4> QED BY <3>1, <4>1, <4>2 DEF EntryCandidates
    <3>3. CASE entry_point \notin removing
      <4>1. entry_point' = entry_point /\ built
        BY <2>4, <3>3 DEF EndRepair
      <4> QED BY <1>1, <3>1, <3>3, <4>1 DEF EntryUsable
    <3> QED BY <3>2, <3>3
  <2>5. CASE EndBuild
    BY <1>1, <2>5 DEF EndBuild, IInv, LoopInv, RemovedMarked, Used
  <2>6. ASSUME NEW doc \in Docs, NEW l \in Layers, AddSlice(doc, l) PROVE FALSE
    BY <2>6 DEF AddSlice
  <2>7. ASSUME NEW nid \in Nodes, LinkBack(nid) PROVE FALSE
    BY <1>1, <2>7 DEF LinkBack, IInv, LoopInv
  <2>8. CASE Build \/ BeginNode \/ Descend \/ Connect \/ EndLinks
    BY <1>1, <2>8 DEF Build, BeginNode, Descend, Connect, EndLinks, IInv, LoopInv
  <2> QED BY <1>1, <2>1, <2>2, <2>3, <2>4, <2>5, <2>6, <2>7, <2>8
          DEF Next, DeleteWithRepair, DeleteBatchWithRepair
<1>2. IInv /\ [Next]_vars => [EntryUsable => EntryUsable' \/ Load]_vars
  BY <1>1
<1> QED BY <1>2, Invariance, PTL DEF Spec, EntryRemovedOnlyByLoad
-----------------------------------------------------------------------------
(* A small index: every list of layer 0 has room for all nodes             *)

\* A node has a tombstone, or is being taken out, exactly when its id was
\* deleted; no id is deleted before it is added.
Marked ==
    /\ \A i \in Used : doc_ids[i] \in gone <=> i \in tombstones \cup removing
    /\ tombstones \subseteq Used
    /\ ~built => gone \subseteq {doc_ids[i] : i \in Used}

Building == stage \in {"node", "search", "links"}
Laid == 0 .. current - 1

\* Build lays edges among the nodes it has inserted.  The edges of the node it
\* is inserting are laid from the top down, so that a search does not meet it.
LaidInv ==
    /\ Building => entry_point \in Laid
    /\ stage \in {"search", "links"} => at \in Laid
    /\ stage = "links" => todo \subseteq Laid
    /\ \A l \in Layers, i \in Nodes :
          /\ stage = "node" => neighbors[l][i] \subseteq Laid
          /\ stage \in {"search", "links"} => neighbors[l][i] \subseteq Laid \cup {current}
          /\ stage = "search" /\ l <= layer => neighbors[l][i] \subseteq Laid
          /\ stage = "links" /\ l < layer => neighbors[l][i] \subseteq Laid

NoSelfEdge == \A l \in Layers, i \in Nodes : i \notin neighbors[l][i]

\* On layer 0 every two of these nodes list each other.
Clique(S) == \A i, j \in S : i # j => j \in neighbors[0][i]

\* As long as the caps of layer 0 leave nobody out, the nodes that build has
\* inserted form a clique, and a repair leaves one of what is left.
SmallInv ==
    num_vectors <= MMax + 1 =>
        /\ Building => Clique(Laid)
        /\ stage = "links" /\ layer = 0 =>
              /\ Laid \subseteq neighbors[0][current]
              /\ \A j \in Laid \ todo : current \in neighbors[0][j]
        /\ built => Clique(Used \ (removed \cup removing))

EdgeInv == NoSelfEdge /\ LaidInv /\ SmallInv

\* The calls keep the tombstones and the ids that were deleted together.
LEMMA MarkedStep == IInv /\ Marked /\ [Next]_vars => Marked'
<1> SUFFICES ASSUME IInv, Marked, [Next]_vars PROVE Marked'
  OBVIOUS
<1>1. Used \subseteq Nodes /\ Used \subseteq Nat /\ num_vectors \in Nat
  BY NodeFacts DEF IInv, TypeOK, Used, Nodes
<1>2. ASSUME UNCHANGED <<num_vectors, doc_ids, tombstones, removing, gone, built>>
      PROVE  Marked'
  BY <1>2 DEF Marked, Used
<1>3. ASSUME NEW doc \in Docs, NEW l \in Layers, AddSlice(doc, l) PROVE Marked'
  <2>1. /\ num_vectors \in Nodes /\ Used' = Used \cup {num_vectors} /\ num_vectors \notin Used
        /\ doc_ids' = [doc_ids EXCEPT ![num_vectors] = doc]
        /\ UNCHANGED <<tombstones, removing, gone, built>> /\ ~built /\ removing = {}
        /\ \A i \in Used : doc_ids[i] # doc
    BY <1>1, <1>3 DEF AddSlice, Used, IInv, LoopInv
  <2>2. doc_ids'[num_vectors] = doc /\ \A i \in Used : doc_ids'[i] = doc_ids[i]
    BY <1>1, <2>1 DEF IInv, TypeOK
  <2>3. doc \notin gone
    BY <2>1 DEF Marked
  <2> QED BY <2>1, <2>2, <2>3 DEF Marked
<1>4. CASE EndBuild
  <2>1. PICK old \in NewOrders : Renumbered(old)
    BY <1>4 DEF EndBuild
  <2>2. Used' = Used /\ built' /\ gone' = gone /\ removing = {} /\ removing' = {}
    BY <1>4 DEF EndBuild, Used, IInv, LoopInv
  <2>3. /\ \A k \in Used : old[k] \in Used /\ doc_ids'[k] = doc_ids[old[k]]
        /\ tombstones' = {j \in Used : old[j] \in tombstones}
    BY <1>1, <2>1 DEF Renumbered, NewOrders
  <2> QED BY <2>2, <2>3 DEF Marked
<1>5. ASSUME NEW doc \in Docs, Delete(doc) PROVE Marked'
  <2>1. /\ Used' = Used /\ UNCHANGED <<doc_ids, built, removing>>
        /\ tombstones' = tombstones \cup NodesOf({doc}) /\ gone' = gone \cup {doc}
        /\ \E i \in Used : doc_ids[i] = doc
    BY <1>5 DEF Delete, Known, Used, dataVars
  <2> QED BY <2>1 DEF Marked, NodesOf
<1>6. ASSUME NEW docs \in SUBSET Docs, BeginRepair(docs) PROVE Marked'
  <2>1. /\ Used' = Used /\ UNCHANGED <<doc_ids, built, tombstones>> /\ built
        /\ removing' = NodesOf(docs) /\ gone' = gone \cup docs /\ removing = {}
    BY <1>6 DEF BeginRepair, Used, dataVars, IInv, LoopInv
  <2> QED BY <2>1 DEF Marked, NodesOf
<1>7. CASE EndRepair
  <2>1. /\ Used' = Used /\ UNCHANGED <<doc_ids, built, gone>> /\ removing \subseteq Used
        /\ removing' = {} /\ tombstones' = tombstones \cup removing
    BY <1>7 DEF EndRepair, Used, dataVars, IInv, LoopInv
  <2> QED BY <2>1 DEF Marked
<1>8. CASE Build \/ BeginNode \/ Descend \/ Connect \/ EndLinks \/ RepairLayer \/ Load
  BY <1>2, <1>8 DEF Build, BeginNode, Descend, Connect, EndLinks, RepairLayer, Load, dataVars
<1>9. ASSUME NEW nid \in Nodes, LinkBack(nid) PROVE Marked'
  BY <1>2, <1>9 DEF LinkBack, dataVars
<1>10. CASE UNCHANGED vars
  BY <1>2, <1>10 DEF vars, dataVars
<1> QED BY <1>3, <1>4, <1>5, <1>6, <1>7, <1>8, <1>9, <1>10
        DEF Next, DeleteWithRepair, DeleteBatchWithRepair

\* A search stays within what no edge leaves.
LEMMA ReachedWithin ==
    ASSUME NEW l, NEW i, NEW C \in SUBSET Nodes, i \in C,
           \A x \in C : neighbors[l][x] \subseteq C
    PROVE  Reached(l, i) \subseteq C
BY DEF Reached

\* And visits all of a clique that it starts in.
LEMMA ReachedClique ==
    ASSUME NEW S \in SUBSET Nodes, NEW i \in S, Clique(S)
    PROVE  S \subseteq Reached(0, i)
BY DEF Reached, Clique

\* Nothing is left out of a selection with room for all.
LEMMA SelectedAll ==
    ASSUME NEW q, NEW C \in SUBSET Nodes, NEW k \in Nat, Cardinality(C) <= k,
           NEW S \in Selected(q, C, k)
    PROVE  S = C
<1>1. PICK T \in Diverse(q, C, k) :
        S \in {T \cup B : B \in Nearest(q, C \ T, k - Cardinality(T))}
  BY DEF Selected
<1>2. PICK B \in Nearest(q, C \ T, k - Cardinality(T)) : S = T \cup B
  BY <1>1
<1>3. T \in SUBSET C /\ B \in SUBSET (C \ T)
  BY <1>1, <1>2 DEF Diverse, Nearest
<1>4. B = C \ T \/ Cardinality(B) = k - Cardinality(T)
  BY <1>2 DEF Nearest
<1>5. CASE B = C \ T
  BY <1>2, <1>3, <1>5
<1>6. CASE Cardinality(B) = k - Cardinality(T)
  <2>1. /\ IsFiniteSet(T) /\ IsFiniteSet(C \ T) /\ IsFiniteSet(B)
        /\ Cardinality(T) \in Nat /\ Cardinality(C \ T) \in Nat /\ Cardinality(C) \in Nat
    BY <1>3, NodeFacts
  <2>2. T \cup (C \ T) = C /\ T \cap (C \ T) = {}
    BY <1>3
  <2>3. Cardinality(C) = Cardinality(T) + Cardinality(C \ T) - Cardinality({})
    BY <2>1, <2>2, FS_Union
  <2>4. Cardinality(C \ T) <= Cardinality(B)
    BY <1>6, <2>1, <2>3, FS_EmptySet
  <2>5. B # C \ T => Cardinality(B) < Cardinality(C \ T)
    BY <1>3, PartSize
  <2>6. Cardinality(B) \in Nat
    BY <1>3, NodeFacts
  <2> QED BY <1>5, <2>1, <2>4, <2>5, <2>6
<1> QED BY <1>4, <1>5, <1>6

\* Where the loops of build are.
LEMMA LaidFacts ==
    ASSUME IInv, stage \in {"node", "search", "links"}
    PROVE  /\ Laid \in SUBSET Nodes /\ Laid \subseteq Used /\ current \notin Laid
           /\ current \in Nat \ {0} /\ IsFiniteSet(Laid) /\ Cardinality(Laid) = current
           /\ current < num_vectors => current \in Nodes
           /\ num_vectors \in Nat /\ MMax \in Nat /\ Cap(0) = MMax
           /\ ~built /\ removed = {} /\ removing = {}
<1>1. current \in 1 .. num_vectors /\ num_vectors \in 0 .. Cardinality(Docs)
      /\ Cardinality(Docs) \in Nat
  BY NodeFacts DEF IInv, LoopInv, TypeOK
<1>2. IsFiniteSet(Laid) /\ Cardinality(Laid) = current
  <2>1. 0 \in Int /\ current - 1 \in Int /\ ~(0 > current - 1) /\ current - 1 - 0 + 1 = current
    BY <1>1
  <2> QED BY <2>1, FS_Interval DEF Laid
<1> QED BY <1>1, <1>2, HnswAssumption DEF Laid, Nodes, Used, Cap, IInv, LoopInv, RemovedMarked

\* Build starts with a first node and no edges.
LEMMA BuildEdges == IInv /\ EdgeInv /\ Build => EdgeInv'
<1> SUFFICES ASSUME IInv, EdgeInv, Build PROVE EdgeInv'
  OBVIOUS
<1>1. /\ \A l \in Layers, i \in Nodes : neighbors'[l][i] = {}
      /\ entry_point' = 0 /\ current' = 1 /\ stage' = "node" /\ ~built'
  BY DEF Build, Empty
<1>2. Laid' = {0}
  BY <1>1 DEF Laid
<1>3. NoSelfEdge' /\ LaidInv'
  BY <1>1, <1>2 DEF NoSelfEdge, LaidInv, Building
<1>4. SmallInv'
  BY <1>1, <1>2 DEF SmallInv, Clique, Building
<1> QED BY <1>3, <1>4 DEF EdgeInv

\* The descent of build stays among the nodes that are in.
LEMMA DescentEdges == IInv /\ EdgeInv /\ (BeginNode \/ Descend) => EdgeInv'
<1> SUFFICES ASSUME IInv, EdgeInv, BeginNode \/ Descend PROVE EdgeInv'
  OBVIOUS
<1>1. /\ stage \in {"node", "search"} /\ stage' = "search"
      /\ UNCHANGED <<neighbors, num_vectors, entry_point, current, built>>
  BY DEF BeginNode, Descend, dataVars
<1>2. Laid \in SUBSET Nodes /\ ~built
  BY <1>1, LaidFacts
<1>3. NoSelfEdge' /\ Laid' = Laid
  BY <1>1 DEF NoSelfEdge, EdgeInv, Laid
<1>4. SmallInv'
  BY <1>1, <1>2, <1>3 DEF SmallInv, Building, Clique, EdgeInv
<1>5. CASE BeginNode
  <2>1. stage = "node" /\ at' = entry_point /\ at' \in Laid
    BY <1>5 DEF BeginNode, EdgeInv, LaidInv, Building
  <2>2. LaidInv'
    BY <1>1, <1>3, <2>1 DEF LaidInv, EdgeInv, Building
  <2> QED BY <1>3, <1>4, <2>2 DEF EdgeInv
<1>6. CASE Descend
  <2>1. /\ stage = "search" /\ layer \in Layers /\ layer' = layer - 1
        /\ at \in Laid /\ at' \in Reached(layer, at)
    BY <1>6 DEF Descend, IInv, LoopInv, EdgeInv, LaidInv
  <2>2. layer \in Nat
    BY <2>1, NodeFacts
  <2>3. \A x \in Laid : neighbors[layer][x] \subseteq Laid
    BY <1>2, <2>1, <2>2 DEF EdgeInv, LaidInv
  <2>4. at' \in Laid
    BY <1>2, <2>1, <2>3, ReachedWithin
  <2>5. \A l \in Layers : l <= layer' => l <= layer
    BY <2>1, <2>2, NodeFacts
  <2>6. LaidInv'
    BY <1>1, <1>3, <2>1, <2>4, <2>5 DEF LaidInv, EdgeInv, Building
  <2> QED BY <1>3, <1>4, <2>6 DEF EdgeInv
<1> QED BY <1>5, <1>6

\* The list of the new node leads to nodes that are in: on layer 0 of a small
\* index, to all of them.
LEMMA ConnectEdges == IInv /\ EdgeInv /\ Connect => EdgeInv'
<1> SUFFICES ASSUME IInv, EdgeInv, Connect PROVE EdgeInv'
  OBVIOUS
<1>1. /\ stage = "search" /\ stage' = "links" /\ layer \in Layers /\ layer \in Nat
      /\ current < num_vectors /\ at \in Laid /\ at' \in Reached(layer, at)
      /\ UNCHANGED <<dataVars, entry_point, built, current, layer>>
  BY NodeFacts DEF Connect, IInv, LoopInv, EdgeInv, LaidInv
<1>2. /\ Laid \in SUBSET Nodes /\ Laid \subseteq Used /\ current \notin Laid /\ current \in Nat
      /\ current \in Nodes /\ Cardinality(Laid) = current /\ num_vectors \in Nat
      /\ MMax \in Nat /\ Cap(0) = MMax /\ ~built
  BY <1>1, LaidFacts
<1>3. Laid' = Laid
  BY <1>1 DEF Laid
<1>4. PICK S \in Selected(current, Reached(layer, at), Cap(layer)) :
        /\ todo' = {j \in S : j < current /\ layer_assignments[j] >= layer}
        /\ neighbors' = [neighbors EXCEPT ![layer][current] = todo']
  BY DEF Connect
<1>5. \A x \in Laid : neighbors[layer][x] \subseteq Laid
  BY <1>1, <1>2 DEF EdgeInv, LaidInv
<1>6. Reached(layer, at) \subseteq Laid
  BY <1>1, <1>2, <1>5, ReachedWithin
<1>7. S \subseteq Laid /\ todo' \subseteq Laid /\ at' \in Laid
  <2>1. S \subseteq Reached(layer, at)
    BY <1>1, ReachedNodes, NodeFacts, SelectedFacts
  <2> QED BY <1>1, <1>4, <1>6, <2>1
<1>8. \A l \in Layers, i \in Nodes :
        neighbors'[l][i] = IF l = layer /\ i = current THEN todo' ELSE neighbors[l][i]
  <2>1. neighbors \in [Layers -> [Nodes -> SUBSET Nodes]]
    BY DEF IInv, TypeOK
  <2> QED BY <1>1, <1>2, <1>4, <2>1
<1>9. NoSelfEdge'
  BY <1>2, <1>7, <1>8 DEF NoSelfEdge, EdgeInv
<1>10. LaidInv'
  <2>1. \A l \in Layers, i \in Nodes :
          /\ neighbors'[l][i] \subseteq Laid \cup {current}
          /\ l < layer => neighbors'[l][i] \subseteq Laid
    <3>1. \A l \in Layers : l < layer => l <= layer /\ l # layer
      BY <1>1, NodeFacts
    <3>2. \A l \in Layers, i \in Nodes :
            /\ neighbors[l][i] \subseteq Laid \cup {current}
            /\ l <= layer => neighbors[l][i] \subseteq Laid
      BY <1>1 DEF EdgeInv, LaidInv
    <3> QED BY <1>7, <1>8, <3>1, <3>2
  <2>2. entry_point \in Laid
    BY <1>1 DEF EdgeInv, LaidInv, Building
  <2> QED BY <1>1, <1>3, <1>7, <2>1, <2>2 DEF LaidInv
<1>11. SmallInv'
  <2> SUFFICES ASSUME num_vectors <= MMax + 1
               PROVE  Clique(Laid)' /\ (layer = 0 => todo' = Laid /\ neighbors'[0][current] = todo')
    BY <1>1, <1>2, <1>3 DEF SmallInv, dataVars
  <2>1. Clique(Laid)
    BY <1>1 DEF EdgeInv, SmallInv, Building
  <2>2. 0 \in Layers
    BY NodeFacts
  <2>3. Clique(Laid)'
    BY <1>2, <1>3, <1>8, <2>1, <2>2 DEF Clique
  <2>4. ASSUME layer = 0 PROVE todo' = Laid
    <3>1. Reached(0, at) = Laid
      BY <1>1, <1>2, <1>6, <2>1, <2>4, ReachedClique
    <3>2. Cardinality(Laid) <= Cap(0)
      BY <1>1, <1>2
    <3>3. S = Laid
      BY <1>2, <1>4, <2>4, <3>1, <3>2, SelectedAll
    <3>4. \A j \in Laid : j < current /\ layer_assignments[j] >= 0
      <4>1. \A j \in Laid : j \in Nat /\ j < current
        BY <1>2 DEF Laid
      <4>2. \A j \in Laid : layer_assignments[j] \in Nat
        BY <1>2, NodeFacts DEF IInv, TypeOK
      <4> QED BY <4>1, <4>2
    <3> QED BY <1>4, <2>4, <3>3, <3>4
  <2> QED BY <1>2, <1>8, <2>2, <2>3, <2>4
<1> QED BY <1>9, <1>10, <1>11 DEF EdgeInv

\* A node that is in gets the edge to the new one; on layer 0 of a small index
\* nothing is pruned for it.
LEMMA LinkBackEdges ==
    ASSUME IInv, EdgeInv, NEW nid \in Nodes, LinkBack(nid)
    PROVE  EdgeInv'
<1>1. /\ stage = "links" /\ stage' = "links" /\ layer \in Layers /\ layer \in Nat
      /\ current < num_vectors /\ at \in Laid /\ nid \in todo /\ todo \subseteq Laid
      /\ todo' = todo \ {nid} /\ entry_point \in Laid
      /\ UNCHANGED <<dataVars, entry_point, built, current, layer, at>>
  BY NodeFacts DEF LinkBack, IInv, LoopInv, EdgeInv, LaidInv, Building
<1>2. /\ Laid \in SUBSET Nodes /\ current \notin Laid /\ current \in Nat /\ current \in Nodes
      /\ IsFiniteSet(Laid) /\ Cardinality(Laid) = current /\ num_vectors \in Nat
      /\ MMax \in Nat /\ Cap(0) = MMax /\ ~built
  BY <1>1, LaidFacts
<1>3. Laid' = Laid /\ nid \in Laid /\ nid # current
  BY <1>1, <1>2 DEF Laid
<1>4. PICK list \in Linked(nid) : neighbors' = [neighbors EXCEPT ![layer][nid] = list]
  BY DEF LinkBack
<1> DEFINE all == neighbors[layer][nid] \cup {current}
<1>5. all \in SUBSET Nodes /\ all \subseteq (Laid \cup {current}) \ {nid}
  BY <1>1, <1>2, <1>3 DEF EdgeInv, LaidInv, NoSelfEdge, IInv, TypeOK
<1>6. list \subseteq all
  <2>1. CASE Cardinality(all) <= Cap(layer)
    BY <1>4, <2>1 DEF Linked
  <2>2. CASE ~(Cardinality(all) <= Cap(layer))
    <3>1. list \in Selected(nid, all, Cap(layer))
      BY <1>4, <2>2 DEF Linked
    <3>2. Cap(layer) \in Nat
      BY <1>1, NodeFacts
    <3> QED BY <1>5, <3>1, <3>2, SelectedFacts
  <2> QED BY <2>1, <2>2
<1>7. \A l \in Layers, i \in Nodes :
        neighbors'[l][i] = IF l = layer /\ i = nid THEN list ELSE neighbors[l][i]
  <2>1. neighbors \in [Layers -> [Nodes -> SUBSET Nodes]]
    BY DEF IInv, TypeOK
  <2> QED BY <1>1, <1>4, <2>1
<1>8. NoSelfEdge'
  BY <1>5, <1>6, <1>7 DEF NoSelfEdge, EdgeInv
<1>9. LaidInv'
  <2>1. \A l \in Layers, i \in Nodes :
          /\ neighbors'[l][i] \subseteq Laid \cup {current}
          /\ l < layer => neighbors'[l][i] \subseteq Laid
    <3>1. \A l \in Layers : l < layer => l # layer
      BY <1>1, NodeFacts
    <3>2. \A l \in Layers, i \in Nodes :
            /\ neighbors[l][i] \subseteq Laid \cup {current}
            /\ l < layer => neighbors[l][i] \subseteq Laid
      BY <1>1 DEF EdgeInv, LaidInv
    <3> HIDE DEF all
    <3> QED BY <1>5, <1>6, <1>7, <3>1, <3>2
  <2> QED BY <1>1, <1>3, <2>1 DEF LaidInv
<1>10. SmallInv'
  <2> SUFFICES ASSUME num_vectors <= MMax + 1
               PROVE  /\ Clique(Laid)'
                      /\ layer = 0 => /\ Laid \subseteq neighbors'[0][current]
                                      /\ \A j \in Laid \ todo' : current \in neighbors'[0][j]
    BY <1>1, <1>2, <1>3 DEF SmallInv, dataVars
  <2>1. /\ Clique(Laid) /\ 0 \in Layers
        /\ layer = 0 => /\ Laid \subseteq neighbors[0][current]
                        /\ \A j \in Laid \ todo : current \in neighbors[0][j]
    BY <1>1, NodeFacts DEF EdgeInv, SmallInv, Building
  <2>2. CASE layer # 0
    BY <1>2, <1>3, <1>7, <2>1, <2>2 DEF Clique
  <2>3. CASE layer = 0
    <3>1. Cardinality(all) <= Cap(0)
      <4>1. (Laid \cup {current}) \ {nid} \in SUBSET Nodes
        BY <1>2
      <4>2. Cardinality((Laid \cup {current}) \ {nid}) = current
        <5>1. IsFiniteSet(Laid \cup {current}) /\ Cardinality(Laid \cup {current}) = current + 1
          BY <1>2, FS_AddElement
        <5>2. nid \in Laid \cup {current}
          BY <1>3
        <5> DEFINE both == Laid \cup {current}
        <5>3. IsFiniteSet(both) /\ Cardinality(both) = current + 1 /\ nid \in both
          BY <5>1, <5>2
        <5> HIDE DEF both
        <5>4. Cardinality(both \ {nid}) = Cardinality(both) - 1
          BY <5>3, FS_RemoveElement
        <5>5. Cardinality(both \ {nid}) = current
          BY <1>2, <5>3, <5>4
        <5> QED BY <5>5 DEF both
      <4>3. Cardinality(all) <= current
        BY <1>5, <4>1, <4>2, PartSize
      <4>4. Cardinality(all) \in Nat
        BY <1>5, NodeFacts
      <4> QED BY <1>1, <1>2, <4>3, <4>4
    <3>2. list = all
      BY <1>4, <2>3, <3>1 DEF Linked
    <3>3. Clique(Laid)'
      BY <1>2, <1>3, <1>7, <2>1, <2>3, <3>2 DEF Clique
    <3>4. Laid \subseteq neighbors'[0][current]
      BY <1>2, <1>3, <1>7, <2>1, <2>3
    <3>5. \A j \in Laid \ todo' : current \in neighbors'[0][j]
      BY <1>1, <1>2, <1>7, <2>1, <2>3, <3>2
    <3> QED BY <3>3, <3>4, <3>5
  <2> QED BY <2>2, <2>3
<1> QED BY <1>8, <1>9, <1>10 DEF EdgeInv

\* The new node is in, on one layer or on all of them.
LEMMA EndLinksEdges == IInv /\ EdgeInv /\ EndLinks => EdgeInv'
<1> SUFFICES ASSUME IInv, EdgeInv, EndLinks PROVE EdgeInv'
  OBVIOUS
<1>1. /\ stage = "links" /\ todo = {} /\ layer \in Layers /\ layer \in Nat /\ at \in Laid
      /\ current < num_vectors /\ entry_point \in Laid
      /\ UNCHANGED <<dataVars, neighbors, built, at>>
  BY NodeFacts DEF EndLinks, IInv, LoopInv, EdgeInv, LaidInv, Building
<1>2. Laid \in SUBSET Nodes /\ current \in Nat \ {0} /\ current \in Nodes /\ ~built
  BY <1>1, LaidFacts
<1>3. NoSelfEdge'
  BY <1>1 DEF NoSelfEdge, EdgeInv
<1>4. \A l \in Layers, i \in Nodes :
        /\ neighbors[l][i] \subseteq Laid \cup {current}
        /\ l < layer => neighbors[l][i] \subseteq Laid
  BY <1>1 DEF EdgeInv, LaidInv
<1>5. CASE layer > 0
  <2>1. /\ stage' = "search" /\ layer' = layer - 1 /\ Laid' = Laid
        /\ UNCHANGED <<current, entry_point>>
    BY <1>5 DEF EndLinks, Laid
  <2>2. \A l \in Layers : l <= layer' => l < layer
    BY <1>1, <2>1, NodeFacts
  <2>3. LaidInv'
    BY <1>1, <1>4, <2>1, <2>2 DEF LaidInv
  <2>4. SmallInv'
    BY <1>1, <1>2, <2>1 DEF SmallInv, EdgeInv, Building, Clique, dataVars
  <2> QED BY <1>3, <2>3, <2>4 DEF EdgeInv
<1>6. CASE ~(layer > 0)
  <2>1. stage' = "node" /\ current' = current + 1 /\ entry_point' \in Laid \cup {current}
    BY <1>1, <1>6 DEF EndLinks
  <2>2. Laid' = Laid \cup {current}
    BY <1>2, <2>1 DEF Laid
  <2>3. LaidInv'
    BY <1>1, <1>4, <2>1, <2>2 DEF LaidInv
  <2>4. SmallInv'
    <3> SUFFICES ASSUME num_vectors <= MMax + 1 PROVE Clique(Laid)'
      BY <1>1, <1>2, <2>1 DEF SmallInv, dataVars
    <3>1. layer = 0
      BY <1>1, <1>6
    <3>2. /\ Clique(Laid) /\ Laid \subseteq neighbors[0][current]
          /\ \A j \in Laid : current \in neighbors[0][j]
      BY <1>1, <3>1 DEF EdgeInv, SmallInv, Building
    <3> QED BY <1>1, <2>2, <3>2 DEF Clique
  <2> QED BY <1>3, <2>3, <2>4 DEF EdgeInv
<1> QED BY <1>5, <1>6

\* New numbers change no edge.
LEMMA EndBuildEdges == IInv /\ EdgeInv /\ EndBuild => EdgeInv'
<1> SUFFICES ASSUME IInv, EdgeInv, EndBuild PROVE EdgeInv'
  OBVIOUS
<1>1. PICK old \in NewOrders : Renumbered(old)
  BY DEF EndBuild
<1>2. /\ stage = "node" /\ stage' = "idle" /\ current = num_vectors
      /\ Used' = Used /\ num_vectors' = num_vectors
  BY DEF EndBuild, Used
<1>3. Used = Laid /\ Used \in SUBSET Nodes /\ removed = {} /\ removing = {}
  BY <1>2, LaidFacts DEF Laid, Used
<1>4. /\ old \in [Used -> Used] /\ \A j, k \in Used : old[j] = old[k] => j = k
      /\ \A l \in Layers, k \in Nodes : neighbors'[l][k] =
           IF k \in Used THEN {j \in Used : old[j] \in neighbors[l][old[k]]} ELSE {}
  BY <1>1 DEF NewOrders, Renumbered
<1>5. \A l \in Layers, k \in Used : \A j \in Used :
        j \in neighbors'[l][k] <=> old[j] \in neighbors[l][old[k]]
  <2>1. \A k \in Used : k \in Nodes
    BY <1>3
  <2>2. \A l \in Layers, k \in Used : neighbors'[l][k] = {j \in Used : old[j] \in neighbors[l][old[k]]}
    BY <1>4, <2>1
  <2> QED BY <2>2
<1>6. NoSelfEdge'
  <2> SUFFICES ASSUME NEW l \in Layers, NEW k \in Nodes, k \in neighbors'[l][k] PROVE FALSE
    BY DEF NoSelfEdge
  <2>1. k \in Used
    BY <1>4
  <2>2. old[k] \in Nodes
    BY <1>3, <1>4, <2>1
  <2> QED BY <1>5, <2>1, <2>2 DEF NoSelfEdge, EdgeInv
<1>7. LaidInv'
  BY <1>2 DEF LaidInv, Building
<1>8. SmallInv'
  <2> SUFFICES ASSUME num_vectors <= MMax + 1 PROVE Clique(Used)'
    <3>1. Used' \ (removed' \cup removing') \subseteq Used'
      OBVIOUS
    <3> QED BY <1>2, <3>1 DEF SmallInv, Building, Clique
  <2>1. Clique(Used) /\ 0 \in Layers
    BY <1>2, <1>3, NodeFacts DEF EdgeInv, SmallInv, Building
  <2>2. ASSUME NEW i \in Used, NEW j \in Used, i # j PROVE j \in neighbors'[0][i]
    <3>1. old[i] \in Used /\ old[j] \in Used /\ old[i] # old[j]
      BY <1>4, <2>2
    <3>2. old[j] \in neighbors[0][old[i]]
      BY <2>1, <3>1 DEF Clique
    <3> QED BY <1>5, <2>1, <3>2
  <2> QED BY <1>2, <2>2 DEF Clique
<1> QED BY <1>6, <1>7, <1>8 DEF EdgeInv

\* A repaired list keeps all of its neighbours that stay.
LEMMA RepairLayerEdges == IInv /\ EdgeInv /\ RepairLayer => EdgeInv'
<1> SUFFICES ASSUME IInv, EdgeInv, RepairLayer PROVE EdgeInv'
  OBVIOUS
<1>1. /\ stage \in {"single", "batch"} /\ built
      /\ UNCHANGED <<dataVars, built, stage, removing, removed>>
  BY DEF RepairLayer, IInv, LoopInv
<1>2. layer \in Layers
  <2>1. PICK i \in removing : layer <= layer_assignments[i]
    BY DEF RepairLayer
  <2>2. i \in Nodes
    BY <2>1 DEF IInv, TypeOK
  <2>3. layer_assignments[i] \in Layers /\ layer \in 0 .. MaxLayer + 1
    BY <2>2 DEF IInv, TypeOK
  <2> QED BY <2>1, <2>3, BoundFacts DEF Layers
<1>3. PICK lists \in [InNeighbors -> UNION {Repaired(i) : i \in InNeighbors}] :
         /\ \A i \in InNeighbors : lists[i] \in Repaired(i)
         /\ neighbors' = [neighbors EXCEPT ![layer] = [i \in Nodes |->
              IF i \in removing THEN {}
              ELSE IF i \in InNeighbors THEN lists[i]
              ELSE @[i]]]
  BY DEF RepairLayer
<1>4. \A l \in Layers, i \in Nodes :
        neighbors'[l][i] = IF l # layer THEN neighbors[l][i]
                           ELSE IF i \in removing THEN {}
                           ELSE IF i \in InNeighbors THEN lists[i] ELSE neighbors[l][i]
  <2>1. neighbors \in [Layers -> [Nodes -> SUBSET Nodes]]
    BY DEF IInv, TypeOK
  <2> QED BY <1>2, <1>3, <2>1
<1>5. ASSUME NEW i \in InNeighbors PROVE Remaining(i) \subseteq lists[i] /\ i \notin lists[i]
  <2>1. PICK T \in SUBSET TwoHops(i) : lists[i] = Remaining(i) \cup T
    BY <1>1, <1>2, <1>3, <1>5, RepairedParts
  <2>2. i \in Nodes
    BY DEF InNeighbors
  <2>3. i \notin Remaining(i)
    BY <1>2, <2>2 DEF Remaining, EdgeInv, NoSelfEdge
  <2>4. i \notin TwoHops(i)
    BY DEF TwoHops
  <2> QED BY <2>1, <2>3, <2>4
<1>6. NoSelfEdge'
  BY <1>4, <1>5 DEF NoSelfEdge, EdgeInv
<1>7. LaidInv'
  BY <1>1 DEF LaidInv, Building
<1>8. SmallInv'
  <2> DEFINE stay == Used \ (removed \cup removing)
  <2> SUFFICES ASSUME num_vectors <= MMax + 1 PROVE Clique(stay)'
    BY <1>1 DEF SmallInv, Building, dataVars
  <2>1. Clique(stay)
    BY <1>1 DEF EdgeInv, SmallInv
  <2>2. stay' = stay /\ stay \in SUBSET Nodes /\ 0 \in Layers
    BY <1>1, NodeFacts DEF Used, dataVars, IInv, TypeOK, Nodes
  <2>3. ASSUME NEW i \in stay, NEW j \in stay, i # j PROVE j \in neighbors'[0][i]
    <3>1. j \in neighbors[0][i] /\ i \notin removing /\ j \notin removing /\ i \in Nodes
      BY <2>1, <2>2, <2>3 DEF Clique
    <3>2. layer = 0 => j \in Remaining(i)
      BY <3>1 DEF Remaining
    <3> QED BY <1>4, <1>5, <2>2, <3>1, <3>2
  <2> HIDE DEF stay
  <2> QED BY <2>2, <2>3 DEF Clique
<1> QED BY <1>6, <1>7, <1>8 DEF EdgeInv

\* The calls that touch no list leave a clique of what is left.
LEMMA CallEdges ==
    ASSUME IInv, EdgeInv, UNCHANGED neighbors, ~Building',
           built' => built /\ num_vectors' = num_vectors
                     /\ removed \cup removing \subseteq removed' \cup removing'
    PROVE  EdgeInv'
<1>1. NoSelfEdge'
  BY DEF NoSelfEdge, EdgeInv
<1>2. LaidInv'
  BY DEF LaidInv, Building
<1>3. SmallInv'
  <2> SUFFICES ASSUME num_vectors' <= MMax + 1, built'
               PROVE  Clique(Used \ (removed \cup removing))'
    BY DEF SmallInv, Building
  <2>1. Clique(Used \ (removed \cup removing)) /\ Used' = Used
    BY DEF EdgeInv, SmallInv, Used
  <2>2. Used' \ (removed' \cup removing') \subseteq Used \ (removed \cup removing)
    BY <2>1
  <2> QED BY <2>1, <2>2 DEF Clique
<1> QED BY <1>1, <1>2, <1>3 DEF EdgeInv

\* Every step of every call keeps the edges as the loops lay them.
LEMMA EdgeStep == IInv /\ EdgeInv /\ [Next]_vars => EdgeInv'
<1> SUFFICES ASSUME IInv, EdgeInv, [Next]_vars PROVE EdgeInv'
  OBVIOUS
<1>1. ASSUME NEW doc \in Docs, NEW l \in Layers, AddSlice(doc, l) PROVE EdgeInv'
  <2>1. UNCHANGED neighbors /\ ~Building' /\ ~built'
    BY <1>1 DEF AddSlice, Building
  <2> QED BY <2>1, CallEdges
<1>2. ASSUME NEW nid \in Nodes, LinkBack(nid) PROVE EdgeInv'
  BY <1>2, LinkBackEdges
<1>3. ASSUME NEW doc \in Docs, Delete(doc) PROVE EdgeInv'
  <2>1. /\ UNCHANGED <<neighbors, built, removed, removing>> /\ ~Building'
        /\ num_vectors' = num_vectors
    BY <1>3 DEF Delete, Building, dataVars
  <2> QED BY <2>1, CallEdges
<1>4. ASSUME NEW docs \in SUBSET Docs, BeginRepair(docs), stage' \in {"single", "batch"}
      PROVE  EdgeInv'
  <2>1. /\ UNCHANGED <<neighbors, built, removed>> /\ ~Building'
        /\ num_vectors' = num_vectors /\ removing = {}
    BY <1>4 DEF BeginRepair, Building, dataVars, IInv, LoopInv
  <2> QED BY <2>1, CallEdges
<1>5. CASE EndRepair \/ Load
  <2>1. /\ UNCHANGED <<neighbors, built>> /\ ~Building' /\ num_vectors' = num_vectors
        /\ removed \cup removing \subseteq removed' \cup removing'
    BY <1>5 DEF EndRepair, Load, Building, dataVars
  <2> QED BY <2>1, CallEdges
<1>6. CASE Build \/ BeginNode \/ Descend \/ Connect \/ EndLinks \/ EndBuild \/ RepairLayer
  BY <1>6, BuildEdges, DescentEdges, ConnectEdges, EndLinksEdges, EndBuildEdges, RepairLayerEdges
<1>7. CASE UNCHANGED vars
  BY <1>7 DEF vars, dataVars, buildVars, EdgeInv, NoSelfEdge, LaidInv, SmallInv, Clique,
              Building, Laid, Used
<1> QED BY <1>1, <1>2, <1>3, <1>4, <1>5, <1>6, <1>7
        DEF Next, DeleteWithRepair, DeleteBatchWithRepair

\* Searches enter layer 0 at a node that is still linked.
LEMMA StartsLinked ==
    ASSUME IInv, entry_point \in Used \ removed
    PROVE  Starts \subseteq Used \ removed
<1>1. Used \ removed \in SUBSET Nodes
  BY NodeFacts DEF IInv, TypeOK, Used, Nodes
<1>2. \A l \in Layers \ {0}, x \in Used \ removed : neighbors[l][x] \subseteq Used \ removed
  BY <1>1 DEF IInv, EdgesWithinLayer, NoEdgeToRemoved
<1> QED BY <1>1, <1>2 DEF Starts

\* The invariants give the exactness of a search.
LEMMA InvExact == IInv /\ Marked /\ EdgeInv => SmallIndexExact
<1> SUFFICES ASSUME IInv, Marked, EdgeInv, built, stage = "idle", num_vectors <= MMax + 1,
                    entry_point \in Used \ removed, NEW start \in Starts
             PROVE  Found(start) = {doc_ids[i] : i \in Used} \ gone
  BY DEF SmallIndexExact
<1>1. removing = {} /\ removed \subseteq tombstones /\ start \in Used \ removed
  BY StartsLinked DEF IInv, LoopInv, RemovedMarked
<1>2. Used \in SUBSET Nodes /\ 0 \in Layers
  BY NodeFacts DEF IInv, TypeOK, Used, Nodes
<1>3. Clique(Used \ removed)
  BY <1>1 DEF EdgeInv, SmallInv
<1>4. Used \ removed \subseteq Reached(0, start)
  <2>1. Used \ removed \in SUBSET Nodes
    BY <1>2
  <2> QED BY <1>1, <1>3, <2>1, ReachedClique
<1>5. Reached(0, start) \subseteq Used
  <2>1. \A x \in Used : neighbors[0][x] \subseteq Used
    BY <1>2 DEF IInv, EdgesWithinLayer
  <2> QED BY <1>1, <1>2, <2>1, ReachedWithin
<1>6. Reached(0, start) \ tombstones = Used \ tombstones
  BY <1>1, <1>4, <1>5
<1>7. \A i \in Used : doc_ids[i] \in gone <=> i \in tombstones
  BY <1>1 DEF Marked
<1> QED BY <1>6, <1>7 DEF Found

\* Whatever was added, deleted and repaired, a search of an index no larger
\* than m_max + 1 finds exactly the ids that were added and not deleted.
THEOREM SmallIndexExactAlways == Spec => []SmallIndexExact
<1>1. Init => Marked /\ EdgeInv
  <2> SUFFICES ASSUME Init PROVE Marked /\ EdgeInv
    OBVIOUS
  <2>1. \A l \in Layers, i \in Nodes : neighbors[l][i] = {}
    BY DEF Init, Empty
  <2>2. Marked
    BY DEF Init, Marked, Used
  <2>3. EdgeInv
    BY <2>1 DEF Init, EdgeInv, NoSelfEdge, LaidInv, SmallInv, Building
  <2> QED BY <2>2, <2>3
<1> QED BY <1>1, MarkedStep, EdgeStep, InvExact, Invariance, PTL DEF Spec
=============================================================================
