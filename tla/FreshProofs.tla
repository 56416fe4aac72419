---------------------------- MODULE FreshProofs ----------------------------
(***************************************************************************)
(* Proofs about FreshGraph, for any vectors, distances, number of nodes    *)
(* and degree, and any sequence of calls: that the counts of in-edges go   *)
(* wrong, and a snapshot is refused, only over a repeated edge, and which  *)
(* call makes one; that a reverse edge takes no last in-edge, a rebuild    *)
(* reaches all there is, and the entry point and the ids stay live ones.   *)
(***************************************************************************)
EXTENDS FreshProperties, FiniteSetTheorems, WellFoundedInduction, TLAPS

-----------------------------------------------------------------------------
(* Least elements                                                          *)

\* Every nonempty set of naturals has a least element: the intervals 0 .. n
\* of its elements are well-founded under strict inclusion.
LEMMA LeastExists ==
    ASSUME NEW S \in SUBSET Nat, S # {}
    PROVE  \E n \in S : \A m \in S : n <= m
<1> DEFINE R == StrictSubsetOrdering(Nat)
           T == {0 .. n : n \in S}
<1>1. IsWellFoundedOn(R, FiniteSubsetsOf(Nat))
  BY FS_StrictSubsetOrderingWellFounded
<1>2. T \subseteq FiniteSubsetsOf(Nat) /\ T # {}
  <2>1. \A n \in S : 0 .. n \in FiniteSubsetsOf(Nat)
    BY FS_Interval DEF FiniteSubsetsOf
  <2> QED BY <2>1
<1>3. PICK t \in T : \A u \in T : ~(<<u, t>> \in R)
  <2> HIDE DEF R, T
  <2> QED BY <1>1, <1>2, WFMin
<1>4. PICK n \in S : t = 0 .. n
  OBVIOUS
<1>5. ASSUME NEW m \in S, ~(n <= m) PROVE FALSE
  <2>1. 0 .. m \in T /\ 0 .. m \subseteq 0 .. n /\ n \in 0 .. n /\ n \notin 0 .. m
    BY <1>5
  <2>2. <<0 .. m, t>> \in R
    BY <2>1, <1>4 DEF StrictSubsetOrdering
  <2> QED BY <1>3, <2>1, <2>2
<1> QED BY <1>5

\* The first node of a set.
LEMMA MinFacts ==
    ASSUME NEW S \in SUBSET Nat, S # {}
    PROVE  Min(S) \in S /\ \A m \in S : Min(S) <= m
<1>1. \E n \in S : \A m \in S : n <= m
  BY LeastExists
<1> QED BY <1>1 DEF Min

-----------------------------------------------------------------------------
(* Counting the entries of lists                                           *)

Lists == [Nodes -> Nat]

\* The entries of a list that name nodes of S.
EntriesOf(list, S) == UNION {{j} \X (1 .. list[j]) : j \in S}

\* There are finitely many nodes, numbered from 0.
LEMMA NodeFacts ==
    /\ IsFiniteSet(Nodes) /\ Nodes \subseteq Nat /\ 0 \in Nodes
    /\ \A n \in 0 .. MaxNodes : 0 .. n - 1 \subseteq Nodes
BY FreshAssumption, FS_Interval DEF Nodes

\* A list names one node finitely often.
LEMMA OneFinite ==
    ASSUME NEW j, NEW n \in Nat
    PROVE  IsFiniteSet({j} \X (1 .. n)) /\ Cardinality({j} \X (1 .. n)) = n
<1>1. IsFiniteSet({j}) /\ Cardinality({j}) = 1
  BY FS_Singleton
<1>2. IsFiniteSet(1 .. n) /\ Cardinality(1 .. n) = n
  BY FS_Interval
<1>3. /\ IsFiniteSet({j} \X (1 .. n))
      /\ Cardinality({j} \X (1 .. n)) = Cardinality({j}) * Cardinality(1 .. n)
  BY <1>1, <1>2, FS_Product, Zenon
<1>4. Cardinality({j}) * Cardinality(1 .. n) = 1 * n
  BY <1>1, <1>2, Zenon
<1>5. 1 * n = n
  OBVIOUS
<1> QED BY <1>3, <1>4, <1>5, Zenon

\* A list has finitely many entries.
LEMMA EntriesFinite ==
    ASSUME NEW list \in Lists, NEW S \in SUBSET Nodes
    PROVE  IsFiniteSet(EntriesOf(list, S))
<1> DEFINE one(j) == {j} \X (1 .. list[j])
           F == [j \in S |-> one(j)]
           Parts == {one(j) : j \in S}
<1>1. IsFiniteSet(S)
  BY NodeFacts, FS_Subset
<1>2. F \in Surjection(S, Parts)
  <2> HIDE DEF one
  <2> QED BY DEF Surjection
<1>3. IsFiniteSet(Parts)
  <2> HIDE DEF F, Parts
  <2> QED BY <1>1, <1>2, FS_Surjection
<1>4. \A T \in Parts : IsFiniteSet(T)
  <2>1. \A j \in S : IsFiniteSet(one(j))
    BY OneFinite DEF Lists
  <2> HIDE DEF one
  <2> QED BY <2>1
<1> HIDE DEF Parts
<1>5. IsFiniteSet(UNION Parts)
  BY <1>3, <1>4, FS_UNION
<1> QED BY <1>5 DEF Parts, EntriesOf

\* A change of what a list says of one node changes its length by as much.
LEMMA LengthStep ==
    ASSUME NEW f \in Lists, NEW g \in Lists, NEW x \in Nodes,
           \A j \in Nodes \ {x} : f[j] = g[j]
    PROVE  /\ Length(f) \in Nat /\ Length(g) \in Nat
           /\ f[x] <= Length(f) /\ g[x] <= Length(g)
           /\ Length(g) - g[x] = Length(f) - f[x]
<1> DEFINE R == EntriesOf(f, Nodes \ {x})
<1>1. IsFiniteSet(R) /\ Cardinality(R) \in Nat
  BY EntriesFinite, FS_CardinalityType
<1>2. R = EntriesOf(g, Nodes \ {x})
  BY DEF EntriesOf
<1> HIDE DEF R
<1>3. ASSUME NEW h \in Lists, R = EntriesOf(h, Nodes \ {x})
      PROVE  Length(h) = Cardinality(R) + h[x] /\ h[x] \in Nat
  <2> DEFINE P == {x} \X (1 .. h[x])
  <2>1. Entries(h) = R \cup P
    BY <1>3 DEF EntriesOf, Entries
  <2>2. IsFiniteSet(P) /\ Cardinality(P) = h[x] /\ h[x] \in Nat
    BY OneFinite DEF Lists
  <2>3. R \cap P = {}
    BY <1>3 DEF EntriesOf
  <2> HIDE DEF P
  <2>4. Cardinality(R \cup P) = Cardinality(R) + Cardinality(P) - Cardinality(R \cap P)
    BY <1>1, <2>2, FS_Union
  <2>5. Cardinality(R \cap P) = 0
    BY <2>3, FS_EmptySet, Zenon
  <2> QED BY <1>1, <2>1, <2>2, <2>4, <2>5 DEF Length
<1>4. Length(f) = Cardinality(R) + f[x] /\ f[x] \in Nat
  BY <1>3 DEF R
<1>5. Length(g) = Cardinality(R) + g[x] /\ g[x] \in Nat
  BY <1>2, <1>3
<1> QED BY <1>1, <1>4, <1>5

\* A length is a natural number, at least what is said of each node.
LEMMA LengthType ==
    ASSUME NEW f \in Lists
    PROVE  Length(f) \in Nat /\ \A x \in Nodes : f[x] <= Length(f)
<1>1. \A x \in Nodes : Length(f) \in Nat /\ f[x] <= Length(f)
  BY LengthStep
<1> QED BY <1>1, NodeFacts

\* A list that names nobody is empty.
LEMMA LengthNone == Length(None) = 0
<1>1. Entries(None) = {}
  BY DEF Entries, None
<1> QED BY <1>1, FS_EmptySet DEF Length

\* A list that is not empty names somebody.
LEMMA LengthPositive ==
    ASSUME NEW f \in Lists, Length(f) > 0
    PROVE  \E x \in Nodes : f[x] > 0
<1> SUFFICES ASSUME \A x \in Nodes : ~(f[x] > 0) PROVE FALSE
  OBVIOUS
<1>1. Entries(f) = {}
  BY DEF Entries, Lists
<1> QED BY <1>1, FS_EmptySet DEF Length

\* A list that names no node twice is as long as the nodes it names are many.
LEMMA LengthOfSet ==
    ASSUME NEW f \in Lists, \A j \in Nodes : f[j] <= 1
    PROVE  IsFiniteSet(Named(f)) /\ Length(f) = Cardinality(Named(f))
<1> DEFINE N == Named(f)
<1>1. N \in SUBSET Nodes /\ IsFiniteSet(N) /\ IsFiniteSet({1}) /\ Cardinality({1}) = 1
  BY NodeFacts, FS_Subset, FS_Singleton DEF Named
<1>2. Cardinality(N) \in Nat
  BY <1>1, FS_CardinalityType
<1>3. \A j \in Nodes : f[j] \in {0, 1} /\ 1 .. 0 = {} /\ 1 .. 1 = {1}
  BY DEF Lists
<1>4. Entries(f) = N \X {1}
  BY <1>3 DEF Entries, Named
<1>5. Cardinality(N \X {1}) = Cardinality(N) * 1
  BY <1>1, FS_Product
<1> QED BY <1>1, <1>2, <1>4, <1>5 DEF Length

-----------------------------------------------------------------------------
(* Graphs                                                                  *)

Graphs == [Nodes -> Lists]

\* The entries of all lists of a graph that name node j.
Into(graph, j) == Length([i \in Nodes |-> graph[i][j]])

LEMMA InDegreeInto == \A j : InDegree(j) = Into(neighbors, j) /\ InDegree(j)' = Into(neighbors', j)
BY DEF InDegree, Into

\* A list that is replaced changes the in-degrees by what it names.
LEMMA IntoStep ==
    ASSUME NEW g \in Graphs, NEW h \in Graphs, NEW i \in Nodes,
           \A k \in Nodes \ {i} : g[k] = h[k], NEW j \in Nodes
    PROVE  /\ Into(g, j) \in Nat /\ Into(h, j) \in Nat
           /\ g[i][j] \in Nat /\ h[i][j] \in Nat
           /\ g[i][j] <= Into(g, j) /\ h[i][j] <= Into(h, j)
           /\ Into(h, j) = Into(g, j) - g[i][j] + h[i][j]
<1> DEFINE f == [k \in Nodes |-> g[k][j]]
           e == [k \in Nodes |-> h[k][j]]
<1>1. f \in Lists /\ e \in Lists
  BY DEF Graphs, Lists
<1>2. \A k \in Nodes \ {i} : f[k] = e[k]
  OBVIOUS
<1>3. f[i] = g[i][j] /\ e[i] = h[i][j] /\ f[i] \in Nat /\ e[i] \in Nat
  BY DEF Graphs, Lists
<1>4. Into(g, j) = Length(f) /\ Into(h, j) = Length(e)
  BY DEF Into
<1> HIDE DEF f, e
<1>5. /\ Length(f) \in Nat /\ Length(e) \in Nat
      /\ f[i] <= Length(f) /\ e[i] <= Length(e)
      /\ Length(e) - e[i] = Length(f) - f[i]
  BY <1>1, <1>2, LengthStep
<1> QED BY <1>3, <1>4, <1>5

\* In-degrees are natural numbers, and count every list.
LEMMA IntoType ==
    ASSUME NEW g \in Graphs, NEW j \in Nodes
    PROVE  /\ Into(g, j) \in Nat
           /\ \A i \in Nodes : g[i][j] \in Nat /\ g[i][j] <= Into(g, j)
<1>1. \A i \in Nodes : Into(g, j) \in Nat /\ g[i][j] \in Nat /\ g[i][j] <= Into(g, j)
  BY IntoStep
<1> QED BY <1>1, NodeFacts

\* A node that some list names has an in-edge, and conversely.
LEMMA IntoPositive ==
    ASSUME NEW g \in Graphs, NEW j \in Nodes
    PROVE  Into(g, j) > 0 <=> \E i \in Nodes : g[i][j] > 0
<1>1. ASSUME Into(g, j) > 0 PROVE \E i \in Nodes : g[i][j] > 0
  <2> DEFINE f == [i \in Nodes |-> g[i][j]]
  <2>1. f \in Lists /\ Length(f) > 0
    BY <1>1 DEF Into, Graphs, Lists
  <2> HIDE DEF f
  <2>2. PICK i \in Nodes : f[i] > 0
    BY <2>1, LengthPositive
  <2> QED BY <2>2 DEF f
<1> QED BY <1>1, IntoType

\* A list made from a set names its elements.
LEMMA ListOfFacts ==
    ASSUME NEW S \in SUBSET Nodes
    PROVE  /\ ListOf(S) \in Lists /\ Named(ListOf(S)) = S
           /\ \A j \in Nodes : ListOf(S)[j] = IF j \in S THEN 1 ELSE 0
BY DEF ListOf, Lists, Named

\* What rng_prune and the protection of last in-edges select.
LEMMA PrunedWithin == \A q, C, n : \A S \in Pruned(q, C, n) : S \subseteq C
BY DEF Pruned

LEMMA KeptWithin == \A nid, C : \A S \in Kept(nid, C) : S \subseteq C
<1> SUFFICES ASSUME NEW nid, NEW C, NEW S \in Kept(nid, C) PROVE S \subseteq C
  OBVIOUS
<1>1. Protected(C) \subseteq C
  BY DEF Protected
<1>2. CASE S \in Pruned(vectors[nid], C, MaxDegree)
  BY <1>2, PrunedWithin
<1>3. ASSUME NEW n, NEW T \in Pruned(vectors[nid], C \ Protected(C), n), S = Protected(C) \cup T
      PROVE  S \subseteq C
  BY <1>1, <1>3, PrunedWithin
<1> QED BY <1>2, <1>3 DEF Kept

\* What a walk visits.
LEMMA ReachedSelf == \A i \in Nodes : i \in Reached(i)
BY DEF Reached

LEMMA ReachedEdge ==
    ASSUME NEW i, NEW x \in Reached(i), NEW y \in Nodes, y \in Named(neighbors[x])
    PROVE  y \in Reached(i)
BY DEF Reached

LEMMA ReachedWithin ==
    ASSUME NEW S \in SUBSET Nodes, NEW i \in S, \A x \in S : Named(neighbors[x]) \subseteq S
    PROVE  Reached(i) \subseteq S
BY DEF Reached

-----------------------------------------------------------------------------
(* The inductive invariant                                                 *)

\* What holds of the locals of the loop that a call is in.
LoopInv ==
    /\ built \/ stage # "idle" => entry_point \in Used
    /\ ~built => deleted = {}
    /\ stage = "rows" => ~built /\ row \in Used
    /\ stage = "links" => row \in Used \ todo
    /\ stage # "links" => todo = {}

\* Edges are among the nodes that there are, and none leads back to its node.
EdgeInv ==
    \A i \in Nodes : /\ Named(neighbors[i]) \subseteq Used \ {i}
                     /\ i \notin Used => Named(neighbors[i]) = {}

\* ensure_connectivity has attached every node that it has passed.
BridgeInv == stage = "bridges" => \A i \in Used : i < row => i \in Reached(entry_point)

IInv == TypeOK /\ LoopInv /\ EdgeInv /\ BridgeInv

\* What there is, numbered from 0.
LEMMA UsedFacts ==
    ASSUME TypeOK
    PROVE  /\ Used \in SUBSET Nodes /\ Used \subseteq Nat /\ IsFiniteSet(Used)
           /\ Cardinality(Used) = num_vectors /\ num_vectors \in Nat /\ num_vectors <= MaxNodes
           /\ \A i \in Nodes : i \in Used <=> i < num_vectors
           /\ neighbors \in Graphs /\ inbound_count \in Lists
           /\ Live \subseteq Used
<1>1. num_vectors \in Nat /\ num_vectors <= MaxNodes /\ Used = 0 .. num_vectors - 1
  BY FreshAssumption DEF TypeOK, Used
<1>2. Used \subseteq Nodes
  BY <1>1, FreshAssumption DEF Nodes
<1>3. IsFiniteSet(Used) /\ Cardinality(Used) = num_vectors
  BY <1>1, FS_Interval
<1> QED BY <1>1, <1>2, <1>3 DEF TypeOK, Graphs, Lists, Live, Nodes

\* A walk from a node that there is stays among those.
LEMMA ReachedUsed ==
    ASSUME IInv, NEW i \in Used
    PROVE  Reached(i) \subseteq Used
<1>1. Used \in SUBSET Nodes /\ \A x \in Used : Named(neighbors[x]) \subseteq Used
  BY UsedFacts DEF IInv, EdgeInv
<1> QED BY <1>1, ReachedWithin

-----------------------------------------------------------------------------
(* Each action keeps the invariant                                         *)

LEMMA InitInv == Init => IInv
<1> SUFFICES ASSUME Init PROVE IInv
  OBVIOUS
<1>1. None \in Lists /\ Named(None) = {}
  BY DEF None, Lists, Named
<1>2. TypeOK
  <2>1. MaxNodes \in Nat /\ 0 \in 0 .. MaxNodes /\ 0 \in Nodes
    BY FreshAssumption, NodeFacts
  <2>2. neighbors \in [Nodes -> [Nodes -> Nat]] /\ inbound_count \in [Nodes -> Nat]
    BY <1>1 DEF Init, Lists
  <2> QED BY <2>1, <2>2 DEF Init, TypeOK
<1>3. LoopInv
  BY DEF Init, LoopInv
<1>4. EdgeInv
  BY <1>1 DEF Init, EdgeInv
<1>5. BridgeInv
  BY DEF Init, BridgeInv
<1> QED BY <1>2, <1>3, <1>4, <1>5 DEF IInv

LEMMA StutterStep == IInv /\ UNCHANGED vars => IInv'
BY DEF IInv, TypeOK, LoopInv, EdgeInv, BridgeInv, Reached, Used, vars, dataVars, graphVars, callVars

LEMMA AddSliceStep ==
    ASSUME IInv, NEW doc \in Docs, NEW vec \in Vecs, AddSlice(doc, vec)
    PROVE  IInv'
<1>1. /\ ~built /\ stage = "idle" /\ num_vectors \in Nat /\ num_vectors < MaxNodes
      /\ num_vectors' = num_vectors + 1
      /\ UNCHANGED <<graphVars, deleted, entry_point, built, callVars>>
      /\ Used \subseteq Used'
  BY UsedFacts DEF AddSlice, IInv, Used
<1>2. TypeOK'
  <2>1. /\ vectors' = [vectors EXCEPT ![num_vectors] = vec]
        /\ doc_ids' = [doc_ids EXCEPT ![num_vectors] = doc]
    BY DEF AddSlice
  <2>2. vectors' \in [Nodes -> Vecs \cup {NoVec}] /\ doc_ids' \in [Nodes -> Docs \cup {NoDoc}]
    BY <2>1 DEF IInv, TypeOK
  <2>3. num_vectors' \in 0 .. MaxNodes /\ deleted' \in SUBSET Used' /\ todo' \in SUBSET Used'
    BY <1>1, FreshAssumption DEF IInv, TypeOK, callVars
  <2> QED BY <1>1, <2>2, <2>3 DEF IInv, TypeOK, graphVars, callVars
<1>3. LoopInv' /\ BridgeInv'
  BY <1>1 DEF IInv, LoopInv, BridgeInv, callVars
<1>4. EdgeInv'
  BY <1>1 DEF IInv, EdgeInv, graphVars
<1> QED BY <1>2, <1>3, <1>4 DEF IInv

LEMMA BuildStep == IInv /\ Build => IInv'
<1> SUFFICES ASSUME IInv, Build PROVE IInv'
  OBVIOUS
<1>1. /\ Used' = Used /\ Used \in SUBSET Nodes /\ 0 \in Used
      /\ ~built /\ UNCHANGED <<dataVars, deleted, built>>
      /\ entry_point' \in Used
      /\ stage' = "rows" /\ row' = 0 /\ todo' = {}
  BY UsedFacts, NodeFacts DEF Build, IInv, Used, dataVars, Medoids
<1>2. \A i \in Nodes : NearestOthers(i) \in SUBSET (Used \ {i})
  BY DEF NearestOthers
<1>3. ASSUME NEW i \in Nodes
      PROVE  /\ neighbors'[i] \in Lists
             /\ Named(neighbors'[i]) \subseteq Used \ {i}
             /\ i \notin Used => Named(neighbors'[i]) = {}
  <2>1. CASE i \in Used
    <3>1. neighbors'[i] = ListOf(NearestOthers(i))
      BY <2>1 DEF Build
    <3> QED BY <1>1, <1>2, <2>1, <3>1, ListOfFacts
  <2>2. CASE i \notin Used
    BY <2>2 DEF Build, None, Lists, Named
  <2> QED BY <2>1, <2>2
<1>4. neighbors' \in Graphs
  BY <1>3 DEF Build, Graphs
<1>5. inbound_count' \in [Nodes -> Nat]
  BY <1>4, InDegreeInto, IntoType DEF Build, InDegrees
<1>6. TypeOK'
  BY <1>1, <1>4, <1>5, FreshAssumption DEF IInv, TypeOK, dataVars, Graphs, Lists
<1>7. LoopInv' /\ BridgeInv'
  BY <1>1 DEF IInv, LoopInv, BridgeInv
<1>8. EdgeInv'
  BY <1>1, <1>3 DEF EdgeInv
<1> QED BY <1>6, <1>7, <1>8 DEF IInv

\* The list of the row is replaced by one of a set of others.
LEMMA BuildRowFacts ==
    ASSUME IInv, BuildRow
    PROVE  \E S \in SUBSET (Used \ {row}) :
              /\ row \in Used /\ ~built
              /\ neighbors' = [neighbors EXCEPT ![row] = ListOf(S)]
              /\ inbound_count' = [j \in Nodes |->
                                     LET rest == inbound_count[j] - neighbors[row][j]
                                     IN  (IF rest < 0 THEN 0 ELSE rest) + ListOf(S)[j]]
              /\ todo' = S
<1>1. row \in Used /\ ~built /\ entry_point \in Used
  BY DEF BuildRow, IInv, LoopInv
<1>2. PICK S \in Pruned(vectors[row], Reached(entry_point) \ {row}, MaxDegree) :
              /\ neighbors' = [neighbors EXCEPT ![row] = ListOf(S)]
              /\ inbound_count' = [j \in Nodes |->
                                     LET rest == inbound_count[j] - neighbors[row][j]
                                     IN  (IF rest < 0 THEN 0 ELSE rest) + ListOf(S)[j]]
              /\ todo' = S
  BY DEF BuildRow
<1>3. S \subseteq Used \ {row}
  BY <1>1, PrunedWithin, ReachedUsed
<1> QED BY <1>1, <1>2, <1>3

LEMMA BuildRowStep == IInv /\ BuildRow => IInv'
<1> SUFFICES ASSUME IInv, BuildRow PROVE IInv'
  OBVIOUS
<1>1. PICK S \in SUBSET (Used \ {row}) :
              /\ row \in Used /\ ~built
              /\ neighbors' = [neighbors EXCEPT ![row] = ListOf(S)]
              /\ inbound_count' = [j \in Nodes |->
                                     LET rest == inbound_count[j] - neighbors[row][j]
                                     IN  (IF rest < 0 THEN 0 ELSE rest) + ListOf(S)[j]]
              /\ todo' = S
  BY BuildRowFacts
<1>2. /\ stage = "rows" /\ stage' = "links" /\ Used' = Used
      /\ UNCHANGED <<dataVars, deleted, entry_point, built, row>>
  BY DEF BuildRow, dataVars, Used
<1>3. Used \in SUBSET Nodes /\ neighbors \in Graphs /\ inbound_count \in Lists
  BY UsedFacts DEF IInv
<1>4. /\ ListOf(S) \in Lists /\ Named(ListOf(S)) = S
      /\ \A j \in Nodes : ListOf(S)[j] \in {0, 1}
  BY <1>3, ListOfFacts
<1>5. neighbors' \in Graphs
  BY <1>1, <1>3, <1>4 DEF Graphs
<1>6. inbound_count' \in [Nodes -> Nat]
  <2>1. \A j \in Nodes : inbound_count[j] \in Nat /\ neighbors[row][j] \in Nat
    BY <1>1, <1>3 DEF Graphs, Lists
  <2> QED BY <1>1, <1>4, <2>1
<1>7. TypeOK'
  BY <1>1, <1>2, <1>5, <1>6 DEF IInv, TypeOK, dataVars, Graphs, Lists
<1>8. LoopInv' /\ BridgeInv'
  BY <1>1, <1>2, <1>3 DEF IInv, LoopInv, BridgeInv
<1>9. EdgeInv'
  <2>1. \A i \in Nodes : neighbors'[i] = IF i = row THEN ListOf(S) ELSE neighbors[i]
    BY <1>1, <1>3 DEF Graphs
  <2> QED BY <1>1, <1>2, <1>3, <1>4, <2>1 DEF IInv, EdgeInv
<1> QED BY <1>7, <1>8, <1>9 DEF IInv

\* A reverse edge changes the list of one node that is not the row, and what
\* that list names is what it named, or the row.
LEMMA LinkFacts ==
    ASSUME IInv, NEW nid \in Nodes, LinkBack(nid)
    PROVE  /\ nid \in Used /\ row \in Used /\ nid # row
           /\ inbound_count' \in Lists
           /\ \E list \in Lists :
                 /\ neighbors' = [neighbors EXCEPT ![nid] = list]
                 /\ Named(list) \subseteq Named(neighbors[nid]) \cup {row}
<1>1. nid \in Used /\ row \in Used /\ nid # row
  BY DEF LinkBack, IInv, LoopInv, TypeOK
<1>2. /\ Used \in SUBSET Nodes /\ neighbors \in Graphs /\ inbound_count \in Lists
      /\ neighbors[nid] \in Lists
  BY UsedFacts DEF IInv, Graphs
<1>3. CASE UNCHANGED graphVars
  BY <1>1, <1>2, <1>3 DEF graphVars, Graphs
<1>4. CASE /\ neighbors' = [neighbors EXCEPT ![nid][row] = 1]
           /\ inbound_count' = [inbound_count EXCEPT ![row] = @ + 1]
  <2> DEFINE list == [neighbors[nid] EXCEPT ![row] = 1]
  <2>1. list \in Lists /\ Named(list) \subseteq Named(neighbors[nid]) \cup {row}
    BY <1>1, <1>2 DEF Lists, Named
  <2>2. neighbors' = [neighbors EXCEPT ![nid] = list]
    BY <1>2, <1>4 DEF Graphs
  <2>3. inbound_count' \in Lists
    BY <1>1, <1>2, <1>4 DEF Lists
  <2> QED BY <1>1, <2>1, <2>2, <2>3
<1>5. ASSUME NEW kept \in Kept(nid, Named(neighbors[nid]) \cup {row}), Relist(nid, kept)
      PROVE  /\ inbound_count' \in Lists
             /\ \E list \in Lists :
                 /\ neighbors' = [neighbors EXCEPT ![nid] = list]
                 /\ Named(list) \subseteq Named(neighbors[nid]) \cup {row}
  <2>1. kept \subseteq Named(neighbors[nid]) \cup {row}
    BY KeptWithin
  <2>2. kept \in SUBSET Nodes
    BY <1>1, <1>2, <2>1 DEF Named
  <2>3. ListOf(kept) \in Lists /\ Named(ListOf(kept)) = kept
    BY <2>2, ListOfFacts
  <2>4. inbound_count' \in Lists
    BY <1>2, <1>5 DEF Relist, Lists
  <2> QED BY <1>5, <2>1, <2>3, <2>4 DEF Relist
<1> QED BY <1>1, <1>3, <1>4, <1>5 DEF LinkBack, AddReverseEdge

LEMMA LinkBackStep ==
    ASSUME IInv, NEW nid \in Nodes, LinkBack(nid)
    PROVE  IInv'
<1>1. PICK list \in Lists :
              /\ neighbors' = [neighbors EXCEPT ![nid] = list]
              /\ Named(list) \subseteq Named(neighbors[nid]) \cup {row}
  BY LinkFacts
<1>2. nid \in Used /\ row \in Used /\ nid # row /\ inbound_count' \in Lists
  BY LinkFacts
<1>3. /\ stage = "links" /\ Used' = Used /\ todo' = todo \ {nid}
      /\ UNCHANGED <<dataVars, deleted, entry_point, built, stage, row>>
  BY DEF LinkBack, dataVars, Used
<1>4. neighbors \in Graphs
  BY UsedFacts DEF IInv
<1>5. neighbors' \in Graphs
  BY <1>1, <1>4 DEF Graphs
<1>6. TypeOK'
  BY <1>2, <1>3, <1>5 DEF IInv, TypeOK, dataVars, Graphs, Lists
<1>7. LoopInv' /\ BridgeInv'
  BY <1>3 DEF IInv, LoopInv, BridgeInv
<1>8. EdgeInv'
  <2>1. \A i \in Nodes : neighbors'[i] = IF i = nid THEN list ELSE neighbors[i]
    BY <1>1, <1>4 DEF Graphs
  <2> QED BY <1>1, <1>2, <1>3, <2>1 DEF IInv, EdgeInv
<1> QED BY <1>6, <1>7, <1>8 DEF IInv

LEMMA EndLinksStep == IInv /\ EndLinks => IInv'
<1> SUFFICES ASSUME IInv, EndLinks PROVE IInv'
  OBVIOUS
<1>1. /\ stage = "links" /\ Used' = Used /\ row \in Used /\ todo = {}
      /\ UNCHANGED <<dataVars, graphVars, deleted, entry_point, built, todo>>
  BY DEF EndLinks, dataVars, Used, IInv, LoopInv
<1>2. /\ stage' \in {"idle", "rows", "bridges"} /\ row' \in 0 .. MaxNodes
      /\ stage' = "idle" => built
      /\ stage' = "rows" => ~built /\ row' \in Used
      /\ stage' = "bridges" => row' = 0
  <2>1. num_vectors \in Nat /\ num_vectors <= MaxNodes /\ row \in Nat /\ MaxNodes \in Nat
    BY <1>1, UsedFacts, FreshAssumption DEF IInv
  <2>2. row + 1 < num_vectors => row + 1 \in Used /\ row + 1 \in 0 .. MaxNodes
    BY <2>1 DEF Used
  <2>3. Used' = Used /\ 0 \in 0 .. MaxNodes
    BY <1>1, <2>1
  <2> QED BY <2>2, <2>3 DEF EndLinks
<1>3. TypeOK'
  BY <1>1, <1>2 DEF IInv, TypeOK, dataVars, graphVars
<1>4. LoopInv'
  BY <1>1, <1>2 DEF IInv, LoopInv
<1>5. EdgeInv'
  BY <1>1 DEF IInv, EdgeInv, graphVars
<1>6. BridgeInv'
  BY <1>1, <1>2, UsedFacts DEF IInv, BridgeInv
<1> QED BY <1>3, <1>4, <1>5, <1>6 DEF IInv

LEMMA BridgeStep == IInv /\ Bridge => IInv'
<1> SUFFICES ASSUME IInv, Bridge PROVE IInv'
  OBVIOUS
<1> DEFINE i == Min(Unreached)
<1>1. /\ stage = "bridges" /\ Unreached # {} /\ Used' = Used
      /\ UNCHANGED <<dataVars, inbound_count, deleted, entry_point, built, stage, todo>>
      /\ row' = i + 1
  BY DEF Bridge, dataVars, Used
<1>2. /\ Used \in SUBSET Nodes /\ Used \subseteq Nat /\ neighbors \in Graphs
      /\ num_vectors \in Nat /\ num_vectors <= MaxNodes
      /\ \A j \in Nodes : j \in Used <=> j < num_vectors
  BY UsedFacts DEF IInv
<1>3. entry_point \in Used /\ entry_point \in Reached(entry_point)
  BY <1>1, <1>2, ReachedSelf DEF IInv, LoopInv
<1>4. /\ i \in Used /\ i \notin Reached(entry_point)
      /\ \A j \in Unreached : i <= j
  <2>1. Unreached \in SUBSET Nat
    BY <1>2 DEF Unreached
  <2>2. i \in Unreached /\ \A j \in Unreached : i <= j
    BY <1>1, <2>1, MinFacts
  <2> QED BY <2>2 DEF Unreached
<1> HIDE DEF i
<1>5. PICK best \in Anchors(i, Reached(entry_point)) :
          neighbors' = [neighbors EXCEPT ![best][i] = @ + 1, ![i][best] = @ + 1]
  BY DEF Bridge, i
<1>6. best \in Reached(entry_point)
  BY <1>3 DEF Anchors
<1>7. best \in Used /\ best # i
  BY <1>3, <1>4, <1>6, ReachedUsed
<1>8. /\ \A j, k \in Nodes : neighbors[j][k] \in Nat
      /\ \A j, k \in Nodes : neighbors'[j][k] =
            IF (j = best /\ k = i) \/ (j = i /\ k = best) THEN neighbors[j][k] + 1 ELSE neighbors[j][k]
      /\ neighbors' \in Graphs
  <2>1. \A j, k \in Nodes : neighbors[j][k] \in Nat
    BY <1>2 DEF Graphs, Lists
  <2>2. /\ neighbors' = [j \in Nodes |-> IF j = best THEN [neighbors[j] EXCEPT ![i] = @ + 1]
                                         ELSE IF j = i THEN [neighbors[j] EXCEPT ![best] = @ + 1]
                                         ELSE neighbors[j]]
        /\ \A j \in Nodes : neighbors[j] \in Lists
    <3> DEFINE first == [neighbors EXCEPT ![best][i] = @ + 1]
    <3>1. neighbors' = [first EXCEPT ![i][best] = neighbors[i][best] + 1]
      BY <1>5
    <3>2. /\ DOMAIN first = Nodes
          /\ \A j \in Nodes : first[j] = IF j = best THEN [neighbors[j] EXCEPT ![i] = @ + 1]
                                                    ELSE neighbors[j]
      BY <1>2 DEF Graphs
    <3> HIDE DEF first
    <3>3. /\ DOMAIN neighbors' = Nodes
          /\ \A j \in Nodes : neighbors'[j] = IF j = i THEN [first[j] EXCEPT ![best] = neighbors[j][best] + 1]
                                                      ELSE first[j]
      BY <3>1, <3>2
    <3>4. neighbors' = [j \in Nodes |-> neighbors'[j]]
      BY <3>1, <3>2
    <3> QED BY <1>2, <1>7, <3>2, <3>3, <3>4 DEF Graphs
  <2>3. \A j, k \in Nodes : neighbors'[j][k] =
            IF (j = best /\ k = i) \/ (j = i /\ k = best) THEN neighbors[j][k] + 1 ELSE neighbors[j][k]
    BY <1>2, <1>4, <1>7, <2>2 DEF Lists
  <2>4. neighbors' \in Graphs
    BY <1>2, <1>4, <1>7, <2>1, <2>2 DEF Graphs, Lists
  <2> QED BY <2>1, <2>3, <2>4
<1>9. \A j \in Nodes : Named(neighbors[j]) \subseteq Named(neighbors'[j])
  BY <1>8 DEF Named
<1>10. Reached(entry_point) \subseteq Reached(entry_point)'
  <2>1. \A C \in SUBSET Nodes : (\A x \in C : Named(neighbors'[x]) \subseteq C)
                                    => \A x \in C : Named(neighbors[x]) \subseteq C
    BY <1>9
  <2> QED BY <1>1, <2>1 DEF Reached
<1>11. i \in Reached(entry_point)'
  <2>1. i \in Named(neighbors'[best])
    <3>1. neighbors'[best][i] = neighbors[best][i] + 1 /\ neighbors[best][i] \in Nat
      BY <1>2, <1>4, <1>7, <1>8
    <3> QED BY <1>2, <1>4, <3>1 DEF Named
  <2>2. best \in Reached(entry_point)'
    BY <1>6, <1>10
  <2> QED BY <1>2, <1>4, <2>1, <2>2 DEF Reached
<1>12. TypeOK'
  <2>1. row' \in 0 .. MaxNodes
    BY <1>1, <1>2, <1>4, FreshAssumption
  <2> QED BY <1>1, <1>8, <2>1 DEF IInv, TypeOK, dataVars, Graphs, Lists
<1>13. LoopInv'
  BY <1>1 DEF IInv, LoopInv
<1>14. EdgeInv'
  <2>1. \A j \in Nodes : \/ Named(neighbors'[j]) = Named(neighbors[j])
                         \/ j = best /\ Named(neighbors'[j]) = Named(neighbors[j]) \cup {i}
                         \/ j = i /\ Named(neighbors'[j]) = Named(neighbors[j]) \cup {best}
    <3>1. \A j, k \in Nodes : k \in Named(neighbors'[j]) <=>
             k \in Named(neighbors[j]) \/ (j = best /\ k = i) \/ (j = i /\ k = best)
      BY <1>8 DEF Named
    <3>2. \A j : Named(neighbors[j]) \subseteq Nodes /\ Named(neighbors'[j]) \subseteq Nodes
      BY DEF Named
    <3> QED BY <1>2, <1>4, <1>7, <3>1, <3>2
  <2> QED BY <1>1, <1>4, <1>7, <2>1 DEF IInv, EdgeInv
<1>15. BridgeInv'
  <2>1. ASSUME NEW j \in Used, j < i + 1 PROVE j \in Reached(entry_point)'
    <3>1. CASE j = i
      BY <1>11, <3>1
    <3>2. CASE j < row
      BY <1>1, <1>10, <3>2 DEF IInv, BridgeInv
    <3>3. CASE j # i /\ ~(j < row)
      <4>1. j \notin Unreached /\ j \in Nat /\ row \in Nat
        BY <1>2, <1>4, <2>1, <3>3, FreshAssumption DEF IInv, TypeOK
      <4>2. j \in Reached(entry_point)
        BY <3>3, <4>1 DEF Unreached
      <4> QED BY <1>10, <4>2
    <3> QED BY <3>1, <3>2, <3>3
  <2>2. BridgeInv' <=> (stage' = "bridges" => \A j \in Used' : j < row' => j \in Reached(entry_point)')
    BY DEF BridgeInv
  <2> QED BY <1>1, <2>1, <2>2
<1> QED BY <1>12, <1>13, <1>14, <1>15 DEF IInv

\* What ensure_connectivity leaves is reached.
LEMMA EndBridgesReaches == IInv /\ EndBridges => Used \subseteq Reached(entry_point)
<1> SUFFICES ASSUME IInv, EndBridges, NEW j \in Used PROVE j \in Reached(entry_point)
  OBVIOUS
<1>1. stage = "bridges" /\ Unreached = {}
  BY DEF EndBridges
<1>2. j \in Nat /\ row \in Nat
  BY UsedFacts, FreshAssumption DEF IInv, TypeOK
<1>3. CASE j < row
  BY <1>1, <1>3 DEF IInv, BridgeInv
<1>4. CASE j >= row
  BY <1>1, <1>4 DEF Unreached
<1> QED BY <1>2, <1>3, <1>4

LEMMA EndBridgesStep == IInv /\ EndBridges => IInv'
<1> SUFFICES ASSUME IInv, EndBridges PROVE IInv'
  OBVIOUS
<1>1. /\ stage = "bridges" /\ stage' = "idle" /\ row' = 0 /\ built' /\ Used' = Used
      /\ inbound_count' = InDegrees
      /\ UNCHANGED <<dataVars, neighbors, deleted, entry_point, todo>>
  BY DEF EndBridges, dataVars, Used
<1>2. inbound_count' \in [Nodes -> Nat]
  <2>1. \A j \in Nodes : InDegree(j) \in Nat
    BY UsedFacts, InDegreeInto, IntoType DEF IInv
  <2> QED BY <1>1, <2>1 DEF InDegrees
<1>3. TypeOK'
  BY <1>1, <1>2, FreshAssumption DEF IInv, TypeOK, dataVars, EndBridges
<1>4. LoopInv' /\ EdgeInv' /\ BridgeInv'
  BY <1>1 DEF IInv, LoopInv, EdgeInv, BridgeInv
<1> QED BY <1>3, <1>4 DEF IInv

\* delete marks the first live node of an id, and moves the entry point off it
\* if it can.
LEMMA TombstoneFacts ==
    ASSUME IInv, built, NEW doc, Tombstone(doc)
    PROVE  /\ deleted' \in SUBSET Used /\ entry_point' \in Used
           /\ \/ UNCHANGED <<deleted, entry_point>> /\ LiveOf(doc) = {}
              \/ \E i \in LiveOf(doc) :
                    /\ deleted' = deleted \cup {i}
                    /\ entry_point = i \/ entry_point' = entry_point
                    /\ entry_point = i => \/ entry_point' \in Live \ {i}
                                          \/ Live = {i}
<1>1. /\ Used \in SUBSET Nodes /\ Used \subseteq Nat /\ Live \subseteq Used
      /\ entry_point \in Used /\ deleted \in SUBSET Used
  BY UsedFacts DEF IInv, LoopInv, TypeOK
<1>2. CASE LiveOf(doc) = {}
  BY <1>1, <1>2 DEF Tombstone
<1>3. CASE LiveOf(doc) # {}
  <2> DEFINE i == Min(LiveOf(doc))
  <2>1. LiveOf(doc) \in SUBSET Nat
    BY <1>1 DEF LiveOf
  <2>2. i \in LiveOf(doc) /\ i \in Live /\ i \in Used
    <3>1. i \in LiveOf(doc)
      BY <1>3, <2>1, MinFacts
    <3> QED BY <1>1, <3>1 DEF LiveOf
  <2>3. /\ deleted' = deleted \cup {i}
        /\ entry_point' \in IF entry_point = i THEN Promoted(i, Live \ {i}) ELSE {entry_point}
    BY <1>3 DEF Tombstone
  <2> HIDE DEF i
  <2>4. ASSUME entry_point = i PROVE entry_point' \in Live \ {i} \/ (Live = {i} /\ entry_point' = i)
    <3>1. entry_point' \in Promoted(i, Live \ {i})
      BY <2>3, <2>4
    <3>2. CASE Named(neighbors[i]) \cap (Live \ {i}) # {}
      BY <3>1, <3>2 DEF Promoted
    <3>3. CASE Named(neighbors[i]) \cap (Live \ {i}) = {} /\ Live \ {i} # {}
      <4>1. Live \ {i} \in SUBSET Nat
        BY <1>1
      <4>2. Min(Live \ {i}) \in Live \ {i}
        BY <3>3, <4>1, MinFacts
      <4> QED BY <3>1, <3>3, <4>2 DEF Promoted
    <3>4. CASE Live \ {i} = {}
      BY <2>2, <3>1, <3>4 DEF Promoted
    <3> QED BY <3>2, <3>3, <3>4
  <2> QED BY <1>1, <2>2, <2>3, <2>4
<1> QED BY <1>2, <1>3

LEMMA DeleteStep ==
    ASSUME IInv, NEW doc \in Docs, Delete(doc)
    PROVE  IInv'
<1>1. /\ built /\ stage = "idle" /\ Used' = Used
      /\ UNCHANGED <<dataVars, graphVars, built, callVars>>
      /\ deleted' \in SUBSET Used /\ entry_point' \in Used
  BY TombstoneFacts DEF Delete, dataVars, Used
<1>2. entry_point' \in Nodes
  BY <1>1, UsedFacts DEF IInv
<1>3. TypeOK'
  BY <1>1, <1>2 DEF IInv, TypeOK, dataVars, graphVars, callVars
<1>4. LoopInv' /\ EdgeInv' /\ BridgeInv'
  BY <1>1 DEF IInv, LoopInv, EdgeInv, BridgeInv, graphVars, callVars
<1> QED BY <1>3, <1>4 DEF IInv

\* The new node gets a list of nodes that were there before.
LEMMA InsertFacts ==
    ASSUME IInv, NEW doc \in Docs, NEW vec \in Vecs, Insert(doc, vec)
    PROVE  /\ num_vectors \in Nodes /\ num_vectors \notin Used
           /\ Used' = Used \cup {num_vectors}
           /\ Tombstone(doc) /\ built
           /\ \E S \in SUBSET Used :
                 /\ neighbors' = [neighbors EXCEPT ![num_vectors] = ListOf(S)]
                 /\ inbound_count' = [j \in Nodes |-> inbound_count[j] + ListOf(S)[j]]
                 /\ todo' = S
<1>1. /\ num_vectors \in Nat /\ num_vectors < MaxNodes /\ num_vectors' = num_vectors + 1
      /\ built /\ Tombstone(doc)
  BY UsedFacts DEF Insert, IInv
<1>2. num_vectors \in Nodes /\ num_vectors \notin Used /\ Used' = Used \cup {num_vectors}
  BY <1>1, FreshAssumption DEF Nodes, Used
<1>3. PICK S \in Pruned(vec, Reached(entry_point'), MaxDegree) :
                 /\ neighbors' = [neighbors EXCEPT ![num_vectors] = ListOf(S)]
                 /\ inbound_count' = [j \in Nodes |-> inbound_count[j] + ListOf(S)[j]]
                 /\ todo' = S
  BY DEF Insert
<1>4. S \subseteq Used
  <2>1. entry_point' \in Used
    BY <1>1, TombstoneFacts
  <2> QED BY <2>1, PrunedWithin, ReachedUsed
<1> QED BY <1>1, <1>2, <1>3, <1>4

LEMMA InsertStep ==
    ASSUME IInv, NEW doc \in Docs, NEW vec \in Vecs, Insert(doc, vec)
    PROVE  IInv'
<1>1. /\ num_vectors \in Nodes /\ num_vectors \notin Used
      /\ Used' = Used \cup {num_vectors}
      /\ Tombstone(doc) /\ built
  BY InsertFacts
<1>2. PICK S \in SUBSET Used :
                 /\ neighbors' = [neighbors EXCEPT ![num_vectors] = ListOf(S)]
                 /\ inbound_count' = [j \in Nodes |-> inbound_count[j] + ListOf(S)[j]]
                 /\ todo' = S
  BY InsertFacts
<1>3. /\ stage' = "links" /\ row' = num_vectors /\ built'
      /\ deleted' \in SUBSET Used /\ entry_point' \in Used
      /\ num_vectors' = num_vectors + 1 /\ num_vectors < MaxNodes
      /\ vectors' = [vectors EXCEPT ![num_vectors] = vec]
      /\ doc_ids' = [doc_ids EXCEPT ![num_vectors] = doc]
  BY <1>1, TombstoneFacts DEF Insert
<1>4. /\ Used \in SUBSET Nodes /\ neighbors \in Graphs /\ inbound_count \in Lists
      /\ num_vectors \in Nat /\ MaxNodes \in Nat
  BY UsedFacts, FreshAssumption DEF IInv
<1>5. /\ ListOf(S) \in Lists /\ Named(ListOf(S)) = S
      /\ \A j \in Nodes : ListOf(S)[j] \in {0, 1}
  BY <1>4, ListOfFacts
<1>6. neighbors' \in Graphs
  BY <1>1, <1>2, <1>4, <1>5 DEF Graphs
<1>7. inbound_count' \in [Nodes -> Nat]
  BY <1>2, <1>4, <1>5 DEF Lists
<1>8. TypeOK'
  <2>1. num_vectors' \in 0 .. MaxNodes /\ row' \in 0 .. MaxNodes
    BY <1>3, <1>4
  <2>2. vectors' \in [Nodes -> Vecs \cup {NoVec}] /\ doc_ids' \in [Nodes -> Docs \cup {NoDoc}]
    BY <1>3 DEF IInv, TypeOK
  <2>3. entry_point' \in Nodes /\ deleted' \in SUBSET Used' /\ todo' \in SUBSET Used'
    BY <1>1, <1>2, <1>3, <1>4
  <2> QED BY <1>3, <1>6, <1>7, <2>1, <2>2, <2>3 DEF TypeOK, Graphs, Lists
<1>9. LoopInv' /\ BridgeInv'
  BY <1>1, <1>2, <1>3 DEF LoopInv, BridgeInv
<1>10. EdgeInv'
  <2>1. \A i \in Nodes : neighbors'[i] = IF i = num_vectors THEN ListOf(S) ELSE neighbors[i]
    BY <1>2, <1>4 DEF Graphs
  <2> QED BY <1>1, <1>4, <1>5, <2>1 DEF IInv, EdgeInv
<1> QED BY <1>8, <1>9, <1>10 DEF IInv

LEMMA CompactToEmptyStep == IInv /\ CompactToEmpty => IInv'
<1> SUFFICES ASSUME IInv, CompactToEmpty PROVE IInv'
  OBVIOUS
<1>1. /\ num_vectors' = 0 /\ deleted' = {} /\ entry_point' = 0 /\ ~built'
      /\ stage = "idle" /\ UNCHANGED <<stage, row, todo>>
      /\ neighbors' = [i \in Nodes |-> None] /\ inbound_count' = None
  BY DEF CompactToEmpty, callVars
<1>2. None \in Lists /\ Named(None) = {}
  BY DEF None, Lists, Named
<1>3. TypeOK' /\ LoopInv'
  <2>1. todo' = {} /\ todo' \in SUBSET Used'
    BY <1>1 DEF IInv, LoopInv
  <2>2. /\ vectors' \in [Nodes -> Vecs \cup {NoVec}] /\ doc_ids' \in [Nodes -> Docs \cup {NoDoc}]
        /\ neighbors' \in [Nodes -> [Nodes -> Nat]] /\ inbound_count' \in [Nodes -> Nat]
    BY <1>1, <1>2 DEF CompactToEmpty, Lists
  <2>3. num_vectors' \in 0 .. MaxNodes /\ entry_point' \in Nodes /\ deleted' \in SUBSET Used'
    BY <1>1, NodeFacts, FreshAssumption
  <2>4. stage' = "idle" /\ built' = FALSE /\ row' \in 0 .. MaxNodes
    BY <1>1 DEF CompactToEmpty, IInv, TypeOK
  <2>5. TypeOK'
    BY <2>1, <2>2, <2>3, <2>4 DEF TypeOK
  <2>6. LoopInv'
    BY <1>1, <2>1 DEF LoopInv
  <2> QED BY <2>5, <2>6
<1>4. EdgeInv' /\ BridgeInv'
  BY <1>1, <1>2 DEF EdgeInv, BridgeInv
<1> QED BY <1>3, <1>4 DEF IInv

\* The numbers that compact gives: every live node has one, the number of live
\* nodes before it.
LEMMA NthLiveFacts ==
    ASSUME IInv
    PROVE  /\ Cardinality(Live) \in 0 .. num_vectors
           /\ \A k \in 0 .. Cardinality(Live) - 1 :
                 /\ NthLive(k) \in Live
                 /\ \A l \in 0 .. Cardinality(Live) - 1 : NthLive(k) = NthLive(l) => k = l
           /\ \A i \in Live : \E k \in 0 .. Cardinality(Live) - 1 : NthLive(k) = i
<1> DEFINE n == Cardinality(Live)
           before(i) == {j \in Live : j < i}
           rank == [i \in Live |-> Cardinality(before(i))]
           New == 0 .. n - 1
<1>1. /\ Live \in SUBSET Used /\ IsFiniteSet(Used) /\ Cardinality(Used) = num_vectors
      /\ Live \subseteq Nat /\ num_vectors \in Nat
  BY UsedFacts DEF IInv
<1>2. IsFiniteSet(Live) /\ n \in Nat /\ n <= num_vectors
  BY <1>1, FS_Subset, FS_CardinalityType
<1>3. ASSUME NEW i \in Live
      PROVE  IsFiniteSet(before(i)) /\ rank[i] \in New /\ Cardinality(before(i)) \in Nat
  <2> DEFINE b == before(i)
  <2>1. b \in SUBSET Live /\ b # Live
    BY <1>1
  <2> HIDE DEF b
  <2>2. IsFiniteSet(b) /\ Cardinality(b) <= n /\ Cardinality(b) # n
    BY <1>2, <2>1, FS_Subset
  <2>3. Cardinality(b) \in Nat
    BY <2>2, FS_CardinalityType
  <2> QED BY <1>2, <2>2, <2>3 DEF b
<1>4. ASSUME NEW i \in Live, NEW j \in Live, i < j PROVE rank[i] < rank[j]
  <2> DEFINE b == before(i)
             c == before(j)
  <2>1. b \in SUBSET c /\ i \in c /\ i \notin b
    <3>1. i \in Nat /\ j \in Nat
      BY <1>1
    <3>2. ASSUME NEW x \in Live, x < i PROVE x < j
      BY <1>1, <1>4, <3>1, <3>2
    <3>3. ~(i < i)
      BY <3>1
    <3> QED BY <1>4, <3>2, <3>3
  <2>2. IsFiniteSet(c) /\ IsFiniteSet(b) /\ Cardinality(b) \in Nat /\ Cardinality(c) \in Nat
    BY <1>3
  <2> HIDE DEF b, c
  <2>3. Cardinality(b) <= Cardinality(c) /\ Cardinality(b) # Cardinality(c)
    BY <2>1, <2>2, FS_Subset
  <2>4. Cardinality(b) < Cardinality(c)
    BY <2>2, <2>3
  <2> QED BY <2>4 DEF b, c
<1>5. \A i, j \in Live : rank[i] = rank[j] => i = j
  <2> SUFFICES ASSUME NEW i \in Live, NEW j \in Live, rank[i] = rank[j], i # j PROVE FALSE
    OBVIOUS
  <2>1. rank[i] \in Nat /\ rank[j] \in Nat /\ i \in Nat /\ j \in Nat
    BY <1>1, <1>3
  <2> HIDE DEF rank
  <2> QED BY <1>4, <2>1
<1>6. rank \in Injection(Live, New)
  <2>1. rank \in [Live -> New]
    BY <1>3
  <2> HIDE DEF rank, New
  <2> QED BY <1>5, <2>1 DEF Injection, IsInjective
<1>7. IsFiniteSet(New) /\ Cardinality(New) = n
  BY <1>2, FS_Interval
<1>8. rank \in Surjection(Live, New)
  <2> HIDE DEF rank, New
  <2> QED BY <1>6, <1>7, FS_Injection
<1>9. ASSUME NEW k \in New PROVE NthLive(k) \in Live /\ rank[NthLive(k)] = k
  <2>1. \E i \in Live : rank[i] = k
    <3> HIDE DEF rank, New
    <3> QED BY <1>8 DEF Surjection
  <2>2. \E i \in Live : Cardinality({j \in Live : j < i}) = k
    BY <2>1
  <2>3. NthLive(k) \in Live /\ Cardinality({j \in Live : j < NthLive(k)}) = k
    BY <2>2 DEF NthLive
  <2> QED BY <2>3
<1>10. \A i \in Live : rank[i] \in New /\ NthLive(rank[i]) = i
  <2> SUFFICES ASSUME NEW i \in Live PROVE rank[i] \in New /\ NthLive(rank[i]) = i
    OBVIOUS
  <2>1. rank[i] \in New
    BY <1>3
  <2>2. NthLive(rank[i]) \in Live /\ rank[NthLive(rank[i])] = rank[i]
    BY <1>9, <2>1
  <2> HIDE DEF rank, New
  <2> QED BY <1>5, <2>1, <2>2
<1>11. n \in 0 .. num_vectors
  BY <1>1, <1>2
<1> HIDE DEF rank
<1> QED BY <1>9, <1>10, <1>11

\* What compact makes of the live nodes.
CompactedFrom(kept, new) ==
    /\ num_vectors' = Cardinality(Live)
    /\ vectors' = [k \in Nodes |-> IF k \in new THEN vectors[kept[k]] ELSE NoVec]
    /\ doc_ids' = [k \in Nodes |-> IF k \in new THEN doc_ids[kept[k]] ELSE NoDoc]
    /\ neighbors' = [k \in Nodes |-> [j \in Nodes |->
         IF k \in new /\ j \in new THEN neighbors[kept[k]][kept[j]] ELSE 0]]
    /\ entry_point' = IF entry_point \in Live THEN CHOOSE k \in new : kept[k] = entry_point ELSE 0

LEMMA CompactFacts ==
    ASSUME IInv, Compact
    PROVE  /\ built /\ UNCHANGED built
           /\ stage' = "bridges" /\ row' = 0 /\ deleted' = {} /\ todo' = {}
           /\ UNCHANGED inbound_count
           /\ Used' \in SUBSET Nodes /\ num_vectors' \in 0 .. MaxNodes
           /\ entry_point' \in Used'
           /\ \E kept \in [Used' -> Live] :
                 /\ \A k, l \in Used' : kept[k] = kept[l] => k = l
                 /\ CompactedFrom(kept, Used')
<1> DEFINE n == Cardinality(Live)
           kept == [k \in 0 .. n - 1 |-> NthLive(k)]
<1>1. /\ built /\ UNCHANGED built /\ stage = "idle" /\ Live # {}
      /\ stage' = "bridges" /\ row' = 0 /\ deleted' = {} /\ UNCHANGED <<inbound_count, todo>>
      /\ CompactedFrom(kept, 0 .. n - 1)
  BY DEF Compact, CompactedFrom
<1>2. /\ n \in Nat /\ n <= num_vectors /\ num_vectors \in Nat /\ num_vectors <= MaxNodes
      /\ MaxNodes \in Nat /\ Live \subseteq Used
  BY NthLiveFacts, UsedFacts, FreshAssumption DEF IInv
<1>3. Used' = 0 .. n - 1 /\ Used' \in SUBSET Nodes /\ num_vectors' \in 0 .. MaxNodes
  BY <1>1, <1>2 DEF CompactedFrom, Used, Nodes
<1>4. /\ \A k \in Used' : NthLive(k) \in Live
      /\ \A k, l \in Used' : NthLive(k) = NthLive(l) => k = l
      /\ \A i \in Live : \E k \in Used' : NthLive(k) = i
  <2> HIDE DEF n
  <2> QED BY <1>3, NthLiveFacts DEF n
<1>5. kept \in [Used' -> Live] /\ \A k \in Used' : kept[k] = NthLive(k)
  BY <1>3, <1>4
<1> HIDE DEF kept, n
<1>6. 0 \in Used'
  <2>1. PICK i \in Live : TRUE
    BY <1>1
  <2>2. PICK k \in Used' : NthLive(k) = i
    BY <1>4
  <2> QED BY <1>2, <1>3, <2>2
<1>7. entry_point' \in Used'
  <2>1. CASE entry_point \in Live
    <3>1. entry_point' = CHOOSE k \in Used' : kept[k] = entry_point
      BY <1>1, <1>3, <2>1 DEF CompactedFrom
    <3>2. \E k \in Used' : kept[k] = entry_point
      BY <1>4, <1>5, <2>1
    <3> QED BY <3>1, <3>2
  <2>2. CASE entry_point \notin Live
    BY <1>1, <1>6, <2>2 DEF CompactedFrom
  <2> QED BY <2>1, <2>2
<1>8. todo' = {}
  BY <1>1 DEF IInv, LoopInv
<1>9. CompactedFrom(kept, Used')
  BY <1>1, <1>3
<1>10. \A k, l \in Used' : kept[k] = kept[l] => k = l
  BY <1>4, <1>5
<1>11. \E f \in [Used' -> Live] :
          /\ \A k, l \in Used' : f[k] = f[l] => k = l
          /\ CompactedFrom(f, Used')
  BY <1>5, <1>9, <1>10
<1> QED BY <1>1, <1>3, <1>7, <1>8, <1>11

LEMMA CompactStep == IInv /\ Compact => IInv'
<1> SUFFICES ASSUME IInv, Compact PROVE IInv'
  OBVIOUS
<1>1. /\ built /\ built' = built
      /\ stage' = "bridges" /\ row' = 0 /\ deleted' = {} /\ todo' = {}
      /\ UNCHANGED inbound_count
      /\ Used' \in SUBSET Nodes /\ num_vectors' \in 0 .. MaxNodes
      /\ entry_point' \in Used'
  BY CompactFacts
<1>2. PICK kept \in [Used' -> Live] :
                 /\ \A k, l \in Used' : kept[k] = kept[l] => k = l
                 /\ CompactedFrom(kept, Used')
  BY CompactFacts
<1>3. Live \subseteq Nodes /\ neighbors \in Graphs
  BY UsedFacts DEF IInv
<1>4. \A k \in Used' : kept[k] \in Nodes
  BY <1>2, <1>3
<1>5. /\ \A k, j \in Nodes : neighbors'[k][j] =
            IF k \in Used' /\ j \in Used' THEN neighbors[kept[k]][kept[j]] ELSE 0
      /\ neighbors' \in Graphs
  <2>1. neighbors' = [k \in Nodes |-> [j \in Nodes |->
         IF k \in Used' /\ j \in Used' THEN neighbors[kept[k]][kept[j]] ELSE 0]]
    BY <1>2 DEF CompactedFrom
  <2>2. \A i, j \in Nodes : neighbors[i][j] \in Nat
    BY <1>3 DEF Graphs, Lists
  <2> QED BY <1>4, <2>1, <2>2 DEF Graphs, Lists
<1>6. TypeOK'
  <2>1. vectors' \in [Nodes -> Vecs \cup {NoVec}]
    BY <1>2, <1>4 DEF IInv, TypeOK, CompactedFrom
  <2>2. doc_ids' \in [Nodes -> Docs \cup {NoDoc}]
    BY <1>2, <1>4 DEF IInv, TypeOK, CompactedFrom
  <2>3. entry_point' \in Nodes /\ row' \in 0 .. MaxNodes
    BY <1>1, FreshAssumption
  <2> QED BY <1>1, <1>5, <2>1, <2>2, <2>3 DEF IInv, TypeOK, Graphs, Lists
<1>7. LoopInv' /\ BridgeInv'
  <2>1. LoopInv'
    BY <1>1 DEF LoopInv
  <2>2. \A i \in Used' : ~(i < row')
    BY <1>1, NodeFacts
  <2>3. BridgeInv' <=> (stage' = "bridges" => \A i \in Used' : i < row' => i \in Reached(entry_point)')
    BY DEF BridgeInv
  <2> QED BY <2>1, <2>2, <2>3
<1>8. EdgeInv'
  <2>1. \A i \in Nodes : neighbors[i][i] = 0
    <3>1. \A i \in Nodes : i \notin Named(neighbors[i]) /\ neighbors[i][i] \in Nat
      BY <1>3 DEF IInv, EdgeInv, Graphs, Lists
    <3> QED BY <3>1 DEF Named
  <2>2. \A k, j \in Nodes : neighbors'[k][j] > 0 => k \in Used' /\ j \in Used' /\ k # j
    BY <1>4, <1>5, <2>1
  <2> QED BY <2>2 DEF EdgeInv, Named
<1> QED BY <1>6, <1>7, <1>8 DEF IInv

-----------------------------------------------------------------------------
(* The invariant holds                                                     *)

LEMMA InputTypes == \A input \in Inputs : input[1] \in Docs /\ input[2] \in Vecs
BY FreshAssumption

LEMMA StepInv == IInv /\ [Next]_vars => IInv'
<1> SUFFICES ASSUME IInv, [Next]_vars PROVE IInv'
  OBVIOUS
<1>1. CASE UNCHANGED vars
  BY <1>1, StutterStep
<1>2. ASSUME NEW input \in Inputs, AddSlice(input[1], input[2]) \/ Insert(input[1], input[2])
      PROVE  IInv'
  BY <1>2, InputTypes, AddSliceStep, InsertStep
<1>3. ASSUME NEW doc \in Docs, Delete(doc) PROVE IInv'
  BY <1>3, DeleteStep
<1>4. ASSUME NEW nid \in Nodes, LinkBack(nid) PROVE IInv'
  BY <1>4, LinkBackStep
<1>5. CASE Build \/ BuildRow \/ EndLinks \/ Bridge \/ EndBridges \/ CompactToEmpty \/ Compact
  BY <1>5, BuildStep, BuildRowStep, EndLinksStep, BridgeStep, EndBridgesStep, CompactToEmptyStep, CompactStep
<1> QED BY <1>1, <1>2, <1>3, <1>4, <1>5 DEF Next

\* The inductive invariant: types, what the loops know, edges among the nodes
\* there are and none to the node itself, and what ensure_connectivity has
\* attached so far.
THEOREM Invariance == Spec => []IInv
BY InitInv, StepInv, PTL DEF Spec

\* The graph stays well typed, whatever the loops of build, insert and
\* ensure_connectivity do to lists, counts and numbers of nodes.
THEOREM TypeCorrect == Spec => []TypeOK
<1>1. IInv => TypeOK
  BY DEF IInv
<1> QED BY <1>1, Invariance, PTL

-----------------------------------------------------------------------------
(* Lists                                                                   *)

\* Lists that name nobody twice are no longer than the loader allows: they
\* name nodes other than their own.
LEMMA InvRefused == IInv => RefusedOnlyForDuplicates
<1> SUFFICES ASSUME IInv, ~Duplicates, NEW i \in Used PROVE Length(neighbors[i]) <= num_vectors - 1
  BY DEF RefusedOnlyForDuplicates, Loadable
<1>1. /\ Used \in SUBSET Nodes /\ IsFiniteSet(Used) /\ Cardinality(Used) = num_vectors
      /\ neighbors \in Graphs /\ num_vectors \in Nat
  BY UsedFacts DEF IInv
<1>2. neighbors[i] \in Lists /\ \A j \in Nodes : neighbors[i][j] <= 1
  <2>1. neighbors[i] \in Lists
    BY <1>1 DEF Graphs
  <2>2. \A j \in Nodes : ~(neighbors[i][j] > 1) /\ neighbors[i][j] \in Nat
    BY <1>1, <2>1 DEF Duplicates, Lists
  <2> QED BY <2>1, <2>2
<1>3. Length(neighbors[i]) = Cardinality(Named(neighbors[i]))
  BY <1>2, LengthOfSet
<1>4. Named(neighbors[i]) \in SUBSET (Used \ {i})
  BY <1>1 DEF IInv, EdgeInv
<1>5. IsFiniteSet(Used \ {i}) /\ Cardinality(Used \ {i}) = num_vectors - 1
  BY <1>1, FS_RemoveElement
<1>6. Cardinality(Named(neighbors[i])) <= Cardinality(Used \ {i})
  BY <1>4, <1>5, FS_Subset
<1> QED BY <1>3, <1>5, <1>6

\* A snapshot that load_from_dir would refuse has a list that names a node
\* twice: no other sequence of calls makes a list too long to be read back.
THEOREM RefusedOnlyForDuplicatesAlways == Spec => []RefusedOnlyForDuplicates
BY InvRefused, Invariance, PTL

\* When build or compact returns, a search can reach every vector: each round
\* of ensure_connectivity attaches one node and detaches none.
THEOREM RebuildReachesAllAlways == Spec => RebuildReachesAll
<1>1. IInv /\ [Next]_vars => [EndBridges => Used \subseteq Reached(entry_point)]_vars
  BY EndBridgesReaches
<1> QED BY <1>1, Invariance, PTL DEF Spec, RebuildReachesAll

\* No action but a round of ensure_connectivity names a node twice.
LEMMA DuplicatesStep == IInv /\ ~Duplicates /\ [Next]_vars /\ Duplicates' => Bridge
<1> SUFFICES ASSUME IInv, ~Duplicates, [Next]_vars, Duplicates', ~Bridge PROVE FALSE
  OBVIOUS
<1>1. /\ neighbors \in Graphs /\ Used \in SUBSET Nodes
  BY UsedFacts DEF IInv
<1>2. \A i, j \in Nodes : neighbors[i][j] \in Nat /\ neighbors[i][j] <= 1
  BY <1>1 DEF Duplicates, Graphs, Lists
<1>3. PICK i \in Nodes, j \in Nodes : neighbors'[i][j] > 1
  BY DEF Duplicates
<1>4. \A S \in SUBSET Nodes, k \in Nodes : ListOf(S)[k] \in {0, 1}
  BY ListOfFacts
<1>5. CASE UNCHANGED neighbors
  BY <1>2, <1>3, <1>5
<1>6. ASSUME NEW S \in SUBSET Nodes, NEW k \in Nodes,
             neighbors' = [neighbors EXCEPT ![k] = ListOf(S)]
      PROVE  FALSE
  <2>1. neighbors'[i] = IF i = k THEN ListOf(S) ELSE neighbors[i]
    BY <1>1, <1>6 DEF Graphs
  <2> QED BY <1>2, <1>3, <1>4, <2>1
<1>7. CASE BuildRow
  BY <1>1, <1>6, <1>7, BuildRowFacts
<1>8. ASSUME NEW doc \in Docs, NEW vec \in Vecs, Insert(doc, vec) PROVE FALSE
  BY <1>1, <1>6, <1>8, InsertFacts
<1>9. CASE Build
  <2>1. neighbors'[i] = IF i \in Used THEN ListOf(NearestOthers(i)) ELSE None
    BY <1>9 DEF Build
  <2>2. NearestOthers(i) \in SUBSET Nodes
    BY <1>1 DEF NearestOthers
  <2> QED BY <1>3, <1>4, <2>1, <2>2 DEF None
<1>10. ASSUME NEW nid \in Nodes, LinkBack(nid) PROVE FALSE
  <2>1. nid \in Used /\ row \in Used /\ nid # row
    BY <1>10, LinkFacts
  <2>2. CASE neighbors' = [neighbors EXCEPT ![nid][row] = 1]
    <3>1. neighbors'[i][j] = IF i = nid /\ j = row THEN 1 ELSE neighbors[i][j]
      BY <1>1, <2>1, <2>2 DEF Graphs, Lists
    <3> QED BY <1>2, <1>3, <3>1
  <2>3. ASSUME NEW kept \in Kept(nid, Named(neighbors[nid]) \cup {row}), Relist(nid, kept)
        PROVE  FALSE
    <3>1. kept \in SUBSET Nodes
      BY <1>1, <2>1, KeptWithin DEF Named
    <3>2. neighbors' = [neighbors EXCEPT ![nid] = ListOf(kept)]
      BY <2>3 DEF Relist
    <3> QED BY <1>6, <3>1, <3>2
  <2>4. \/ UNCHANGED neighbors
        \/ neighbors' = [neighbors EXCEPT ![nid][row] = 1]
        \/ \E kept \in Kept(nid, Named(neighbors[nid]) \cup {row}) : Relist(nid, kept)
    BY <1>10 DEF LinkBack, AddReverseEdge, graphVars
  <2> QED BY <1>5, <2>2, <2>3, <2>4
<1>11. CASE CompactToEmpty
  BY <1>3, <1>11 DEF CompactToEmpty, None
<1>12. CASE Compact
  <2>1. PICK kept \in [Used' -> Live] : CompactedFrom(kept, Used')
    BY <1>12, CompactFacts
  <2>2. neighbors'[i][j] = IF i \in Used' /\ j \in Used' THEN neighbors[kept[i]][kept[j]] ELSE 0
    BY <2>1 DEF CompactedFrom
  <2>3. Live \subseteq Nodes
    BY UsedFacts DEF IInv
  <2> QED BY <1>2, <1>3, <2>1, <2>2, <2>3
<1>13. CASE EndLinks \/ EndBridges \/ UNCHANGED vars \/ \E doc \in Docs : Delete(doc)
  BY <1>5, <1>13 DEF EndLinks, EndBridges, Delete, vars, graphVars
<1>14. ASSUME NEW input \in Inputs, AddSlice(input[1], input[2]) \/ Insert(input[1], input[2])
       PROVE  FALSE
  BY <1>5, <1>8, <1>14, InputTypes DEF AddSlice, graphVars
<1> QED BY <1>7, <1>9, <1>10, <1>11, <1>12, <1>13, <1>14 DEF Next

\* Only ensure_connectivity, which pushes an edge without a look at the list,
\* makes a list name a node twice.
THEOREM DuplicatesOnlyByBridgesAlways == Spec => DuplicatesOnlyByBridges
<1>1. IInv /\ [Next]_vars => [~Duplicates /\ Duplicates' => Bridge]_vars
  BY DuplicatesStep
<1> QED BY <1>1, Invariance, PTL DEF Spec, DuplicatesOnlyByBridges

-----------------------------------------------------------------------------
(* Counts                                                                  *)

\* The count of a node is no less than its in-edges, or is their number.
Covered(j) == InDegree(j) <= inbound_count[j]
Exact(j) == InDegree(j) = inbound_count[j]

\* A new list in place of another changes the in-degrees by the two lists.
LEMMA RowCounts ==
    ASSUME IInv, NEW i \in Nodes, NEW list \in Lists,
           neighbors' = [neighbors EXCEPT ![i] = list], NEW j \in Nodes
    PROVE  /\ InDegree(j) \in Nat /\ InDegree(j)' \in Nat /\ inbound_count[j] \in Nat
           /\ neighbors[i][j] \in Nat /\ list[j] \in Nat
           /\ neighbors[i][j] <= InDegree(j) /\ list[j] <= InDegree(j)'
           /\ InDegree(j)' = InDegree(j) - neighbors[i][j] + list[j]
<1>1. neighbors \in Graphs /\ inbound_count \in Lists
  BY UsedFacts DEF IInv
<1>2. /\ neighbors' \in Graphs /\ neighbors'[i] = list
      /\ \A k \in Nodes \ {i} : neighbors[k] = neighbors'[k]
  BY <1>1 DEF Graphs
<1>3. /\ Into(neighbors, j) \in Nat /\ Into(neighbors', j) \in Nat
      /\ neighbors[i][j] \in Nat /\ list[j] \in Nat
      /\ neighbors[i][j] <= Into(neighbors, j) /\ list[j] <= Into(neighbors', j)
      /\ Into(neighbors', j) = Into(neighbors, j) - neighbors[i][j] + list[j]
  <2> DEFINE h == neighbors'
  <2>1. h \in Graphs /\ h[i] = list /\ \A k \in Nodes \ {i} : neighbors[k] = h[k]
    BY <1>2
  <2> HIDE DEF h
  <2>2. /\ Into(neighbors, j) \in Nat /\ Into(h, j) \in Nat
        /\ neighbors[i][j] \in Nat /\ h[i][j] \in Nat
        /\ neighbors[i][j] <= Into(neighbors, j) /\ h[i][j] <= Into(h, j)
        /\ Into(h, j) = Into(neighbors, j) - neighbors[i][j] + h[i][j]
    BY <1>1, <2>1, IntoStep
  <2> QED BY <2>1, <2>2 DEF h
<1> QED BY <1>1, <1>3, InDegreeInto DEF Lists

LEMMA BuildRowCounts ==
    ASSUME IInv, BuildRow, NEW j \in Nodes
    PROVE  (Covered(j) => Covered(j)') /\ (Exact(j) => Exact(j)')
<1>1. PICK S \in SUBSET (Used \ {row}) :
              /\ row \in Used /\ ~built
              /\ neighbors' = [neighbors EXCEPT ![row] = ListOf(S)]
              /\ inbound_count' = [k \in Nodes |->
                                     LET rest == inbound_count[k] - neighbors[row][k]
                                     IN  (IF rest < 0 THEN 0 ELSE rest) + ListOf(S)[k]]
              /\ todo' = S
  BY BuildRowFacts
<1>2. row \in Nodes /\ S \in SUBSET Nodes
  BY <1>1, UsedFacts DEF IInv
<1>3. ListOf(S) \in Lists
  BY <1>2, ListOfFacts
<1>4. /\ InDegree(j) \in Nat /\ InDegree(j)' \in Nat /\ inbound_count[j] \in Nat
      /\ neighbors[row][j] \in Nat /\ ListOf(S)[j] \in Nat
      /\ neighbors[row][j] <= InDegree(j)
      /\ InDegree(j)' = InDegree(j) - neighbors[row][j] + ListOf(S)[j]
  BY <1>1, <1>2, <1>3, RowCounts
<1>5. inbound_count'[j] = (IF inbound_count[j] - neighbors[row][j] < 0 THEN 0
                           ELSE inbound_count[j] - neighbors[row][j]) + ListOf(S)[j]
  BY <1>1
<1> QED BY <1>4, <1>5 DEF Covered, Exact

LEMMA InsertCounts ==
    ASSUME IInv, NEW doc \in Docs, NEW vec \in Vecs, Insert(doc, vec), NEW j \in Nodes
    PROVE  (Covered(j) => Covered(j)') /\ (Exact(j) => Exact(j)')
<1>1. num_vectors \in Nodes /\ num_vectors \notin Used
  BY InsertFacts
<1>2. PICK S \in SUBSET Used :
                 /\ neighbors' = [neighbors EXCEPT ![num_vectors] = ListOf(S)]
                 /\ inbound_count' = [k \in Nodes |-> inbound_count[k] + ListOf(S)[k]]
                 /\ todo' = S
  BY InsertFacts
<1>3. ListOf(S) \in Lists
  BY <1>2, UsedFacts, ListOfFacts DEF IInv
<1>4. /\ InDegree(j) \in Nat /\ InDegree(j)' \in Nat /\ inbound_count[j] \in Nat
      /\ neighbors[num_vectors][j] \in Nat /\ ListOf(S)[j] \in Nat
      /\ InDegree(j)' = InDegree(j) - neighbors[num_vectors][j] + ListOf(S)[j]
  BY <1>1, <1>2, <1>3, RowCounts
<1>5. neighbors[num_vectors][j] = 0
  <2>1. ~(neighbors[num_vectors][j] > 0)
    BY <1>1 DEF IInv, EdgeInv, Named
  <2> QED BY <1>4, <2>1
<1>6. inbound_count'[j] = inbound_count[j] + ListOf(S)[j]
  BY <1>2
<1> QED BY <1>4, <1>5, <1>6 DEF Covered, Exact

\* What a reverse edge does to lists and counts, case by case.
LEMMA LinkCases ==
    ASSUME IInv, NEW nid \in Nodes, LinkBack(nid)
    PROVE  /\ nid \in Used /\ row \in Used /\ nid # row /\ row \in Nodes
           /\ \/ UNCHANGED graphVars /\ neighbors[nid][row] > 0
              \/ /\ neighbors[nid][row] = 0
                 /\ [neighbors[nid] EXCEPT ![row] = 1] \in Lists
                 /\ neighbors' = [neighbors EXCEPT ![nid] = [neighbors[nid] EXCEPT ![row] = 1]]
                 /\ inbound_count' = [inbound_count EXCEPT ![row] = @ + 1]
              \/ /\ neighbors[nid][row] = 0
                 /\ \E kept \in Kept(nid, Named(neighbors[nid]) \cup {row}) :
                       /\ kept \in SUBSET Nodes /\ ListOf(kept) \in Lists
                       /\ kept \subseteq Named(neighbors[nid]) \cup {row}
                       /\ neighbors' = [neighbors EXCEPT ![nid] = ListOf(kept)]
                       /\ Relist(nid, kept)
<1>1. nid \in Used /\ row \in Used /\ nid # row
  BY LinkFacts
<1>2. neighbors \in Graphs /\ Used \in SUBSET Nodes /\ row \in Nodes /\ neighbors[nid] \in Lists
  BY <1>1, UsedFacts DEF IInv, Graphs
<1>3. CASE neighbors[nid][row] > 0 /\ UNCHANGED graphVars
  BY <1>1, <1>2, <1>3
<1>4. CASE /\ neighbors[nid][row] = 0
           /\ neighbors' = [neighbors EXCEPT ![nid][row] = 1]
           /\ inbound_count' = [inbound_count EXCEPT ![row] = @ + 1]
  <2>1. [neighbors[nid] EXCEPT ![row] = 1] \in Lists
    BY <1>2 DEF Lists
  <2>2. neighbors' = [neighbors EXCEPT ![nid] = [neighbors[nid] EXCEPT ![row] = 1]]
    BY <1>2, <1>4 DEF Graphs
  <2> QED BY <1>1, <1>2, <1>4, <2>1, <2>2
<1>5. ASSUME neighbors[nid][row] = 0,
             NEW kept \in Kept(nid, Named(neighbors[nid]) \cup {row}), Relist(nid, kept)
      PROVE  /\ kept \in SUBSET Nodes /\ ListOf(kept) \in Lists
             /\ kept \subseteq Named(neighbors[nid]) \cup {row}
             /\ neighbors' = [neighbors EXCEPT ![nid] = ListOf(kept)]
  <2>1. kept \subseteq Named(neighbors[nid]) \cup {row}
    BY KeptWithin
  <2>2. kept \in SUBSET Nodes
    BY <1>2, <2>1 DEF Named
  <2> QED BY <1>5, <2>1, <2>2, ListOfFacts DEF Relist
<1>6. \/ neighbors[nid][row] > 0 /\ UNCHANGED graphVars
      \/ /\ neighbors[nid][row] = 0
         /\ neighbors' = [neighbors EXCEPT ![nid][row] = 1]
         /\ inbound_count' = [inbound_count EXCEPT ![row] = @ + 1]
      \/ /\ neighbors[nid][row] = 0
         /\ \E kept \in Kept(nid, Named(neighbors[nid]) \cup {row}) : Relist(nid, kept)
  BY DEF LinkBack, AddReverseEdge
<1> QED BY <1>1, <1>2, <1>3, <1>4, <1>5, <1>6

\* What relisting does to the in-degree and to the count of one node.
LEMMA RelistCounts ==
    ASSUME IInv, NEW nid \in Nodes, NEW kept \in SUBSET Nodes, Relist(nid, kept),
           NEW j \in Nodes
    PROVE  /\ InDegree(j) \in Nat /\ neighbors[nid][j] \in Nat /\ inbound_count[j] \in Nat
           /\ neighbors[nid][j] <= InDegree(j)
           /\ InDegree(j)' = InDegree(j) - neighbors[nid][j] + (IF j \in kept THEN 1 ELSE 0)
           /\ inbound_count'[j] = IF neighbors[nid][j] > 0 /\ j \notin kept /\ inbound_count[j] > 0
                                  THEN inbound_count[j] - 1
                                  ELSE IF j \in kept /\ ~(neighbors[nid][j] > 0)
                                       THEN inbound_count[j] + 1
                                       ELSE inbound_count[j]
<1>1. /\ ListOf(kept) \in Lists /\ ListOf(kept)[j] = IF j \in kept THEN 1 ELSE 0
  BY ListOfFacts
<1>2. neighbors' = [neighbors EXCEPT ![nid] = ListOf(kept)]
  BY DEF Relist
<1>3. inbound_count'[j] = IF neighbors[nid][j] > 0 /\ j \notin kept /\ inbound_count[j] > 0
                                  THEN inbound_count[j] - 1
                                  ELSE IF j \in kept /\ ~(neighbors[nid][j] > 0)
                                       THEN inbound_count[j] + 1
                                       ELSE inbound_count[j]
  BY DEF Relist, Named
<1> QED BY <1>1, <1>2, <1>3, RowCounts

LEMMA LinkCounts ==
    ASSUME IInv, NEW nid \in Nodes, LinkBack(nid), NEW j \in Nodes
    PROVE  /\ Covered(j) => Covered(j)'
           /\ Exact(j) /\ neighbors[nid][j] <= 1 => Exact(j)'
<1>1. nid \in Used /\ row \in Used /\ nid # row /\ row \in Nodes
  BY LinkCases
<1>2. CASE UNCHANGED graphVars
  BY <1>2, InDegreeInto DEF graphVars, Covered, Exact
<1>3. CASE /\ neighbors[nid][row] = 0
           /\ [neighbors[nid] EXCEPT ![row] = 1] \in Lists
           /\ neighbors' = [neighbors EXCEPT ![nid] = [neighbors[nid] EXCEPT ![row] = 1]]
           /\ inbound_count' = [inbound_count EXCEPT ![row] = @ + 1]
  <2> DEFINE list == [neighbors[nid] EXCEPT ![row] = 1]
  <2>1. /\ neighbors[nid] \in Lists /\ inbound_count \in Lists
    BY UsedFacts DEF IInv, Graphs
  <2>2. /\ list[j] = IF j = row THEN 1 ELSE neighbors[nid][j]
        /\ inbound_count'[j] = IF j = row THEN inbound_count[j] + 1 ELSE inbound_count[j]
    BY <1>1, <1>3, <2>1 DEF Lists
  <2>3. list \in Lists /\ neighbors' = [neighbors EXCEPT ![nid] = list]
    BY <1>3
  <2> HIDE DEF list
  <2>4. /\ InDegree(j) \in Nat /\ InDegree(j)' \in Nat /\ inbound_count[j] \in Nat
        /\ neighbors[nid][j] \in Nat
        /\ InDegree(j)' = InDegree(j) - neighbors[nid][j] + list[j]
    BY <2>3, RowCounts
  <2> QED BY <1>3, <2>2, <2>4 DEF Covered, Exact
<1>4. ASSUME NEW kept \in SUBSET Nodes, Relist(nid, kept)
      PROVE  /\ Covered(j) => Covered(j)'
             /\ Exact(j) /\ neighbors[nid][j] <= 1 => Exact(j)'
  <2>1. /\ InDegree(j) \in Nat /\ neighbors[nid][j] \in Nat /\ inbound_count[j] \in Nat
        /\ neighbors[nid][j] <= InDegree(j)
        /\ InDegree(j)' = InDegree(j) - neighbors[nid][j] + (IF j \in kept THEN 1 ELSE 0)
        /\ inbound_count'[j] = IF neighbors[nid][j] > 0 /\ j \notin kept /\ inbound_count[j] > 0
                               THEN inbound_count[j] - 1
                               ELSE IF j \in kept /\ ~(neighbors[nid][j] > 0)
                                    THEN inbound_count[j] + 1
                                    ELSE inbound_count[j]
    BY <1>4, RelistCounts
  <2> QED BY <2>1 DEF Covered, Exact
<1>5. \/ UNCHANGED graphVars
      \/ /\ neighbors[nid][row] = 0
         /\ [neighbors[nid] EXCEPT ![row] = 1] \in Lists
         /\ neighbors' = [neighbors EXCEPT ![nid] = [neighbors[nid] EXCEPT ![row] = 1]]
         /\ inbound_count' = [inbound_count EXCEPT ![row] = @ + 1]
      \/ \E kept \in SUBSET Nodes : Relist(nid, kept)
  BY LinkCases
<1> QED BY <1>2, <1>3, <1>4, <1>5

\* In-degrees of a graph without edges.
LEMMA NoInDegree == neighbors = [i \in Nodes |-> None] => \A j \in Nodes : InDegree(j) = 0
<1> SUFFICES ASSUME neighbors = [i \in Nodes |-> None], NEW j \in Nodes PROVE InDegree(j) = 0
  OBVIOUS
<1>1. [i \in Nodes |-> neighbors[i][j]] = None
  BY DEF None
<1> QED BY <1>1, LengthNone DEF InDegree

\* Outside of ensure_connectivity, no action loses count of what it adds, and
\* none counts wrong when it takes out what no list names twice.
LEMMA CountStep ==
    ASSUME IInv, [Next]_vars, stage # "bridges", stage' # "bridges", NEW j \in Nodes
    PROVE  /\ Covered(j) => Covered(j)'
           /\ Exact(j) /\ ~Duplicates => Exact(j)'
<1>1. CASE UNCHANGED graphVars
  BY <1>1, InDegreeInto DEF graphVars, Covered, Exact
<1>2. ASSUME InDegree(j)' = inbound_count'[j]
      PROVE  Covered(j)' /\ Exact(j)'
  <2>1. InDegree(j)' \in Nat
    <3>1. neighbors' \in Graphs
      <4>1. IInv'
        BY StepInv
      <4> QED BY <4>1 DEF IInv, TypeOK, Graphs, Lists
    <3> QED BY <3>1, IntoType, InDegreeInto
  <2> QED BY <1>2, <2>1 DEF Covered, Exact
<1>3. CASE Build
  <2>1. inbound_count'[j] = InDegree(j)'
    BY <1>3 DEF Build, InDegrees
  <2> QED BY <1>2, <2>1
<1>4. CASE BuildRow
  BY <1>4, BuildRowCounts
<1>5. ASSUME NEW nid \in Nodes, LinkBack(nid)
      PROVE  /\ Covered(j) => Covered(j)'
             /\ Exact(j) /\ ~Duplicates => Exact(j)'
  <2>1. ~Duplicates => neighbors[nid][j] <= 1
    <3>1. neighbors[nid][j] \in Nat
      BY UsedFacts DEF IInv, Graphs, Lists
    <3> QED BY <3>1 DEF Duplicates
  <2> QED BY <1>5, <2>1, LinkCounts
<1>6. ASSUME NEW input \in Inputs, AddSlice(input[1], input[2]) \/ Insert(input[1], input[2])
      PROVE  /\ Covered(j) => Covered(j)'
             /\ Exact(j) /\ ~Duplicates => Exact(j)'
  <2>1. CASE AddSlice(input[1], input[2])
    BY <1>1, <2>1 DEF AddSlice
  <2>2. CASE Insert(input[1], input[2])
    BY <2>2, InputTypes, InsertCounts
  <2> QED BY <1>6, <2>1, <2>2
<1>7. CASE EndLinks \/ \E doc \in Docs : Delete(doc)
  BY <1>1, <1>7 DEF EndLinks, Delete
<1>8. CASE UNCHANGED vars
  BY <1>1, <1>8 DEF vars
<1>9. CASE CompactToEmpty
  <2>1. neighbors' = [i \in Nodes |-> None] /\ inbound_count'[j] = 0
    BY <1>9 DEF CompactToEmpty, None
  <2>2. [i \in Nodes |-> neighbors'[i][j]] = None
    BY <2>1 DEF None
  <2>3. InDegree(j)' = 0
    BY <2>2, LengthNone DEF InDegree
  <2> QED BY <1>2, <2>1, <2>3
<1>10. ~Bridge /\ ~EndBridges /\ ~Compact
  BY DEF Bridge, EndBridges, Compact
<1> QED BY <1>3, <1>4, <1>5, <1>6, <1>7, <1>8, <1>9, <1>10 DEF Next

\* At the end of ensure_connectivity everything is counted.
LEMMA EndBridgesCounts ==
    ASSUME EndBridges
    PROVE  inbound_count' = InDegrees'
<1>1. inbound_count' = InDegrees /\ neighbors' = neighbors
  BY DEF EndBridges
<1> QED BY <1>1 DEF InDegrees, InDegree

\* Counts become wrong only in a step that starts with a list that names a
\* node twice: the five places that adjust them agree.
THEOREM InexactOnlyByDuplicatesAlways == Spec => InexactOnlyByDuplicates
<1>1. IInv /\ [Next]_vars => [CountsExact /\ ~CountsExact' => Duplicates]_vars
  <2> SUFFICES ASSUME IInv, [Next]_vars, CountsExact, ~Duplicates PROVE CountsExact'
    OBVIOUS
  <2>1. CASE stage' = "bridges"
    BY <2>1 DEF CountsExact
  <2>2. CASE stage = "bridges" /\ stage' # "bridges"
    <3>1. EndBridges
      BY <2>2 DEF Next, vars, callVars, AddSlice, Insert, Delete, Build, BuildRow, LinkBack,
                  EndLinks, Bridge, CompactToEmpty, Compact
    <3> QED BY <3>1, EndBridgesCounts DEF CountsExact
  <2>3. CASE stage # "bridges" /\ stage' # "bridges"
    <3>1. \A j \in Nodes : Exact(j)
      BY <2>3 DEF CountsExact, InDegrees, Exact
    <3>2. \A j \in Nodes : Exact(j)'
      BY <2>3, <3>1, CountStep
    <3>3. inbound_count' \in [Nodes -> Nat]
      BY StepInv DEF IInv, TypeOK
    <3>4. inbound_count' = InDegrees'
      BY <3>2, <3>3 DEF Exact, InDegrees
    <3> QED BY <3>4 DEF CountsExact
  <2> QED BY <2>1, <2>2, <2>3
<1> QED BY <1>1, Invariance, PTL DEF Spec, InexactOnlyByDuplicates

\* No count is ever lower than the number of in-edges, repeated edges or not.
THEOREM CountsCoverEdgesAlways == Spec => []CountsCoverEdges
<1>1. Init => CountsCoverEdges
  <2> SUFFICES ASSUME Init, NEW j \in Nodes PROVE InDegree(j) <= inbound_count[j]
    BY DEF CountsCoverEdges
  <2>1. neighbors = [i \in Nodes |-> None] /\ inbound_count[j] = 0
    BY DEF Init, None
  <2> QED BY <2>1, NoInDegree
<1>2. IInv /\ CountsCoverEdges /\ [Next]_vars => CountsCoverEdges'
  <2> SUFFICES ASSUME IInv, CountsCoverEdges, [Next]_vars, stage' # "bridges", NEW j \in Nodes
               PROVE  Covered(j)'
    BY DEF CountsCoverEdges, Covered
  <2>1. CASE stage = "bridges"
    <3>1. EndBridges
      BY <2>1 DEF Next, vars, callVars, AddSlice, Insert, Delete, Build, BuildRow, LinkBack,
                  EndLinks, Bridge, CompactToEmpty, Compact
    <3>2. inbound_count'[j] = InDegree(j)'
      BY <3>1, EndBridgesCounts DEF InDegrees
    <3>3. neighbors' \in Graphs
      BY StepInv DEF IInv, TypeOK, Graphs, Lists
    <3>4. InDegree(j)' \in Nat
      BY <3>3, IntoType, InDegreeInto
    <3> QED BY <3>2, <3>4 DEF Covered
  <2>2. CASE stage # "bridges"
    BY <2>2, CountStep DEF CountsCoverEdges, Covered
  <2> QED BY <2>1, <2>2
<1> QED BY <1>1, <1>2, Invariance, PTL DEF Spec

\* What a full list keeps when there is room for all that are protected.
LEMMA KeptProtected ==
    ASSUME NEW nid, NEW C \in SUBSET Nodes, Cardinality(Protected(C)) <= MaxDegree,
           NEW kept \in Kept(nid, C)
    PROVE  Protected(C) \subseteq kept
<1>1. Protected(C) \subseteq Nodes
  BY DEF Protected
<1>2. Cardinality(Protected(C)) \in Nat
  BY <1>1, NodeFacts, FS_Subset, FS_CardinalityType
<1>3. ~(MaxDegree - Cardinality(Protected(C)) < 0)
  BY <1>2, FreshAssumption
<1> QED BY <1>3 DEF Kept

\* A reverse edge takes no node's last in-edge: one that a full list drops is
\* counted twice at least, its own edge and one of another list.
LEMMA LinkKeepsInEdges ==
    ASSUME IInv, NEW nid \in Nodes, LinkBack(nid), CountsExact, ~Duplicates,
           Cardinality(Protected(Named(neighbors[nid]) \cup {row})) <= MaxDegree,
           NEW j \in Nodes, InDegree(j) > 0 \/ j = row
    PROVE  InDegree(j)' > 0
<1>1. row \in Nodes
  BY LinkCases
<1>2. inbound_count[j] = InDegree(j)
  BY DEF LinkBack, CountsExact, InDegrees
<1>3. neighbors[nid][j] <= 1
  BY UsedFacts DEF IInv, Duplicates, Graphs, Lists
<1>4. CASE UNCHANGED graphVars /\ neighbors[nid][row] > 0
  <2>1. InDegree(row) > 0
    BY <1>1, <1>4, UsedFacts, IntoPositive, InDegreeInto DEF IInv
  <2>2. InDegree(j)' = InDegree(j)
    BY <1>4, InDegreeInto DEF graphVars
  <2> QED BY <2>1, <2>2
<1>5. CASE /\ neighbors[nid][row] = 0
           /\ [neighbors[nid] EXCEPT ![row] = 1] \in Lists
           /\ neighbors' = [neighbors EXCEPT ![nid] = [neighbors[nid] EXCEPT ![row] = 1]]
  <2> DEFINE list == [neighbors[nid] EXCEPT ![row] = 1]
  <2>1. neighbors[nid] \in Lists
    BY UsedFacts DEF IInv, Graphs
  <2>2. list[j] = IF j = row THEN 1 ELSE neighbors[nid][j]
    BY <1>1, <2>1 DEF Lists
  <2>3. list \in Lists /\ neighbors' = [neighbors EXCEPT ![nid] = list]
    BY <1>5
  <2> HIDE DEF list
  <2>4. /\ InDegree(j) \in Nat /\ neighbors[nid][j] \in Nat /\ neighbors[nid][j] <= InDegree(j)
        /\ InDegree(j)' = InDegree(j) - neighbors[nid][j] + list[j]
    BY <2>3, RowCounts
  <2> QED BY <1>5, <2>2, <2>4
<1>6. ASSUME neighbors[nid][row] = 0,
             NEW kept \in Kept(nid, Named(neighbors[nid]) \cup {row}),
             kept \in SUBSET Nodes, Relist(nid, kept)
      PROVE  InDegree(j)' > 0
  <2> DEFINE candidates == Named(neighbors[nid]) \cup {row}
  <2>1. candidates \in SUBSET Nodes
    BY <1>1 DEF Named
  <2>2. Protected(candidates) \subseteq kept
    BY <1>6, <2>1, KeptProtected
  <2>3. /\ InDegree(j) \in Nat /\ neighbors[nid][j] \in Nat /\ inbound_count[j] \in Nat
        /\ neighbors[nid][j] <= InDegree(j)
        /\ InDegree(j)' = InDegree(j) - neighbors[nid][j] + (IF j \in kept THEN 1 ELSE 0)
    BY <1>6, RelistCounts
  <2>4. j \in candidates <=> neighbors[nid][j] > 0 \/ j = row
    BY DEF Named
  <2> HIDE DEF candidates
  <2>5. CASE j \in kept
    BY <2>3, <2>5
  <2>6. CASE j \in candidates /\ j \notin kept
    <3>1. j \notin Protected(candidates)
      BY <2>2, <2>6
    <3>2. InDegree(j) > 1
      BY <1>2, <2>3, <2>6, <3>1 DEF Protected
    <3> QED BY <1>3, <2>3, <2>6, <3>2
  <2>7. CASE j \notin candidates /\ j \notin kept
    BY <2>3, <2>4, <2>7
  <2> QED BY <2>5, <2>6, <2>7
<1> QED BY <1>4, <1>5, <1>6, LinkCases

\* Protecting the candidates whose last in-edge a full list may hold is enough:
\* as long as the counts are exact, every linked node keeps one.
THEOREM LastInEdgeKeptAlways == Spec => LastInEdgeKept
<1>1. IInv /\ [Next]_vars =>
        [\A nid \in Nodes :
           /\ LinkBack(nid) /\ CountsExact /\ ~Duplicates
           /\ Cardinality(Protected(Named(neighbors[nid]) \cup {row})) <= MaxDegree
           => \A j \in Nodes : InDegree(j) > 0 \/ j = row => InDegree(j)' > 0]_vars
  BY LinkKeepsInEdges
<1> QED BY <1>1, Invariance, PTL DEF Spec, LastInEdgeKept

-----------------------------------------------------------------------------
(* The entry point and the ids                                             *)

\* A step on a built index that ends with the entry point on a tombstone,
\* though it was live, or nothing was, leaves one live node: the newest.
LEMMA EntryStep ==
    ASSUME IInv, [Next]_vars, EntryLive, ~EntryLive'
    PROVE  Live' = {num_vectors}
<1>1. built' /\ entry_point' \notin Live' /\ Live' # {}
  BY DEF EntryLive
<1>2. /\ Used \in SUBSET Nodes /\ Used \subseteq Nat /\ Live \subseteq Used
      /\ deleted \in SUBSET Used
  BY UsedFacts DEF IInv, TypeOK
<1>3. CASE UNCHANGED <<num_vectors, deleted, entry_point, built>>
  BY <1>1, <1>3 DEF EntryLive, Live, Used
<1>4. CASE EndBridges /\ ~built
  <2>1. deleted = {} /\ entry_point \in Used
    BY <1>4 DEF IInv, LoopInv, EndBridges
  <2>2. UNCHANGED <<num_vectors, deleted, entry_point>>
    BY <1>4 DEF EndBridges, dataVars
  <2> QED BY <1>1, <2>1, <2>2 DEF Live, Used
<1>5. CASE EndBridges /\ built
  BY <1>3, <1>5 DEF EndBridges, dataVars
<1>6. ASSUME NEW doc \in Docs, Delete(doc) PROVE FALSE
  <2>1. built /\ Tombstone(doc) /\ Used' = Used /\ LiveOf(doc) # {}
    BY <1>6 DEF Delete, dataVars, Used
  <2>2. PICK i \in LiveOf(doc) :
          /\ deleted' = deleted \cup {i}
          /\ entry_point = i \/ entry_point' = entry_point
          /\ entry_point = i => entry_point' \in Live \ {i} \/ Live = {i}
    BY <2>1, TombstoneFacts
  <2>3. Live' = Live \ {i} /\ i \in Live
    BY <2>1, <2>2 DEF Live, LiveOf
  <2>4. entry_point \in Live
    BY <2>1, <2>3 DEF EntryLive
  <2> QED BY <1>1, <2>2, <2>3, <2>4
<1>7. ASSUME NEW doc \in Docs, NEW vec \in Vecs, Insert(doc, vec)
      PROVE  Live' = {num_vectors}
  <2>1. /\ num_vectors \notin Used /\ Used' = Used \cup {num_vectors}
        /\ Tombstone(doc) /\ built
    BY <1>7, InsertFacts
  <2>2. CASE UNCHANGED <<deleted, entry_point>>
    BY <1>1, <1>2, <2>1, <2>2 DEF EntryLive, Live
  <2>3. ASSUME NEW i \in LiveOf(doc), deleted' = deleted \cup {i},
               entry_point = i \/ entry_point' = entry_point,
               entry_point = i => entry_point' \in Live \ {i} \/ Live = {i}
        PROVE  Live' = {num_vectors}
    <3>1. i \in Live /\ entry_point \in Live
      BY <2>1, <2>3 DEF EntryLive, LiveOf
    <3>2. Live' = (Live \ {i}) \cup {num_vectors}
      BY <1>2, <2>1, <2>3, <3>1 DEF Live
    <3> QED BY <1>1, <2>3, <3>1, <3>2
  <2> QED BY <2>1, <2>2, <2>3, TombstoneFacts
<1>8. CASE Compact
  BY <1>1, <1>8, CompactFacts DEF Live
<1>9. ASSUME NEW input \in Inputs, AddSlice(input[1], input[2]) PROVE FALSE
  BY <1>1, <1>9 DEF AddSlice
<1>10. CASE Build
  BY <1>1, <1>10 DEF Build
<1>11. CASE CompactToEmpty
  BY <1>1, <1>11 DEF CompactToEmpty
<1>12. CASE BuildRow \/ EndLinks \/ Bridge \/ \E nid \in Nodes : LinkBack(nid)
  BY <1>3, <1>12 DEF BuildRow, EndLinks, Bridge, LinkBack, dataVars
<1>13. CASE UNCHANGED vars
  BY <1>3, <1>13 DEF vars, dataVars
<1> QED BY <1>4, <1>5, <1>6, <1>7, <1>8, <1>9, <1>10, <1>11, <1>12, <1>13, InputTypes DEF Next

\* Searches and inserts start from a live node, until the last one goes and a
\* new one comes.
THEOREM EntryLostOnlyByEmptyingAlways == Spec => EntryLostOnlyByEmptying
<1>1. IInv /\ [Next]_vars => [EntryLive /\ ~EntryLive' => Live' = {num_vectors}]_vars
  BY EntryStep
<1> QED BY <1>1, Invariance, PTL DEF Spec, EntryLostOnlyByEmptying

\* Live nodes of an id are finitely many; fewer nodes are no more.
LEMMA LiveOfFinite ==
    ASSUME IInv, NEW doc
    PROVE  /\ LiveOf(doc) \subseteq Used /\ IsFiniteSet(LiveOf(doc))
           /\ Cardinality(LiveOf(doc)) \in Nat
           /\ \A S \in SUBSET LiveOf(doc) : Cardinality(S) <= Cardinality(LiveOf(doc))
<1>1. LiveOf(doc) \subseteq Used /\ IsFiniteSet(Used)
  BY UsedFacts DEF IInv, LiveOf, Live
<1>2. IsFiniteSet(LiveOf(doc))
  BY <1>1, FS_Subset
<1> QED BY <1>1, <1>2, FS_Subset, FS_CardinalityType

\* An insert takes the first live node of its id away before it adds one.
LEMMA InsertCopies ==
    ASSUME IInv, NEW new \in Docs, NEW vec \in Vecs, Insert(new, vec), NEW doc \in Docs
    PROVE  LiveOf(doc)' \subseteq {num_vectors} \/ Cardinality(LiveOf(doc)') <= Cardinality(LiveOf(doc))
<1>1. /\ num_vectors \in Nodes /\ num_vectors \notin Used /\ Used' = Used \cup {num_vectors}
      /\ Tombstone(new) /\ built
  BY InsertFacts
<1>2. /\ Used \in SUBSET Nodes /\ deleted \in SUBSET Used /\ doc_ids \in [Nodes -> Docs \cup {NoDoc}]
  BY UsedFacts DEF IInv, TypeOK
<1>3. doc_ids' = [doc_ids EXCEPT ![num_vectors] = new]
  BY DEF Insert
<1>4. /\ \A k \in Used : doc_ids'[k] = doc_ids[k]
      /\ doc_ids'[num_vectors] = new
  BY <1>1, <1>2, <1>3
<1>5. CASE UNCHANGED deleted /\ LiveOf(new) = {}
  <2>1. LiveOf(doc)' \subseteq LiveOf(doc) \cup {num_vectors}
    BY <1>1, <1>4, <1>5 DEF LiveOf, Live
  <2>2. doc # new => LiveOf(doc)' \subseteq LiveOf(doc)
    BY <1>1, <1>4, <1>5 DEF LiveOf, Live
  <2> QED BY <1>5, <2>1, <2>2, LiveOfFinite
<1>6. ASSUME NEW i \in LiveOf(new), deleted' = deleted \cup {i}
      PROVE  Cardinality(LiveOf(doc)') <= Cardinality(LiveOf(doc))
  <2>1. CASE doc # new
    <3>1. LiveOf(doc)' \subseteq LiveOf(doc)
      BY <1>1, <1>4, <1>6, <2>1 DEF LiveOf, Live
    <3> QED BY <3>1, LiveOfFinite
  <2>2. CASE doc = new
    <3> DEFINE S == LiveOf(doc) \ {i}
    <3>1. LiveOf(doc)' \subseteq S \cup {num_vectors}
      BY <1>1, <1>4, <1>6 DEF LiveOf, Live
    <3>2. IsFiniteSet(LiveOf(doc)) /\ i \in LiveOf(doc) /\ Cardinality(LiveOf(doc)) \in Nat
      BY <1>6, <2>2, LiveOfFinite
    <3>3. IsFiniteSet(S) /\ Cardinality(S) = Cardinality(LiveOf(doc)) - 1
      BY <3>2, FS_RemoveElement
    <3>4. num_vectors \notin S
      BY <1>1, LiveOfFinite
    <3> HIDE DEF S
    <3>5. /\ IsFiniteSet(S \cup {num_vectors})
          /\ Cardinality(S \cup {num_vectors}) = Cardinality(S) + 1
      BY <3>3, <3>4, FS_AddElement
    <3>6. Cardinality(LiveOf(doc)') <= Cardinality(S \cup {num_vectors})
      BY <3>1, <3>5, FS_Subset
    <3> QED BY <3>2, <3>3, <3>5, <3>6
  <2> QED BY <2>1, <2>2
<1> QED BY <1>1, <1>5, <1>6, TombstoneFacts

\* compact gives every live node one number, and no other.
LEMMA CompactCopies ==
    ASSUME IInv, Compact, NEW doc \in Docs
    PROVE  Cardinality(LiveOf(doc)') <= Cardinality(LiveOf(doc))
<1>1. /\ Used' \in SUBSET Nodes /\ deleted' = {}
  BY CompactFacts
<1>2. PICK kept \in [Used' -> Live] :
        /\ \A k, l \in Used' : kept[k] = kept[l] => k = l
        /\ CompactedFrom(kept, Used')
  BY CompactFacts
<1> DEFINE f == [k \in LiveOf(doc)' |-> kept[k]]
<1>3. \A k \in LiveOf(doc)' : k \in Used' /\ doc_ids'[k] = doc /\ k \in Nodes
  BY <1>1 DEF LiveOf, Live
<1>4. \A k \in LiveOf(doc)' : kept[k] \in LiveOf(doc)
  BY <1>2, <1>3 DEF LiveOf, CompactedFrom
<1>5. f \in Injection(LiveOf(doc)', LiveOf(doc))
  BY <1>2, <1>3, <1>4 DEF Injection, IsInjective
<1> HIDE DEF f
<1> QED BY <1>5, LiveOfFinite, FS_Injection

\* On a built index no call gives an id a second live vector.
THEOREM LiveCopiesNeverGrowAlways == Spec => LiveCopiesNeverGrow
<1>1. IInv /\ [Next]_vars =>
        [built => \A doc \in Docs :
           LiveOf(doc)' \subseteq {num_vectors} \/ Cardinality(LiveOf(doc)') <= Cardinality(LiveOf(doc))]_vars
  <2> SUFFICES ASSUME IInv, [Next]_vars, built, NEW doc \in Docs
               PROVE  \/ LiveOf(doc)' \subseteq {num_vectors}
                      \/ Cardinality(LiveOf(doc)') <= Cardinality(LiveOf(doc))
    OBVIOUS
  <2>1. CASE UNCHANGED <<dataVars, deleted>>
    <3>1. LiveOf(doc)' = LiveOf(doc)
      BY <2>1 DEF dataVars, LiveOf, Live, Used
    <3> QED BY <3>1, LiveOfFinite
  <2>2. ASSUME NEW other \in Docs, Delete(other)
        PROVE  Cardinality(LiveOf(doc)') <= Cardinality(LiveOf(doc))
    <3>1. Tombstone(other) /\ UNCHANGED dataVars
      BY <2>2 DEF Delete
    <3>2. deleted \subseteq deleted'
      BY <3>1, TombstoneFacts
    <3>3. LiveOf(doc)' \subseteq LiveOf(doc)
      BY <3>1, <3>2 DEF dataVars, LiveOf, Live, Used
    <3> QED BY <3>3, LiveOfFinite
  <2>3. CASE CompactToEmpty
    <3>1. LiveOf(doc)' = {}
      BY <2>3 DEF CompactToEmpty, LiveOf, Live, Used
    <3> QED BY <3>1
  <2>4. ASSUME NEW input \in Inputs, AddSlice(input[1], input[2]) PROVE FALSE
    BY <2>4 DEF AddSlice
  <2>5. CASE Build
    BY <2>5 DEF Build
  <2>6. CASE BuildRow \/ EndLinks \/ Bridge \/ EndBridges \/ \E nid \in Nodes : LinkBack(nid)
    BY <2>1, <2>6 DEF BuildRow, EndLinks, Bridge, EndBridges, LinkBack
  <2>7. CASE UNCHANGED vars
    BY <2>1, <2>7 DEF vars
  <2> QED BY <2>2, <2>3, <2>4, <2>5, <2>6, <2>7, InsertCopies, CompactCopies, InputTypes DEF Next
<1> QED BY <1>1, Invariance, PTL DEF Spec, LiveCopiesNeverGrow
=============================================================================
