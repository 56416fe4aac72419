------------------------ MODULE StreamingProperties ------------------------
(***************************************************************************)
(* What the streaming coordinator and the main index behind it must        *)
(* guarantee, over the state of StreamingIndex.                            *)
(***************************************************************************)
EXTENDS StreamingIndex

Buffers == [Ids -> Vecs \cup {Missing}]

MainType ==
    [id_map : [Ids -> Slots \cup {NoSlot}], reverse_map : [Slots -> Ids \cup {NoId}],
     nodes : [Slots -> Vecs \cup {Missing}], free_slots : Seq(Slots), len : Slots]

\* Every variable has the type its declaration states, and the main index
\* never holds more slots than there are ids.
TypeOK ==
    /\ inserts \in Buffers /\ drained_inserts \in Buffers
    /\ deletes \in SUBSET Ids /\ drained_deletes \in SUBSET Ids
    /\ dimension \in {DimOf[v] : v \in Vecs} \cup {NoDim}
    /\ main \in MainType /\ main.len <= Cardinality(Ids)

\* Every node of the graph answers to one id, and that id leads back to it:
\* whatever fails, no vector is found under two ids, under a wrong one, or
\* under none.
NodesNamed ==
    \A s \in Slots :
        /\ main.nodes[s] # Missing <=> main.reverse_map[s] # NoId
        /\ main.reverse_map[s] # NoId => main.id_map[main.reverse_map[s]] = s

\* The free list holds every slot that was allocated and is not live, once:
\* no slot is lost or handed out twice.
FreeListExact ==
    /\ \A i, j \in DOMAIN main.free_slots :
           main.free_slots[i] = main.free_slots[j] => i = j
    /\ ToSet(main.free_slots) = {s \in Slots : s < main.len /\ main.nodes[s] = Missing}

\* inplace.rs:1775-1810, validate_inplace_maps, which every saved index must
\* pass to be loaded: "MappedInPlaceIndex missing reverse map for external id",
\* "external id {external_id} maps to inactive node".
MapsAgree ==
    \A id \in Ids : main.id_map[id] # NoSlot =>
        /\ main.nodes[main.id_map[id]] # Missing
        /\ main.reverse_map[main.id_map[id]] = id

-----------------------------------------------------------------------------
(* What the coordinator holds                                              *)

Overlaid(ins, del, below) ==
    [id \in Ids |-> IF ins[id] # Missing THEN ins[id]
                    ELSE IF id \in del THEN Missing ELSE below[id]]

MainView == [id \in Ids |-> VecIn(main, id)]

\* The vector of each id: the buffer over what is being compacted over the
\* main index.
View == Overlaid(inserts, deletes, Overlaid(drained_inserts, drained_deletes, MainView))

\* The id leads to a slot that is no longer its own.
Dangling(id) ==
    main.id_map[id] # NoSlot /\ main.reverse_map[main.id_map[id]] # id

\* Applying the buffer to the main index, in whatever order, changes the
\* vector of no id, except of those whose vector the main index refuses; it
\* may count on nothing once such a refusal has left an id dangling.
CompactionKeepsView ==
    [][/\ Compacting
       /\ \A id \in drained_deletes \cup Buffered(drained_inserts) : ~Dangling(id)
       => \A id \in Ids : \/ View'[id] = View[id]
                          \/ ~Fits(drained_inserts[id])]_vars

\* The maps come apart only where the main index refuses the vector of a
\* re-insert: no delete, reuse of a slot or order of a compaction leaves an id
\* leading to a slot that is not its own.
RefusedInsert ==
    \E id \in Ids :
        \/ ApplyInsert(id) /\ ~Fits(drained_inserts[id])
        \/ \E v \in Vecs : InnerInsert(id, v) /\ ~Fits(v)
OnlyRefusalBreaksMaps == [][MapsAgree => MapsAgree' \/ RefusedInsert]_vars

\* A call changes the vector of at most one id, also when it has to drain a
\* buffer full of other ids.
CallsKeepOthers ==
    [][~Compacting /\ MapsAgree =>
          \A i, j \in Ids : View'[i] # View[i] /\ View'[j] # View[j] => i = j]_vars

-----------------------------------------------------------------------------
(* Search                                                                  *)

\* K results are asked for; Distance[m][v] is the distance of v to the query by
\* metric m.  L2 and Cosine are the two metrics that the code below names.
CONSTANTS K, Metrics, L2, Cosine, Distance

\* An id is a u32; distances of all metrics are compared with each other (f32),
\* so their ranks on one scale stand for them.
ASSUME SearchAssumption ==
    /\ Ids \subseteq Int
    /\ K \in Nat
    /\ L2 \in Metrics /\ Cosine \in Metrics
    /\ Distance \in [Metrics -> [Vecs -> Int]]

\* What of a StreamingConfig a search reads.
Configs == [distance_metric : Metrics, merge_search_results : BOOLEAN]

\* The metric that the main index reports, the default of IndexOps; in fact
\* MappedInPlaceIndex ranks by L2 (see MainResults).
IndexMetric == Cosine

\* The check that both sides use one metric; the search fails without it.
Answered(c) == c.distance_metric = IndexMetric

\* A result keeps the side it came from: both may answer with the same id.
Found(side, map, metric) ==
    {[id |-> id, vec |-> map[id], side |-> side, dist |-> Distance[metric][map[id]]] :
        id \in {x \in Ids : map[x] # Missing}}

\* The order of results.  Equal distances are in no fixed order in the code (an
\* unstable sort over a hash map); the model takes that of ids, then of sides.
Nearer(a, b) ==
    \/ a.dist < b.dist
    \/ /\ a.dist = b.dist
       /\ a.id < b.id \/ (a.id = b.id /\ a.side < b.side)
NearestOf(n, results) ==
    {r \in results : Cardinality({q \in results : Nearer(q, r)}) < n}
FirstOfEachId(results) ==
    {r \in results : \A q \in results : q.id = r.id => ~Nearer(q, r)}

\* Otherwise only the main index is searched.
Merging(c) == c.merge_search_results /\ Buffered(inserts) # {}

\* Mutant: nothing is fetched in place of what the deletes hide.
MainResultsTight(c) ==
    {r \in NearestOf(K, Found(1, MainView, L2)) : r.id \notin deletes}

\* The main index is asked for twice as many when there is a buffer to merge.
Fetched(c) == IF Merging(c) THEN 2 * K ELSE K
MainResults(c) ==
    {r \in NearestOf(Fetched(c), Found(1, MainView, L2)) : r.id \notin deletes}

BufferResults(c) ==
    NearestOf(K, {r \in Found(0, inserts, c.distance_metric) : r.id \notin deletes})

\* search, once its metrics were found to agree: both answers are merged by the
\* distances they came with, cut to K, and the first of each id is kept.
Search(c) ==
    IF Merging(c) THEN FirstOfEachId(NearestOf(K, BufferResults(c) \cup MainResults(c)))
    ELSE MainResults(c)

\* What a search chooses from: the vectors of the main index that no pending
\* delete hides, and those of the buffer if it merges them.
Shown == {r \in Found(1, MainView, L2) : r.id \notin deletes}
Copies(c) == Shown \cup (IF Merging(c) THEN Found(0, inserts, c.distance_metric) ELSE {})

\* How many vectors of the main index are hidden.
Hidden == Cardinality({id \in deletes : MainView[id] # Missing})

\* Between compactions, a search that is answered finds the nearest of the
\* copies, by the distance that each side computes.  An id in both places
\* answers once, with its nearer copy, old or new.  What the deletes hide costs
\* at most one place each beyond those fetched in excess: the n nearest copies
\* are found if n and the hidden are no more than fetched, and all K with their
\* places if K is such an n.  Only then, and only when one side has nothing to
\* answer, are these the K nearest of what the coordinator holds by one metric:
\* otherwise the cosine distances of the buffer and the L2 distances of the main
\* index are merged, which the check of the metrics does not notice.
SearchExact ==
    ~Compacting => \A c \in Configs : Answered(c) =>
        /\ \A n \in 1 .. K :
              n + Hidden <= Fetched(c) => FirstOfEachId(NearestOf(n, Copies(c))) \subseteq Search(c)
        /\ K + Hidden <= Fetched(c) =>
              /\ Search(c) = FirstOfEachId(NearestOf(K, Copies(c)))
              /\ Buffered(inserts) = {} =>
                    Search(c) = NearestOf(K, Found(1, View, L2))
              /\ Merging(c) /\ Shown = {} =>
                    Search(c) = NearestOf(K, Found(0, View, c.distance_metric))

=============================================================================
