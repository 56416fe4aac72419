-------------------------- MODULE FreshProperties --------------------------
(***************************************************************************)
(* What FreshGraphIndex must guarantee, over the state of FreshGraph.      *)
(***************************************************************************)
EXTENDS FreshGraph

\* Every variable has the type its declaration states.
TypeOK ==
    /\ num_vectors \in 0 .. MaxNodes
    /\ vectors \in [Nodes -> Vecs \cup {NoVec}]
    /\ doc_ids \in [Nodes -> Docs \cup {NoDoc}]
    /\ neighbors \in [Nodes -> [Nodes -> Nat]]
    /\ inbound_count \in [Nodes -> Nat]
    /\ deleted \in SUBSET Used
    /\ entry_point \in Nodes
    /\ built \in BOOLEAN
    /\ stage \in {"idle", "rows", "links", "bridges"}
    /\ row \in 0 .. MaxNodes
    /\ todo \in SUBSET Used

\* ensure_connectivity adds its edges uncounted, and counts anew at its end.
CountsExact == stage = "bridges" \/ inbound_count = InDegrees

\* Some list names a node twice.
Duplicates == \E i, j \in Nodes : neighbors[i][j] > 1

\* inbound_count never misses an in-edge: a count that is too low would
\* protect nodes that need no protection, and overflow full lists with them.
CountsCoverEdges ==
    stage # "bridges" => \A j \in Nodes : InDegree(j) <= inbound_count[j]

\* The counts that build, insert and the evictions adjust edge by edge stay
\* exact as long as no list names a node twice.
InexactOnlyByDuplicates ==
    [][CountsExact /\ ~CountsExact' => Duplicates]_vars

\* Invariant I2 of delete_reinsert_cycles_preserve_reachability: a reverse edge
\* takes no node's last in-edge, and the linked node has one after it, as long
\* as no list names a node twice, the counts are right, and the full list has
\* room for what they protect.
LastInEdgeKept ==
    [][\A nid \in Nodes :
         /\ LinkBack(nid) /\ CountsExact /\ ~Duplicates
         /\ Cardinality(Protected(Named(neighbors[nid]) \cup {row})) <= MaxDegree
         => \A j \in Nodes : InDegree(j) > 0 \/ j = row => InDegree(j)' > 0]_vars

\* When build or compact returns, a search can reach every vector.
RebuildReachesAll ==
    [][EndBridges => Used \subseteq Reached(entry_point)]_vars

EntryLive == built => entry_point \in Live \/ Live = {}

\* Searches and inserts start from a live node.  That is lost only when the
\* last live node goes and a new one comes: nothing then moves the entry point.
EntryLostOnlyByEmptying ==
    [][EntryLive /\ ~EntryLive' => Live' = {num_vectors}]_vars

\* No call on a built index gives an id a second live vector; an id that was
\* staged twice keeps both until they are deleted one by one.
LiveCopiesNeverGrow ==
    [][built => \A doc \in Docs :
         LiveOf(doc)' \subseteq {num_vectors} \/ Cardinality(LiveOf(doc)') <= Cardinality(LiveOf(doc))]_vars

\* read_neighbors: what save_to_dir writes of the lists can be loaded.
Loadable == \A i \in Used : Length(neighbors[i]) <= num_vectors - 1

\* An index that load_from_dir would refuse has a list that names a node twice.
RefusedOnlyForDuplicates == built /\ stage = "idle" => Loadable \/ Duplicates

\* Only ensure_connectivity makes such lists.
DuplicatesOnlyByBridges == [][~Duplicates /\ Duplicates' => Bridge]_vars
=============================================================================
