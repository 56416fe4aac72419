--------------------------- MODULE HnswProperties ---------------------------
(***************************************************************************)
(* What the HNSW index must guarantee, over the state of HnswIndex.        *)
(***************************************************************************)
EXTENDS HnswIndex

\* Every variable has the type its declaration states.
TypeOK ==
    /\ num_vectors \in 0 .. Cardinality(Docs)
    /\ doc_ids \in [Nodes -> Docs \cup {NoDoc}]
    /\ layer_assignments \in [Nodes -> Layers]
    /\ neighbors \in [Layers -> [Nodes -> SUBSET Nodes]]
    /\ tombstones \in SUBSET Nodes
    /\ entry_point \in Nodes \cup {NoNode}
    /\ built \in BOOLEAN
    /\ stage \in {"idle", "node", "search", "links", "single", "batch"}
    /\ current \in 0 .. Cardinality(Docs)
    /\ layer \in 0 .. MaxLayer + 1
    /\ at \in Nodes \cup {NoNode}
    /\ todo \in SUBSET Nodes
    /\ removing \in SUBSET Nodes
    /\ removed \in SUBSET Nodes
    /\ gone \in SUBSET Docs

\* No list is longer than its layer allows, m_max on layer 0 and m above it,
\* whatever build links back and a repair refills.
DegreeBounded ==
    \A l \in Layers, i \in Nodes : Cardinality(neighbors[l][i]) <= Cap(l)

\* No edge of any layer leads to a node that a repair took out, neither one
\* that was there nor one that a later repair puts in.
NoEdgeToRemoved ==
    \A l \in Layers, i \in Nodes : neighbors[l][i] \cap removed = {}

Live == Used \ tombstones

\* Searches do not start at a node that has no edges any more.
EntryUsable == built /\ Live # {} => entry_point \in Used \ removed

\* The repairs see to that, one after another.  Loading does not: it takes
\* the first node of the highest layer, removed or not.
EntryRemovedOnlyByLoad == [][EntryUsable => EntryUsable' \/ Load]_vars

\* Where a search enters layer 0: it has walked the layers above, from the
\* entry point.
Starts ==
    {j \in Nodes : \A C \in SUBSET Nodes :
        /\ entry_point \in C
        /\ \A l \in Layers \ {0}, x \in C : neighbors[l][x] \subseteq C
        => j \in C}

\* The ids a search finds whose beam is as wide as the index.
Found(start) == {doc_ids[i] : i \in Reached(0, start) \ tombstones}

\* While layer 0 has room for every edge, a search finds exactly the ids that
\* were added and not deleted, whatever was deleted before or after build, with
\* repair or without, and however build has renumbered the nodes.
SmallIndexExact ==
    built /\ stage = "idle" /\ num_vectors <= MMax + 1 /\ entry_point \in Used \ removed
        => \A start \in Starts : Found(start) = {doc_ids[i] : i \in Used} \ gone
=============================================================================
