---------------------------- MODULE MappedIndex ----------------------------
(***************************************************************************)
(* hnsw/inplace.rs, MappedInPlaceIndex: the main index behind the          *)
(* streaming coordinator.  It keeps the caller's ids apart from the slots  *)
(* of the graph, which are reused through a free list.  This module holds  *)
(* the maps, the slots and the free list; the edges between the nodes are  *)
(* not modelled, and a search is taken as exact.                           *)
(***************************************************************************)
EXTENDS Integers, FiniteSets, SequencesExt

CONSTANTS
    Ids, Vecs,
    DimOf, MainDim,    \* the dimension of each vector, and that of the index
    Missing,           \* no vector
    NoSlot, NoId

ASSUME MappedAssumption ==
    /\ IsFiniteSet(Ids)
    /\ Missing \notin Vecs /\ NoSlot \notin Int /\ NoId \notin Ids

\* One slot more than the ids would ever need.
Slots == 0 .. Cardinality(Ids)

Fits(v) == DimOf[v] = MainDim

EmptyIndex ==
    [id_map      |-> [id \in Ids |-> NoSlot],
     reverse_map |-> [s \in Slots |-> NoId],
     nodes       |-> [s \in Slots |-> Missing],
     free_slots  |-> <<>>,
     len         |-> 0]    \* nodes.len(): the slots allocated so far

\* InPlaceIndex::delete of a live node, and the end of its reverse entry.
Freed(m, s) ==
    [m EXCEPT !.nodes = [@ EXCEPT ![s] = Missing],
              !.reverse_map = [@ EXCEPT ![s] = NoId],
              !.free_slots = Append(@, s)]

\* Mutant: the slot stays on the free list.
PlacedKeepingFree(m, id, v) ==
    LET s == IF m.free_slots = <<>> THEN m.len ELSE Last(m.free_slots)
    IN  [m EXCEPT !.nodes[s] = v, !.id_map[id] = s, !.reverse_map[s] = id,
                  !.len = IF m.free_slots = <<>> THEN @ + 1 ELSE @]

\* InPlaceIndex::insert of a vector that fits, and its two map entries.
Placed(m, id, v) ==
    LET s == IF m.free_slots = <<>> THEN m.len ELSE Last(m.free_slots)
    IN  [m EXCEPT !.nodes = [@ EXCEPT ![s] = v],
                  !.id_map = [@ EXCEPT ![id] = s],
                  !.reverse_map = [@ EXCEPT ![s] = id],
                  !.free_slots = IF @ = <<>> THEN @ ELSE Front(@),
                  !.len = IF m.free_slots = <<>> THEN @ + 1 ELSE @]

\* inner.delete is refused: the slot that the id maps to is not live.
Stuck(m, id) == m.id_map[id] # NoSlot /\ m.nodes[m.id_map[id]] = Missing

\* Mutant: the vector that is replaced stays in the graph.
InsertedBeside(m, id, v) == IF Fits(v) THEN Placed(m, id, v) ELSE m

\* Mutant: an id that exists is left alone.
InsertedOnce(m, id, v) ==
    IF m.id_map[id] # NoSlot THEN m ELSE IF Fits(v) THEN Placed(m, id, v) ELSE m

\* IndexOps::insert.  An id that exists is deleted first; a vector that does
\* not fit is refused after that.
Inserted(m, id, v) ==
    IF Stuck(m, id) THEN m
    ELSE LET cleared == IF m.id_map[id] = NoSlot THEN m ELSE Freed(m, m.id_map[id])
         IN  IF Fits(v) THEN Placed(cleared, id, v) ELSE cleared

\* Mutant: the id keeps its entry.
RemovedKeepingEntry(m, id) ==
    IF m.id_map[id] = NoSlot \/ Stuck(m, id) THEN m ELSE Freed(m, m.id_map[id])

\* IndexOps::delete.
Removed(m, id) ==
    IF m.id_map[id] = NoSlot \/ Stuck(m, id) THEN m
    ELSE [Freed(m, m.id_map[id]) EXCEPT !.id_map = [@ EXCEPT ![id] = NoSlot]]

\* The vector that a search reports under an id: results are renamed through
\* reverse_map.
VecIn(m, id) ==
    LET s == m.id_map[id]
    IN  IF s # NoSlot /\ m.reverse_map[s] = id THEN m.nodes[s] ELSE Missing
=============================================================================
