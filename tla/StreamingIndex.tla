--------------------------- MODULE StreamingIndex ---------------------------
(***************************************************************************)
(* streaming/buffer.rs and streaming/coordinator.rs: StreamingCoordinator, *)
(* a write buffer in front of a main index, here a MappedInPlaceIndex.     *)
(* Every call has the coordinator to itself.  A compaction drains the      *)
(* buffer and applies it one id at a time, in the order of a hash map; the *)
(* other calls come before or after it.                                    *)
(*                                                                         *)
(* The vectors of a buffer have one dimension, so that its memory limit is *)
(* one more bound on their number; MaxBuffer is the smaller of the two.    *)
(* Counters are left out, and so are calls that are refused unchanged.     *)
(***************************************************************************)
EXTENDS MappedIndex

CONSTANTS
    MaxBuffer, MaxDeletes,    \* the sizes that make a compaction necessary
    NoDim                     \* no vector was buffered yet

ASSUME StreamingAssumption ==
    /\ MaxBuffer \in Nat /\ MaxDeletes \in Nat
    /\ NoDim \notin {DimOf[v] : v \in Vecs}

VARIABLES
    inserts,      \* [Ids -> Vecs \cup {Missing}]: the buffered vectors
    deletes,      \* the ids to delete from the main index
    dimension,    \* of the first vector ever buffered
    drained_inserts, drained_deletes,    \* what a compaction has yet to apply
    main          \* the main index

vars == <<inserts, deletes, dimension, drained_inserts, drained_deletes, main>>

NoInserts == [id \in Ids |-> Missing]
Buffered(ins) == {id \in Ids : ins[id] # Missing}
Compacting == drained_inserts # NoInserts \/ drained_deletes # {}

Init ==
    /\ inserts = NoInserts /\ deletes = {} /\ dimension = NoDim
    /\ drained_inserts = NoInserts /\ drained_deletes = {}
    /\ main = EmptyIndex

Accepts(v) == dimension \in {NoDim, DimOf[v]}

NeedsCompaction(ins, del) ==
    Cardinality(Buffered(ins)) >= MaxBuffer \/ Cardinality(del) >= MaxDeletes

\* The buffer after a call that does not compact.
Keep(ins, del) ==
    /\ inserts' = ins /\ deletes' = del
    /\ UNCHANGED <<drained_inserts, drained_deletes, main>>

\* Mutant: the pending deletes are cleared and not applied.
DrainForgetting(ins, del) ==
    /\ inserts' = NoInserts /\ deletes' = {}
    /\ drained_inserts' = ins /\ drained_deletes' = {}
    /\ UNCHANGED main

Drain(ins, del) ==
    /\ inserts' = NoInserts /\ deletes' = {}
    /\ drained_inserts' = ins /\ drained_deletes' = del
    /\ UNCHANGED main

\* The buffer after a call that compacts when it must.
Settle(ins, del) ==
    IF NeedsCompaction(ins, del) THEN Drain(ins, del) ELSE Keep(ins, del)

-----------------------------------------------------------------------------
(* StreamBuffer                                                            *)

WithInsert(ins, id, v) == [ins EXCEPT ![id] = v]

\* insert: the id is no longer to be deleted.
DeletesAfterInsert(del, id) == del \ {id}

\* delete: an id of the buffer is dropped there, and only there.
WithDelete(ins, id) == [ins EXCEPT ![id] = Missing]

DeletesAfterDelete(ins, del, id) ==
    IF ins[id] # Missing THEN del ELSE del \cup {id}

-----------------------------------------------------------------------------
(* StreamingCoordinator                                                    *)

BufferInsert(id, v) ==
    /\ ~Compacting /\ Accepts(v)
    /\ Keep(WithInsert(inserts, id, v), DeletesAfterInsert(deletes, id))
    /\ dimension' = DimOf[v]

BufferDelete(id) ==
    /\ ~Compacting
    /\ Keep(WithDelete(inserts, id), DeletesAfterDelete(inserts, deletes, id))
    /\ UNCHANGED dimension

Insert(id, v) ==
    /\ ~Compacting /\ Accepts(v)
    /\ Settle(WithInsert(inserts, id, v), DeletesAfterInsert(deletes, id))
    /\ dimension' = DimOf[v]

Delete(id) ==
    /\ ~Compacting
    /\ Settle(WithDelete(inserts, id), DeletesAfterDelete(inserts, deletes, id))
    /\ UNCHANGED dimension

Update(id, v) ==
    /\ ~Compacting /\ Accepts(v)
    /\ Settle(WithInsert(inserts, id, v),
              DeletesAfterInsert(DeletesAfterDelete(inserts, deletes, id), id))
    /\ dimension' = DimOf[v]

\* The insert of an update is refused, after the delete.
UpdateRefused(id, v) ==
    /\ ~Compacting /\ ~Accepts(v)
    /\ Keep(WithDelete(inserts, id), DeletesAfterDelete(inserts, deletes, id))
    /\ UNCHANGED dimension

Compact ==
    /\ ~Compacting
    /\ Drain(inserts, deletes)
    /\ UNCHANGED dimension

\* Errors of the main index are counted and no more.
ApplyDelete(id) ==
    /\ id \in drained_deletes
    /\ main' = Removed(main, id)
    /\ drained_deletes' = drained_deletes \ {id}
    /\ UNCHANGED <<inserts, deletes, dimension, drained_inserts>>

ApplyInsert(id) ==
    /\ drained_deletes = {} /\ drained_inserts[id] # Missing
    /\ main' = Inserted(main, id, drained_inserts[id])
    /\ drained_inserts' = [drained_inserts EXCEPT ![id] = Missing]
    /\ UNCHANGED <<inserts, deletes, dimension, drained_deletes>>

\* inner_mut(), or the index before it was wrapped.
InnerInsert(id, v) ==
    /\ ~Compacting
    /\ main' = Inserted(main, id, v)
    /\ UNCHANGED <<inserts, deletes, dimension, drained_inserts, drained_deletes>>

InnerDelete(id) ==
    /\ ~Compacting
    /\ main' = Removed(main, id)
    /\ UNCHANGED <<inserts, deletes, dimension, drained_inserts, drained_deletes>>

Next ==
    \/ \E id \in Ids :
          \/ BufferDelete(id) \/ Delete(id) \/ InnerDelete(id)
          \/ ApplyDelete(id) \/ ApplyInsert(id)
          \/ \E v \in Vecs :
                \/ BufferInsert(id, v) \/ Insert(id, v) \/ InnerInsert(id, v)
                \/ Update(id, v) \/ UpdateRefused(id, v)
    \/ Compact

Spec == Init /\ [][Next]_vars
=============================================================================
