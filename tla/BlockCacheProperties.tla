------------------------ MODULE BlockCacheProperties ------------------------
(***************************************************************************)
(* What a cached file must guarantee, over the state of BlockCache.        *)
(***************************************************************************)
EXTENDS BlockCache

Calls == [at : Steps, offset : 0 .. MaxOffset, len : 0 .. MaxRequest,
          slot : Slots \cup {NoSlot}]

\* Every variable has the type its declaration states.
TypeOK ==
    /\ slots \in [Blocks -> Slots \cup {NoSlot}]
    /\ slot_block \in [Slots -> Blocks \cup {NoBlock}]
    /\ used \in 0 .. Capacity
    /\ referenced \in [Slots -> BOOLEAN]
    /\ data \in [Slots -> [InBlock -> Byte]]
    /\ hand \in Nat /\ (Capacity > 0 => hand \in Slots)
    /\ call \in Calls
    /\ buf \in Seq(Byte)

\* A block found in the map is whole and current in its slot, and the map and
\* slot_block name each other, after evictions and after reads that failed in
\* the middle of a fill.
Coherent ==
    \A b \in Blocks :
        slots[b] # NoSlot =>
            /\ slot_block[slots[b]] = b
            /\ \A i \in 0 .. BlockLen(b) - 1 : data[slots[b]][i] = b * BlockSize + i

\* A read that succeeds delivers the bytes of the file it was asked for, all
\* of them, wherever blocks begin and end; it never succeeds past the end.
ReadReturnsFile ==
    call.at = "done" =>
        /\ buf = FileBytes(call.offset, call.len)
        /\ call.len > 0 => call.offset + call.len <= FileLen

\* The cache never holds more block bytes than its budget.
WithinBudget == used * BlockSize <= Budget

\* No slot is lost: one without a block, other than the one being filled, has
\* no second chance left, so the next sweep that reaches it takes it.
EmptySlotsReclaimed ==
    \A s \in 0 .. used - 1 : slot_block[s] = NoBlock => ~referenced[s]

\* Every read ends: a sweep over slots that were all referenced finds a
\* victim, and each turn of the loop delivers bytes.
ReadEnds == call.at # "none" ~> call.at = "none"
=============================================================================
