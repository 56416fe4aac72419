----------------------------- MODULE BlockCache -----------------------------
(***************************************************************************)
(* file_io.rs, CachedFile: exact reads at any offset of an immutable index *)
(* file, through a bounded cache of fixed-size blocks with CLOCK eviction. *)
(* Every searcher owns its cache and reads through &mut self: one read     *)
(* runs at a time, and this module takes it lookup by lookup, since any    *)
(* positional read of the file may fail and leave the cache half changed.  *)
(*                                                                         *)
(* The byte at position p of the file is the number p.  Hit counters are   *)
(* left out, and a file offset does not overflow 64 bits.                  *)
(***************************************************************************)
EXTENDS Integers, Sequences

CONSTANTS
    FileLen, BlockSize,
    Budget,       \* FileCacheConfig.budget_bytes
    MaxOffset, MaxRequest,    \* bounds on the reads that are asked for
    Blank,        \* a byte of a slot that was never read from the file
    NoSlot, NoBlock

ASSUME CacheAssumption ==
    /\ FileLen \in Nat /\ BlockSize \in Nat \ {0} /\ Budget \in Nat
    /\ MaxOffset \in Nat /\ MaxRequest \in Nat
    /\ Blank \notin Nat /\ NoSlot \notin Int /\ NoBlock \notin Int

NumBlocks == (FileLen + BlockSize - 1) \div BlockSize

Capacity == IF Budget \div BlockSize < NumBlocks THEN Budget \div BlockSize
                                                  ELSE NumBlocks
Blocks == 0 .. NumBlocks - 1
Slots == 0 .. Capacity - 1
InBlock == 0 .. BlockSize - 1
Byte == (0 .. FileLen - 1) \cup {Blank}

VARIABLES
    slots,         \* [Blocks -> Slots \cup {NoSlot}]: the map from blocks to slots
    slot_block,    \* [Slots -> Blocks \cup {NoBlock}]
    used,          \* slot_block.len(): the slots allocated so far
    referenced,    \* [Slots -> BOOLEAN]
    data,          \* [Slots -> [InBlock -> Byte]]
    hand,          \* the CLOCK hand
    call,          \* the read in progress, and the step it takes next
    buf            \* what it has delivered

cacheVars == <<slots, slot_block, used, referenced, data, hand>>
vars == <<cacheVars, call, buf>>

NoCall == [at |-> "none", offset |-> 0, len |-> 0, slot |-> NoSlot]
Steps == {"none", "lookup", "sweep", "fill", "copy", "done", "failed"}

Init ==
    /\ slots = [b \in Blocks |-> NoSlot]
    /\ slot_block = [s \in Slots |-> NoBlock]
    /\ used = 0
    /\ referenced = [s \in Slots |-> FALSE]
    /\ data = [s \in Slots |-> [i \in InBlock |-> Blank]]
    /\ hand = 0
    /\ call = NoCall
    /\ buf = <<>>

\* The bytes of the file from a position on.
FileBytes(offset, len) == [j \in 1 .. len |-> offset + j - 1]

\* read_exact_at_impl over the whole request: every byte, or an error.
Direct(offset, len) ==
    \/ /\ len = 0 \/ offset + len <= FileLen
       /\ call' = [at |-> "done", offset |-> offset, len |-> len, slot |-> NoSlot]
       /\ buf' = FileBytes(offset, len)
    \/ /\ len > 0
       /\ call' = [at |-> "failed", offset |-> offset, len |-> len, slot |-> NoSlot]
       /\ buf' = <<>>

\* A read that bypasses the cache.
Bypasses(len) == Capacity = 0 \/ len = 0 \/ len > (Capacity * BlockSize) \div 2

\* read_exact_at is called.
Read(offset, len) ==
    /\ call.at = "none"
    /\ \/ Bypasses(len) /\ Direct(offset, len)
       \/ /\ ~Bypasses(len)
          /\ call' = [at |-> IF offset + len > FileLen THEN "failed" ELSE "lookup",
                      offset |-> offset, len |-> len, slot |-> NoSlot]
          /\ buf' = <<>>
    /\ UNCHANGED cacheVars

Pos == call.offset + Len(buf)
Block == Pos \div BlockSize
Within == Pos % BlockSize

Goto(step, slot) == call' = [call EXCEPT !.at = step, !.slot = slot]

Hit ==
    /\ call.at = "lookup"
    /\ slots[Block] # NoSlot
    /\ referenced' = [referenced EXCEPT ![slots[Block]] = TRUE]
    /\ Goto("copy", slots[Block])
    /\ UNCHANGED <<slots, slot_block, used, data, hand, buf>>

\* A miss while there are slots to allocate.
Allocate ==
    /\ call.at = "lookup"
    /\ slots[Block] = NoSlot
    /\ used < Capacity
    /\ used' = used + 1
    /\ Goto("fill", used)
    /\ UNCHANGED <<slots, slot_block, referenced, data, hand, buf>>

StartSweep ==
    /\ call.at = "lookup"
    /\ slots[Block] = NoSlot
    /\ used = Capacity
    /\ Goto("sweep", NoSlot)
    /\ UNCHANGED <<cacheVars, buf>>

Advance == hand' = (hand + 1) % Capacity

\* Mutant: the reference bit stays set.
SkipKeepingBit ==
    /\ call.at = "sweep"
    /\ referenced[hand]
    /\ Advance
    /\ UNCHANGED <<slots, slot_block, used, referenced, data, call, buf>>

\* CLOCK: a referenced slot gets a second chance.
Skip ==
    /\ call.at = "sweep"
    /\ referenced[hand]
    /\ referenced' = [referenced EXCEPT ![hand] = FALSE]
    /\ Advance
    /\ UNCHANGED <<slots, slot_block, used, data, call, buf>>

\* Mutant: the slot keeps its block's entry in the map.
EvictKeepingEntry ==
    /\ call.at = "sweep"
    /\ ~referenced[hand]
    /\ slot_block' = [slot_block EXCEPT ![hand] = NoBlock]
    /\ Goto("fill", hand)
    /\ Advance
    /\ UNCHANGED <<slots, used, referenced, data, buf>>

\* Mutant: the new block is marked referenced before it is read.
EvictMarking ==
    /\ call.at = "sweep"
    /\ ~referenced[hand]
    /\ slots' = [b \in Blocks |-> IF b = slot_block[hand] THEN NoSlot ELSE slots[b]]
    /\ slot_block' = [slot_block EXCEPT ![hand] = NoBlock]
    /\ referenced' = [referenced EXCEPT ![hand] = TRUE]
    /\ Goto("fill", hand)
    /\ Advance
    /\ UNCHANGED <<used, data, buf>>

\* The block of the victim leaves the map before the victim is overwritten.
Evict ==
    /\ call.at = "sweep"
    /\ ~referenced[hand]
    /\ slots' = [b \in Blocks |-> IF b = slot_block[hand] THEN NoSlot ELSE slots[b]]
    /\ slot_block' = [slot_block EXCEPT ![hand] = NoBlock]
    /\ Goto("fill", hand)
    /\ Advance
    /\ UNCHANGED <<used, referenced, data, buf>>

\* The length of a block in the file: the last one may be short.
BlockLen(b) ==
    IF FileLen - b * BlockSize < BlockSize THEN FileLen - b * BlockSize ELSE BlockSize

\* The first n bytes of a slot are overwritten with those of a block.
Overwritten(b, n) ==
    [i \in InBlock |-> IF i < n THEN b * BlockSize + i ELSE data[call.slot][i]]

\* The block is read into the slot; an error leaves some of its bytes there
\* and the slot without a block.
Fill ==
    /\ call.at = "fill"
    /\ \/ /\ data' = [data EXCEPT ![call.slot] = Overwritten(Block, BlockLen(Block))]
          /\ slot_block' = [slot_block EXCEPT ![call.slot] = Block]
          /\ slots' = [slots EXCEPT ![Block] = call.slot]
          /\ Goto("copy", call.slot)
       \/ /\ \E n \in 0 .. BlockLen(Block) - 1 :
                data' = [data EXCEPT ![call.slot] = Overwritten(Block, n)]
          /\ Goto("failed", NoSlot)
          /\ UNCHANGED <<slots, slot_block>>
    /\ UNCHANGED <<used, referenced, hand, buf>>

\* What the read takes from this block.
Chunk ==
    IF BlockSize - Within < call.len - Len(buf) THEN BlockSize - Within
                                                ELSE call.len - Len(buf)

Copy ==
    /\ call.at = "copy"
    /\ buf' = buf \o [j \in 1 .. Chunk |-> data[call.slot][Within + j - 1]]
    /\ IF Len(buf) + Chunk = call.len THEN Goto("done", NoSlot) ELSE Goto("lookup", NoSlot)
    /\ UNCHANGED cacheVars

Return ==
    /\ call.at \in {"done", "failed"}
    /\ call' = NoCall
    /\ buf' = <<>>
    /\ UNCHANGED cacheVars

Step == Hit \/ Allocate \/ StartSweep \/ Skip \/ Evict \/ Fill \/ Copy \/ Return

Next == Step \/ \E offset \in 0 .. MaxOffset, len \in 0 .. MaxRequest : Read(offset, len)

Spec == Init /\ [][Next]_vars

\* A read in progress runs on: it has the thread, and a file read returns.
FairSpec == Spec /\ WF_vars(Step)
=============================================================================
