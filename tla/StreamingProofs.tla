-------------------------- MODULE StreamingProofs --------------------------
(***************************************************************************)
(* Proofs about StreamingIndex, for any ids, vectors, dimensions and       *)
(* buffer sizes: the slots of the main index stay named and counted,       *)
(* whatever is refused, a compaction keeps what the coordinator holds, and *)
(* a search of buffer and main index returns the nearest of it.            *)
(***************************************************************************)
EXTENDS StreamingProperties, SequenceTheorems, FiniteSetTheorems, WellFoundedInduction,
        TLAPS

-----------------------------------------------------------------------------
(* Free lists                                                              *)

Distinct(q) == \A i, j \in DOMAIN q : q[i] = q[j] => i = j

\* Appending an element that is not there yet.
LEMMA AppendFacts ==
    ASSUME NEW S, NEW q \in Seq(S), NEW e \in S
    PROVE  /\ Append(q, e) \in Seq(S)
           /\ ToSet(Append(q, e)) = ToSet(q) \cup {e}
           /\ Distinct(q) /\ e \notin ToSet(q) => Distinct(Append(q, e))
<1> DEFINE a == Append(q, e)
<1>1. /\ Len(q) \in Nat /\ DOMAIN q = 1 .. Len(q)
      /\ a \in Seq(S) /\ DOMAIN a = 1 .. Len(q) + 1
      /\ \A i \in 1 .. Len(q) : a[i] = q[i]
      /\ a[Len(q) + 1] = e
  OBVIOUS
<1> HIDE DEF a
<1>2. ToSet(a) = ToSet(q) \cup {e}
  BY <1>1 DEF ToSet
<1>3. ASSUME Distinct(q), e \notin ToSet(q)
      PROVE  Distinct(a)
  BY <1>1, <1>3 DEF Distinct, ToSet
<1> QED BY <1>1, <1>2, <1>3 DEF a

\* Taking the last element away.
LEMMA FrontFacts ==
    ASSUME NEW S, NEW q \in Seq(S), q # <<>>, Distinct(q)
    PROVE  /\ Front(q) \in Seq(S) /\ Last(q) \in ToSet(q)
           /\ ToSet(Front(q)) = ToSet(q) \ {Last(q)}
           /\ Distinct(Front(q))
<1> DEFINE f == Front(q)  n == Len(q)
<1>1. n \in Nat \ {0} /\ DOMAIN q = 1 .. n
  BY EmptySeq
<1>2. /\ f \in Seq(S) /\ DOMAIN f = 1 .. n - 1
      /\ \A i \in 1 .. n - 1 : f[i] = q[i]
  BY <1>1 DEF Front
<1>3. Last(q) = q[n] /\ n \in DOMAIN q
  BY <1>1 DEF Last
<1> HIDE DEF f, n
<1>4. Last(q) \in ToSet(q)
  BY <1>3 DEF ToSet
<1>5. ToSet(f) = ToSet(q) \ {Last(q)}
  BY <1>1, <1>2, <1>3 DEF ToSet, Distinct
<1>6. Distinct(f)
  BY <1>1, <1>2 DEF Distinct
<1> QED BY <1>2, <1>4, <1>5, <1>6 DEF f

-----------------------------------------------------------------------------
(* The main index                                                          *)

Unused(m) == {s \in Slots : s < m.len /\ m.nodes[s] = Missing}

\* NodesNamed, FreeListExact and the types, of any main index; no slot is live
\* that was not allocated.
Well(m) ==
    /\ m \in MainType /\ m.len <= Cardinality(Ids)
    /\ \A s \in Slots :
          /\ m.nodes[s] # Missing <=> m.reverse_map[s] # NoId
          /\ m.reverse_map[s] # NoId => m.id_map[m.reverse_map[s]] = s
          /\ m.nodes[s] # Missing => s < m.len
    /\ Distinct(m.free_slots)
    /\ ToSet(m.free_slots) = Unused(m)

\* Every id leads to a live node of its own.
Agree(m) ==
    \A id \in Ids : m.id_map[id] # NoSlot =>
        m.nodes[m.id_map[id]] # Missing /\ m.reverse_map[m.id_map[id]] = id

\* The slots are numbers, one more than there are ids.
LEMMA SlotFacts ==
    /\ Cardinality(Ids) \in Nat
    /\ \A s \in Slots : s \in Nat /\ s # NoSlot
    /\ \A n \in Nat : n <= Cardinality(Ids) => n \in Slots
BY MappedAssumption, FS_CardinalityType DEF Slots

\* A new index is well formed.
LEMMA EmptyWell == Well(EmptyIndex) /\ Agree(EmptyIndex)
<1>1. 0 \in Slots /\ 0 <= Cardinality(Ids)
  BY SlotFacts
<1>2. EmptyIndex \in MainType
  BY <1>1 DEF EmptyIndex, MainType
<1>3. ToSet(EmptyIndex.free_slots) = Unused(EmptyIndex)
  BY SlotFacts DEF EmptyIndex, ToSet, Unused
<1>4. Distinct(EmptyIndex.free_slots)
  BY DEF EmptyIndex, Distinct
<1> QED BY <1>1, <1>2, <1>3, <1>4 DEF Well, Agree, EmptyIndex

\* The fields of an index after a slot was freed.
LEMMA FreedFields ==
    ASSUME NEW m \in MainType, NEW s \in Slots
    PROVE  /\ Freed(m, s) \in MainType
           /\ Freed(m, s).id_map = m.id_map
           /\ Freed(m, s).reverse_map = [m.reverse_map EXCEPT ![s] = NoId]
           /\ Freed(m, s).nodes = [m.nodes EXCEPT ![s] = Missing]
           /\ Freed(m, s).free_slots = Append(m.free_slots, s)
           /\ Freed(m, s).len = m.len
<1> DEFINE map == [m.reverse_map EXCEPT ![s] = NoId]
           nodes == [m.nodes EXCEPT ![s] = Missing]
           free == Append(m.free_slots, s)
<1>1. /\ m.reverse_map \in [Slots -> Ids \cup {NoId}]
      /\ m.nodes \in [Slots -> Vecs \cup {Missing}]
      /\ m.free_slots \in Seq(Slots)
  BY DEF MainType
<1>2. /\ map \in [Slots -> Ids \cup {NoId}]
      /\ nodes \in [Slots -> Vecs \cup {Missing}]
      /\ free \in Seq(Slots)
  BY <1>1, AppendFacts
<1>3. Freed(m, s) =
          [m EXCEPT !.nodes = nodes, !.reverse_map = map, !.free_slots = free]
  BY DEF Freed
<1> HIDE DEF map, nodes, free
<1>4. Freed(m, s) \in MainType
  BY <1>2, <1>3 DEF MainType
<1>5. /\ Freed(m, s).id_map = m.id_map /\ Freed(m, s).reverse_map = map
      /\ Freed(m, s).nodes = nodes /\ Freed(m, s).free_slots = free
      /\ Freed(m, s).len = m.len
  BY <1>3 DEF MainType
<1> QED BY <1>4, <1>5 DEF map, nodes, free

\* Freeing a live slot.
LEMMA FreedWell ==
    ASSUME NEW m, Well(m), NEW s \in Slots, m.nodes[s] # Missing
    PROVE  Well(Freed(m, s))
<1> DEFINE f == Freed(m, s)
<1>1. m \in MainType /\ m.len <= Cardinality(Ids) /\ m.len \in Nat
  BY SlotFacts DEF Well, MainType
<1>2. /\ f \in MainType /\ f.id_map = m.id_map
      /\ f.reverse_map = [m.reverse_map EXCEPT ![s] = NoId]
      /\ f.nodes = [m.nodes EXCEPT ![s] = Missing]
      /\ f.free_slots = Append(m.free_slots, s) /\ f.len = m.len
  BY <1>1, FreedFields
<1>3. /\ m.reverse_map \in [Slots -> Ids \cup {NoId}]
      /\ m.nodes \in [Slots -> Vecs \cup {Missing}]
      /\ m.free_slots \in Seq(Slots)
  BY <1>1 DEF MainType
<1> HIDE DEF f
<1>4. ASSUME NEW t \in Slots
      PROVE  /\ f.nodes[t] # Missing <=> f.reverse_map[t] # NoId
             /\ f.reverse_map[t] # NoId => f.id_map[f.reverse_map[t]] = t
             /\ f.nodes[t] # Missing => t < f.len
  BY <1>2, <1>3 DEF Well
<1>5. s < m.len /\ s \notin ToSet(m.free_slots) /\ Distinct(m.free_slots)
  BY DEF Well, Unused
<1>6. /\ ToSet(f.free_slots) = ToSet(m.free_slots) \cup {s}
      /\ Distinct(f.free_slots)
  BY <1>2, <1>3, <1>5, AppendFacts
<1>7. Unused(f) = Unused(m) \cup {s}
  BY <1>2, <1>3, <1>5 DEF Unused
<1> QED BY <1>1, <1>2, <1>4, <1>6, <1>7 DEF Well, f

\* The slot that an insert takes.
SlotFor(m) == IF m.free_slots = <<>> THEN m.len ELSE Last(m.free_slots)

\* As long as an id has no node, a slot is left for it: the nodes have ids of
\* their own, and every slot that is not live is on the free list.
LEMMA SlotLeft ==
    ASSUME NEW m, Well(m), NEW id \in Ids, \A s \in Slots : m.reverse_map[s] # id,
           m.free_slots = <<>>
    PROVE  m.len < Cardinality(Ids)
<1> DEFINE live == 0 .. m.len - 1
<1>1. /\ m.len \in Nat /\ m.len <= Cardinality(Ids)
      /\ m.reverse_map \in [Slots -> Ids \cup {NoId}]
  BY SlotFacts DEF Well, MainType
<1>2. live \subseteq Slots
  BY <1>1, SlotFacts DEF Slots
<1>3. \A s \in live : m.nodes[s] # Missing
  <2>1. ToSet(m.free_slots) = {}
    BY DEF ToSet
  <2> QED BY <1>1, <1>2, <2>1 DEF Well, Unused
<1>4. \A s \in live : m.reverse_map[s] \in Ids \ {id} /\ m.id_map[m.reverse_map[s]] = s
  BY <1>1, <1>2, <1>3 DEF Well
<1> DEFINE name == [s \in live |-> m.reverse_map[s]]
<1>5. name \in Injection(live, Ids \ {id})
  BY <1>4 DEF Injection, IsInjective
<1>6. IsFiniteSet(Ids \ {id}) /\ Cardinality(Ids \ {id}) = Cardinality(Ids) - 1
  BY MappedAssumption, FS_RemoveElement
<1> HIDE DEF name
<1>7. Cardinality(live) <= Cardinality(Ids) - 1
  BY <1>5, <1>6, FS_Injection
<1>8. Cardinality(live) = m.len
  BY <1>1, FS_Interval
<1> QED BY <1>1, <1>7, <1>8, SlotFacts

\* The slot an insert takes is not live, and what is left of the free list.
LEMMA SlotForFacts ==
    ASSUME NEW m, Well(m), NEW id \in Ids, \A s \in Slots : m.reverse_map[s] # id
    PROVE  /\ SlotFor(m) \in Slots /\ m.nodes[SlotFor(m)] = Missing
           /\ m.free_slots = <<>> => m.len + 1 \in Slots /\ m.len + 1 <= Cardinality(Ids)
           /\ m.free_slots # <<>> =>
                 /\ SlotFor(m) < m.len
                 /\ Front(m.free_slots) \in Seq(Slots) /\ Distinct(Front(m.free_slots))
                 /\ ToSet(Front(m.free_slots)) = Unused(m) \ {SlotFor(m)}
<1>1. m.len \in Nat /\ m.free_slots \in Seq(Slots) /\ m.len \in Slots
  BY SlotFacts DEF Well, MainType
<1>2. CASE m.free_slots = <<>>
  <2>1. m.len < Cardinality(Ids)
    BY <1>2, SlotLeft
  <2>2. m.len + 1 \in Slots /\ m.len + 1 <= Cardinality(Ids)
    BY <1>1, <2>1, SlotFacts
  <2>3. ~(m.len < m.len)
    BY <1>1
  <2>4. m.nodes[m.len] = Missing
    BY <1>1, <2>3 DEF Well
  <2> QED BY <1>1, <1>2, <2>2, <2>4 DEF SlotFor
<1>3. CASE m.free_slots # <<>>
  <2>1. Distinct(m.free_slots) /\ ToSet(m.free_slots) = Unused(m)
    BY DEF Well
  <2>2. /\ Front(m.free_slots) \in Seq(Slots) /\ Last(m.free_slots) \in Unused(m)
        /\ ToSet(Front(m.free_slots)) = Unused(m) \ {Last(m.free_slots)}
        /\ Distinct(Front(m.free_slots))
    BY <1>1, <1>3, <2>1, FrontFacts
  <2>3. SlotFor(m) = Last(m.free_slots)
    BY <1>3 DEF SlotFor
  <2>4. /\ SlotFor(m) \in Slots /\ SlotFor(m) < m.len
        /\ m.nodes[SlotFor(m)] = Missing
    BY <2>2, <2>3 DEF Unused
  <2> QED BY <1>3, <2>2, <2>3, <2>4
<1> QED BY <1>2, <1>3

\* The fields of an index after a vector was placed.
LEMMA PlacedFields ==
    ASSUME NEW m, Well(m), NEW id \in Ids, NEW v \in Vecs,
           \A s \in Slots : m.reverse_map[s] # id
    PROVE  LET s == SlotFor(m)  p == Placed(m, id, v) IN
           /\ p \in MainType
           /\ p.id_map = [m.id_map EXCEPT ![id] = s]
           /\ p.reverse_map = [m.reverse_map EXCEPT ![s] = id]
           /\ p.nodes = [m.nodes EXCEPT ![s] = v]
           /\ p.free_slots = IF m.free_slots = <<>> THEN <<>> ELSE Front(m.free_slots)
           /\ p.len = IF m.free_slots = <<>> THEN m.len + 1 ELSE m.len
<1> DEFINE s == SlotFor(m)
           ids == [m.id_map EXCEPT ![id] = s]
           map == [m.reverse_map EXCEPT ![s] = id]
           nodes == [m.nodes EXCEPT ![s] = v]
           free == IF m.free_slots = <<>> THEN <<>> ELSE Front(m.free_slots)
           len == IF m.free_slots = <<>> THEN m.len + 1 ELSE m.len
<1>1. /\ m.id_map \in [Ids -> Slots \cup {NoSlot}]
      /\ m.reverse_map \in [Slots -> Ids \cup {NoId}]
      /\ m.nodes \in [Slots -> Vecs \cup {Missing}]
      /\ m.len \in Slots /\ m \in MainType
  BY DEF Well, MainType
<1>2. s \in Slots /\ free \in Seq(Slots) /\ len \in Slots
  BY <1>1, SlotForFacts
<1>3. Placed(m, id, v) =
          [m EXCEPT !.nodes = nodes, !.id_map = ids, !.reverse_map = map,
                    !.free_slots = free, !.len = len]
  BY DEF Placed, SlotFor
<1> HIDE DEF s, free, len
<1>4. /\ ids \in [Ids -> Slots \cup {NoSlot}]
      /\ map \in [Slots -> Ids \cup {NoId}]
      /\ nodes \in [Slots -> Vecs \cup {Missing}]
  BY <1>1, <1>2
<1> HIDE DEF ids, map, nodes
<1>5. Placed(m, id, v) \in MainType
  BY <1>1, <1>2, <1>3, <1>4 DEF MainType
<1>6. LET p == Placed(m, id, v) IN
      /\ p.id_map = ids /\ p.reverse_map = map /\ p.nodes = nodes
      /\ p.free_slots = free /\ p.len = len
  BY <1>1, <1>3 DEF MainType
<1> QED BY <1>5, <1>6 DEF ids, map, nodes, free, len, s

\* Placing a vector under an id that has no node.
LEMMA PlacedWell ==
    ASSUME NEW m, Well(m), NEW id \in Ids, NEW v \in Vecs,
           \A s \in Slots : m.reverse_map[s] # id
    PROVE  Well(Placed(m, id, v))
<1> DEFINE s == SlotFor(m)  p == Placed(m, id, v)
<1>1. /\ m.id_map \in [Ids -> Slots \cup {NoSlot}]
      /\ m.reverse_map \in [Slots -> Ids \cup {NoId}]
      /\ m.nodes \in [Slots -> Vecs \cup {Missing}]
      /\ m.len \in Nat /\ m.len <= Cardinality(Ids)
      /\ Missing \notin Vecs /\ NoId \notin Ids
  BY MappedAssumption, SlotFacts DEF Well, MainType
<1>2. /\ s \in Slots /\ s \in Nat /\ m.nodes[s] = Missing
      /\ m.free_slots = <<>> => s = m.len /\ m.len + 1 <= Cardinality(Ids)
      /\ m.free_slots # <<>> => /\ s < m.len
                               /\ Distinct(Front(m.free_slots))
                               /\ ToSet(Front(m.free_slots)) = Unused(m) \ {s}
  BY SlotForFacts, SlotFacts DEF SlotFor
<1>3. /\ p \in MainType
      /\ p.id_map = [m.id_map EXCEPT ![id] = s]
      /\ p.reverse_map = [m.reverse_map EXCEPT ![s] = id]
      /\ p.nodes = [m.nodes EXCEPT ![s] = v]
      /\ p.free_slots = IF m.free_slots = <<>> THEN <<>> ELSE Front(m.free_slots)
      /\ p.len = IF m.free_slots = <<>> THEN m.len + 1 ELSE m.len
  BY PlacedFields
<1> HIDE DEF s, p
<1>4. ASSUME NEW t \in Slots
      PROVE  /\ p.nodes[t] # Missing <=> p.reverse_map[t] # NoId
             /\ p.reverse_map[t] # NoId => p.id_map[p.reverse_map[t]] = t
             /\ p.nodes[t] # Missing => t < p.len
  <2>1. t \in Nat
    BY SlotFacts
  <2>2. CASE t = s
    BY <1>1, <1>2, <1>3, <2>1, <2>2
  <2>3. CASE t # s
    <3>1. /\ p.nodes[t] = m.nodes[t] /\ p.reverse_map[t] = m.reverse_map[t]
          /\ m.reverse_map[t] # id
      BY <1>1, <1>3, <2>3
    <3>2. m.reverse_map[t] # NoId => p.id_map[m.reverse_map[t]] = m.id_map[m.reverse_map[t]]
      BY <1>1, <1>3, <3>1
    <3>3. t < m.len => t < p.len
      BY <1>1, <1>3, <2>1
    <3> QED BY <3>1, <3>2, <3>3 DEF Well
  <2> QED BY <2>2, <2>3
<1>5. p.len <= Cardinality(Ids)
  BY <1>1, <1>2, <1>3
<1>6. Distinct(p.free_slots)
  <2>1. Distinct(<<>>)
    BY DEF Distinct
  <2> QED BY <1>2, <1>3, <2>1
<1>7. ToSet(p.free_slots) = Unused(p)
  <2>1. ToSet(<<>>) = {}
    BY DEF ToSet
  <2>2. \A t \in Slots : p.nodes[t] = Missing <=> m.nodes[t] = Missing /\ t # s
    BY <1>1, <1>2, <1>3
  <2>3. CASE m.free_slots = <<>>
    <3>1. Unused(m) = {}
      BY <2>1, <2>3 DEF Well
    <3>2. \A t \in Slots : t < p.len /\ t # s => t < m.len
      BY <1>1, <1>2, <1>3, <2>3, SlotFacts
    <3>3. Unused(p) = {}
      BY <2>2, <3>1, <3>2 DEF Unused
    <3> QED BY <1>3, <2>1, <2>3, <3>3
  <2>4. CASE m.free_slots # <<>>
    <3>1. Unused(p) = Unused(m) \ {s}
      BY <1>3, <2>2, <2>4 DEF Unused
    <3> QED BY <1>2, <1>3, <2>4, <3>1
  <2> QED BY <2>3, <2>4
<1> QED BY <1>3, <1>4, <1>5, <1>6, <1>7 DEF Well, p

\* The index without the node of an id, as insert and delete leave it.
Cleared(m, id) == IF m.id_map[id] = NoSlot THEN m ELSE Freed(m, m.id_map[id])

\* Unless the id is stuck, clearing it leaves a well-formed index in which no
\* slot bears its name.
LEMMA ClearedWell ==
    ASSUME NEW m, Well(m), NEW id \in Ids, ~Stuck(m, id)
    PROVE  /\ Well(Cleared(m, id)) /\ Cleared(m, id).id_map = m.id_map
           /\ \A s \in Slots : Cleared(m, id).reverse_map[s] # id
<1>1. /\ m.id_map \in [Ids -> Slots \cup {NoSlot}]
      /\ m.reverse_map \in [Slots -> Ids \cup {NoId}]
      /\ m \in MainType /\ NoId \notin Ids
  BY MappedAssumption DEF Well, MainType
<1>2. \A s \in Slots : m.reverse_map[s] = id => m.id_map[id] = s
  BY <1>1 DEF Well
<1>3. CASE m.id_map[id] = NoSlot
  BY <1>2, <1>3, SlotFacts DEF Cleared
<1>4. CASE m.id_map[id] # NoSlot
  <2> DEFINE s == m.id_map[id]
  <2>1. s \in Slots /\ m.nodes[s] # Missing
    BY <1>1, <1>4 DEF Stuck
  <2>2. Cleared(m, id) = Freed(m, s)
    BY <1>4 DEF Cleared
  <2>3. /\ Freed(m, s).id_map = m.id_map
        /\ Freed(m, s).reverse_map = [m.reverse_map EXCEPT ![s] = NoId]
    BY <1>1, <2>1, FreedFields
  <2>4. Well(Freed(m, s))
    BY <2>1, FreedWell
  <2>5. \A t \in Slots : Freed(m, s).reverse_map[t] # id
    BY <1>1, <1>2, <2>1, <2>3
  <2> QED BY <2>2, <2>3, <2>4, <2>5
<1> QED BY <1>3, <1>4

\* An insert, whether it is refused or not.
LEMMA InsertedWell ==
    ASSUME NEW m, Well(m), NEW id \in Ids, NEW v \in Vecs
    PROVE  Well(Inserted(m, id, v))
<1>1. CASE Stuck(m, id)
  BY <1>1 DEF Inserted
<1>2. CASE ~Stuck(m, id)
  <2>1. /\ Well(Cleared(m, id))
        /\ \A s \in Slots : Cleared(m, id).reverse_map[s] # id
    BY <1>2, ClearedWell
  <2>2. Inserted(m, id, v) =
            IF Fits(v) THEN Placed(Cleared(m, id), id, v) ELSE Cleared(m, id)
    BY <1>2 DEF Inserted, Cleared
  <2>3. Well(Placed(Cleared(m, id), id, v))
    BY <2>1, PlacedWell
  <2> QED BY <2>1, <2>2, <2>3
<1> QED BY <1>1, <1>2

\* The fields of an index after an id was deleted.
LEMMA RemovedFields ==
    ASSUME NEW m, Well(m), NEW id \in Ids, m.id_map[id] # NoSlot, ~Stuck(m, id)
    PROVE  LET r == Removed(m, id)  c == Cleared(m, id) IN
           /\ r \in MainType
           /\ r.id_map = [m.id_map EXCEPT ![id] = NoSlot]
           /\ r.reverse_map = c.reverse_map /\ r.nodes = c.nodes
           /\ r.free_slots = c.free_slots /\ r.len = c.len
<1> DEFINE c == Cleared(m, id)  ids == [c.id_map EXCEPT ![id] = NoSlot]
<1>1. Well(c) /\ c.id_map = m.id_map
  BY ClearedWell
<1>2. c \in MainType
  BY <1>1 DEF Well
<1>3. Removed(m, id) = [c EXCEPT !.id_map = ids]
  BY DEF Removed, Cleared
<1> HIDE DEF c
<1>4. ids \in [Ids -> Slots \cup {NoSlot}]
  BY <1>2 DEF MainType
<1> HIDE DEF ids
<1>5. Removed(m, id) \in MainType
  BY <1>2, <1>3, <1>4 DEF MainType
<1>6. LET r == Removed(m, id) IN
      /\ r.id_map = ids
      /\ r.reverse_map = c.reverse_map /\ r.nodes = c.nodes
      /\ r.free_slots = c.free_slots /\ r.len = c.len
  BY <1>2, <1>3 DEF MainType
<1> QED BY <1>1, <1>5, <1>6 DEF c, ids

\* A delete, whether it finds the id or not.
LEMMA RemovedWell ==
    ASSUME NEW m, Well(m), NEW id \in Ids
    PROVE  Well(Removed(m, id))
<1>1. CASE m.id_map[id] = NoSlot \/ Stuck(m, id)
  BY <1>1 DEF Removed
<1>2. CASE m.id_map[id] # NoSlot /\ ~Stuck(m, id)
  <2> DEFINE r == Removed(m, id)  c == Cleared(m, id)
  <2>1. /\ r \in MainType /\ r.id_map = [m.id_map EXCEPT ![id] = NoSlot]
        /\ r.reverse_map = c.reverse_map /\ r.nodes = c.nodes
        /\ r.free_slots = c.free_slots /\ r.len = c.len
    BY <1>2, RemovedFields
  <2>2. /\ Well(c) /\ c.id_map = m.id_map
        /\ \A s \in Slots : c.reverse_map[s] # id
    BY <1>2, ClearedWell
  <2> HIDE DEF r, c
  <2>3. /\ m.id_map \in [Ids -> Slots \cup {NoSlot}]
        /\ c.reverse_map \in [Slots -> Ids \cup {NoId}]
    BY <2>2 DEF Well, MainType
  <2>4. Unused(r) = Unused(c)
    BY <2>1 DEF Unused
  <2>5. \A s \in Slots : r.reverse_map[s] # NoId => r.id_map[r.reverse_map[s]] = s
    <3> SUFFICES ASSUME NEW s \in Slots, c.reverse_map[s] # NoId
                 PROVE  r.id_map[c.reverse_map[s]] = s
      BY <2>1
    <3>1. c.reverse_map[s] \in Ids /\ c.reverse_map[s] # id
      BY <2>2, <2>3
    <3>2. c.id_map[c.reverse_map[s]] = s
      BY <2>2 DEF Well
    <3> QED BY <2>1, <2>2, <2>3, <3>1, <3>2
  <2>6. /\ r.len <= Cardinality(Ids) /\ Distinct(r.free_slots)
        /\ ToSet(r.free_slots) = Unused(r)
        /\ \A s \in Slots : /\ r.nodes[s] # Missing <=> r.reverse_map[s] # NoId
                            /\ r.nodes[s] # Missing => s < r.len
    BY <2>1, <2>2, <2>4 DEF Well
  <2> QED BY <2>1, <2>5, <2>6 DEF Well, r
<1> QED BY <1>1, <1>2

-----------------------------------------------------------------------------
(* What is found in the main index                                         *)

\* An id whose slot is its own is not stuck.
LEMMA OwnNotStuck ==
    ASSUME NEW m, Well(m), NEW id \in Ids,
           m.id_map[id] # NoSlot => m.reverse_map[m.id_map[id]] = id
    PROVE  ~Stuck(m, id)
<1>1. m.id_map \in [Ids -> Slots \cup {NoSlot}] /\ NoId \notin Ids
  BY MappedAssumption DEF Well, MainType
<1> QED BY <1>1 DEF Stuck, Well

\* Clearing an id whose slot is its own hides no other id.
LEMMA ClearedViews ==
    ASSUME NEW m, Well(m), NEW id \in Ids,
           m.id_map[id] # NoSlot => m.reverse_map[m.id_map[id]] = id
    PROVE  /\ \A x \in Ids \ {id} : VecIn(Cleared(m, id), x) = VecIn(m, x)
           /\ VecIn(Cleared(m, id), id) = Missing
<1>1. /\ m.id_map \in [Ids -> Slots \cup {NoSlot}]
      /\ m.reverse_map \in [Slots -> Ids \cup {NoId}]
      /\ m.nodes \in [Slots -> Vecs \cup {Missing}]
      /\ m \in MainType /\ NoId \notin Ids
  BY MappedAssumption DEF Well, MainType
<1>2. CASE m.id_map[id] = NoSlot
  BY <1>2 DEF Cleared, VecIn
<1>3. CASE m.id_map[id] # NoSlot
  <2> DEFINE s == m.id_map[id]
  <2>1. s \in Slots /\ m.reverse_map[s] = id /\ Cleared(m, id) = Freed(m, s)
    BY <1>1, <1>3 DEF Cleared
  <2>2. /\ Freed(m, s).id_map = m.id_map
        /\ Freed(m, s).reverse_map = [m.reverse_map EXCEPT ![s] = NoId]
        /\ Freed(m, s).nodes = [m.nodes EXCEPT ![s] = Missing]
    BY <1>1, <2>1, FreedFields
  <2>3. ASSUME NEW x \in Ids \ {id}
        PROVE  VecIn(Freed(m, s), x) = VecIn(m, x)
    BY <1>1, <2>1, <2>2 DEF VecIn
  <2>4. VecIn(Freed(m, s), id) = Missing
    BY <1>1, <2>1, <2>2 DEF VecIn
  <2> QED BY <2>1, <2>3, <2>4
<1> QED BY <1>2, <1>3

\* Placing a vector shows it under its id, and hides no other.
LEMMA PlacedViews ==
    ASSUME NEW m, Well(m), NEW id \in Ids, NEW v \in Vecs,
           \A s \in Slots : m.reverse_map[s] # id
    PROVE  /\ \A x \in Ids \ {id} : VecIn(Placed(m, id, v), x) = VecIn(m, x)
           /\ VecIn(Placed(m, id, v), id) = v
<1> DEFINE s == SlotFor(m)  p == Placed(m, id, v)
<1>1. /\ m.id_map \in [Ids -> Slots \cup {NoSlot}]
      /\ m.reverse_map \in [Slots -> Ids \cup {NoId}]
      /\ m.nodes \in [Slots -> Vecs \cup {Missing}]
      /\ NoId \notin Ids
  BY MappedAssumption DEF Well, MainType
<1>2. s \in Slots /\ s # NoSlot /\ m.nodes[s] = Missing
  BY SlotForFacts, SlotFacts
<1>3. m.reverse_map[s] = NoId
  BY <1>2 DEF Well
<1>4. /\ p.id_map = [m.id_map EXCEPT ![id] = s]
      /\ p.reverse_map = [m.reverse_map EXCEPT ![s] = id]
      /\ p.nodes = [m.nodes EXCEPT ![s] = v]
  BY PlacedFields
<1> HIDE DEF s, p
<1>5. ASSUME NEW x \in Ids \ {id}
      PROVE  VecIn(p, x) = VecIn(m, x)
  <2>1. p.id_map[x] = m.id_map[x]
    BY <1>1, <1>4
  <2>2. CASE m.id_map[x] = s
    BY <1>1, <1>2, <1>3, <1>4, <2>1, <2>2 DEF VecIn
  <2>3. CASE m.id_map[x] # s
    BY <1>1, <1>2, <1>4, <2>1, <2>3 DEF VecIn
  <2> QED BY <2>2, <2>3
<1>6. VecIn(p, id) = v
  BY <1>1, <1>2, <1>4 DEF VecIn
<1> QED BY <1>5, <1>6 DEF p

\* An insert under an id whose slot is its own changes that id only.
LEMMA InsertedViews ==
    ASSUME NEW m, Well(m), NEW id \in Ids, NEW v \in Vecs,
           m.id_map[id] # NoSlot => m.reverse_map[m.id_map[id]] = id
    PROVE  /\ \A x \in Ids \ {id} : VecIn(Inserted(m, id, v), x) = VecIn(m, x)
           /\ VecIn(Inserted(m, id, v), id) = IF Fits(v) THEN v ELSE Missing
<1> DEFINE c == Cleared(m, id)
<1>1. ~Stuck(m, id)
  BY OwnNotStuck
<1>2. Well(c) /\ \A s \in Slots : c.reverse_map[s] # id
  BY <1>1, ClearedWell
<1>3. /\ \A x \in Ids \ {id} : VecIn(c, x) = VecIn(m, x)
      /\ VecIn(c, id) = Missing
  BY ClearedViews
<1>4. Inserted(m, id, v) = IF Fits(v) THEN Placed(c, id, v) ELSE c
  BY <1>1 DEF Inserted, Cleared
<1> HIDE DEF c
<1>5. /\ \A x \in Ids \ {id} : VecIn(Placed(c, id, v), x) = VecIn(c, x)
      /\ VecIn(Placed(c, id, v), id) = v
  BY <1>2, PlacedViews
<1> QED BY <1>3, <1>4, <1>5

\* So does a delete.
LEMMA RemovedViews ==
    ASSUME NEW m, Well(m), NEW id \in Ids,
           m.id_map[id] # NoSlot => m.reverse_map[m.id_map[id]] = id
    PROVE  /\ \A x \in Ids \ {id} : VecIn(Removed(m, id), x) = VecIn(m, x)
           /\ VecIn(Removed(m, id), id) = Missing
<1>1. ~Stuck(m, id) /\ m.id_map \in [Ids -> Slots \cup {NoSlot}]
  BY OwnNotStuck DEF Well, MainType
<1>2. CASE m.id_map[id] = NoSlot
  BY <1>2 DEF Removed, VecIn
<1>3. CASE m.id_map[id] # NoSlot
  <2> DEFINE r == Removed(m, id)  c == Cleared(m, id)
  <2>1. /\ r.id_map = [m.id_map EXCEPT ![id] = NoSlot]
        /\ r.reverse_map = c.reverse_map /\ r.nodes = c.nodes
    BY <1>1, <1>3, RemovedFields
  <2>2. c.id_map = m.id_map /\ \A x \in Ids \ {id} : VecIn(c, x) = VecIn(m, x)
    BY <1>1, ClearedWell, ClearedViews
  <2> HIDE DEF r, c
  <2>3. \A x \in Ids \ {id} : VecIn(r, x) = VecIn(c, x)
    BY <1>1, <2>1, <2>2 DEF VecIn
  <2>4. VecIn(r, id) = Missing
    BY <1>1, <2>1 DEF VecIn
  <2> QED BY <2>2, <2>3, <2>4 DEF r
<1> QED BY <1>2, <1>3

\* The ids other than one lead to live nodes of their own.
AgreeBut(m, id) ==
    \A x \in Ids \ {id} : m.id_map[x] # NoSlot =>
        m.nodes[m.id_map[x]] # Missing /\ m.reverse_map[m.id_map[x]] = x

\* Clearing an id leaves the others where they were.
LEMMA ClearedAgree ==
    ASSUME NEW m, Well(m), Agree(m), NEW id \in Ids
    PROVE  AgreeBut(Cleared(m, id), id)
<1>1. /\ m.id_map \in [Ids -> Slots \cup {NoSlot}]
      /\ m.reverse_map \in [Slots -> Ids \cup {NoId}]
      /\ m.nodes \in [Slots -> Vecs \cup {Missing}]
      /\ m \in MainType /\ NoId \notin Ids
  BY MappedAssumption DEF Well, MainType
<1>2. CASE m.id_map[id] = NoSlot
  BY <1>2 DEF Cleared, Agree, AgreeBut
<1>3. CASE m.id_map[id] # NoSlot
  <2> DEFINE s == m.id_map[id]  f == Freed(m, s)
  <2>1. s \in Slots /\ m.reverse_map[s] = id /\ Cleared(m, id) = f
    BY <1>1, <1>3 DEF Cleared, Agree
  <2>2. /\ f.id_map = m.id_map
        /\ f.reverse_map = [m.reverse_map EXCEPT ![s] = NoId]
        /\ f.nodes = [m.nodes EXCEPT ![s] = Missing]
    BY <1>1, <2>1, FreedFields
  <2> HIDE DEF f, s
  <2> SUFFICES ASSUME NEW x \in Ids \ {id}, m.id_map[x] # NoSlot
               PROVE  f.nodes[m.id_map[x]] # Missing /\ f.reverse_map[m.id_map[x]] = x
    BY <2>1, <2>2 DEF AgreeBut
  <2>3. /\ m.nodes[m.id_map[x]] # Missing /\ m.reverse_map[m.id_map[x]] = x
        /\ m.id_map[x] \in Slots
    BY <1>1 DEF Agree
  <2> QED BY <1>1, <2>1, <2>2, <2>3
<1> QED BY <1>2, <1>3

\* An id that is placed leads to its own node; the slot was nobody's.
LEMMA PlacedAgree ==
    ASSUME NEW m, Well(m), NEW id \in Ids, NEW v \in Vecs,
           \A s \in Slots : m.reverse_map[s] # id, AgreeBut(m, id)
    PROVE  Agree(Placed(m, id, v))
<1> DEFINE s == SlotFor(m)  p == Placed(m, id, v)
<1>1. /\ m.id_map \in [Ids -> Slots \cup {NoSlot}]
      /\ m.reverse_map \in [Slots -> Ids \cup {NoId}]
      /\ m.nodes \in [Slots -> Vecs \cup {Missing}]
      /\ Missing \notin Vecs
  BY MappedAssumption DEF Well, MainType
<1>2. s \in Slots /\ m.nodes[s] = Missing
  BY SlotForFacts
<1>3. /\ p.id_map = [m.id_map EXCEPT ![id] = s]
      /\ p.reverse_map = [m.reverse_map EXCEPT ![s] = id]
      /\ p.nodes = [m.nodes EXCEPT ![s] = v]
  BY PlacedFields
<1> HIDE DEF s, p
<1>4. p.nodes[p.id_map[id]] # Missing /\ p.reverse_map[p.id_map[id]] = id
  BY <1>1, <1>2, <1>3
<1>5. ASSUME NEW x \in Ids \ {id}, p.id_map[x] # NoSlot
      PROVE  p.nodes[p.id_map[x]] # Missing /\ p.reverse_map[p.id_map[x]] = x
  <2>1. p.id_map[x] = m.id_map[x] /\ m.id_map[x] \in Slots
    BY <1>1, <1>3, <1>5
  <2>2. m.nodes[m.id_map[x]] # Missing /\ m.reverse_map[m.id_map[x]] = x
    BY <1>5, <2>1 DEF AgreeBut
  <2> QED BY <1>1, <1>2, <1>3, <2>1, <2>2
<1> QED BY <1>4, <1>5 DEF Agree, p

\* The operations keep the maps inverse to each other, if no vector is refused.
LEMMA OperationsAgree ==
    ASSUME NEW m, Well(m), Agree(m), NEW id \in Ids
    PROVE  /\ \A v \in Vecs : Fits(v) => Agree(Inserted(m, id, v))
           /\ Agree(Removed(m, id))
<1> DEFINE c == Cleared(m, id)
<1>1. ~Stuck(m, id)
  BY OwnNotStuck DEF Agree
<1>2. /\ Well(c) /\ c.id_map = m.id_map /\ AgreeBut(c, id)
      /\ \A s \in Slots : c.reverse_map[s] # id
  BY <1>1, ClearedWell, ClearedAgree
<1>3. ASSUME NEW v \in Vecs, Fits(v)
      PROVE  Agree(Inserted(m, id, v))
  <2>1. Inserted(m, id, v) = Placed(c, id, v)
    BY <1>1, <1>3 DEF Inserted, Cleared
  <2> HIDE DEF c
  <2> QED BY <1>2, <2>1, PlacedAgree
<1>4. Agree(Removed(m, id))
  <2>1. CASE m.id_map[id] = NoSlot
    BY <2>1 DEF Removed
  <2>2. CASE m.id_map[id] # NoSlot
    <3> DEFINE r == Removed(m, id)
    <3>1. /\ r.id_map = [m.id_map EXCEPT ![id] = NoSlot]
          /\ r.reverse_map = c.reverse_map /\ r.nodes = c.nodes
      BY <1>1, <2>2, RemovedFields
    <3>2. m.id_map \in [Ids -> Slots \cup {NoSlot}]
      BY DEF Well, MainType
    <3> HIDE DEF r, c
    <3>3. Agree(r)
      BY <1>2, <3>1, <3>2 DEF Agree, AgreeBut
    <3> QED BY <3>3 DEF r
  <2> QED BY <2>1, <2>2
<1> QED BY <1>3, <1>4

-----------------------------------------------------------------------------
(* The inductive invariant                                                 *)

IInv == TypeOK /\ Well(main)

\* The buffer starts empty, over a new index.
LEMMA InitInv == Init => IInv /\ Agree(main)
<1> SUFFICES ASSUME Init PROVE IInv /\ Agree(main)
  OBVIOUS
<1>1. Well(main) /\ Agree(main)
  BY EmptyWell DEF Init
<1>2. NoInserts \in Buffers
  BY DEF NoInserts, Buffers
<1>3. main \in MainType /\ main.len <= Cardinality(Ids)
  BY <1>1 DEF Well
<1> QED BY <1>1, <1>2, <1>3 DEF Init, IInv, TypeOK

\* What a call leaves in the buffer, or drains from it.
LEMMA BufferType ==
    ASSUME IInv, NEW ins \in Buffers, NEW del \in SUBSET Ids, Settle(ins, del)
                                                             \/ Keep(ins, del)
                                                             \/ Drain(ins, del)
    PROVE  /\ inserts' \in Buffers /\ drained_inserts' \in Buffers
           /\ deletes' \in SUBSET Ids /\ drained_deletes' \in SUBSET Ids
           /\ main' = main
<1>1. NoInserts \in Buffers
  BY DEF NoInserts, Buffers
<1> QED BY <1>1 DEF IInv, TypeOK, Settle, Keep, Drain

\* The arguments of those calls.
LEMMA ArgumentTypes ==
    ASSUME IInv, NEW id \in Ids
    PROVE  /\ \A v \in Vecs : WithInsert(inserts, id, v) \in Buffers
           /\ WithDelete(inserts, id) \in Buffers
           /\ \A del \in SUBSET Ids : DeletesAfterInsert(del, id) \in SUBSET Ids
           /\ DeletesAfterDelete(inserts, deletes, id) \in SUBSET Ids
BY DEF IInv, TypeOK, Buffers, WithInsert, WithDelete, DeletesAfterInsert, DeletesAfterDelete

\* What a step does to the main index.
LEMMA MainStep ==
    ASSUME IInv, [Next]_vars
    PROVE  \/ main' = main
           \/ \E id \in Ids : main' = Removed(main, id)
           \/ \E id \in Ids, v \in Vecs : main' = Inserted(main, id, v)
<1>1. CASE UNCHANGED vars
  BY <1>1 DEF vars
<1>2. CASE Compact
  BY <1>2 DEF Compact, Drain
<1>3. ASSUME NEW id \in Ids,
             \/ BufferDelete(id) \/ Delete(id)
             \/ \E v \in Vecs : \/ BufferInsert(id, v) \/ Insert(id, v)
                               \/ Update(id, v) \/ UpdateRefused(id, v)
      PROVE  main' = main
  BY <1>3 DEF BufferDelete, Delete, BufferInsert, Insert, Update, UpdateRefused,
              Settle, Keep, Drain
<1>4. ASSUME NEW id \in Ids, InnerDelete(id) \/ ApplyDelete(id)
      PROVE  main' = Removed(main, id)
  BY <1>4 DEF InnerDelete, ApplyDelete
<1>5. ASSUME NEW id \in Ids, ApplyInsert(id)
      PROVE  \E v \in Vecs : main' = Inserted(main, id, v)
  BY <1>5 DEF ApplyInsert, IInv, TypeOK, Buffers
<1>6. ASSUME NEW id \in Ids, NEW v \in Vecs, InnerInsert(id, v)
      PROVE  main' = Inserted(main, id, v)
  BY <1>6 DEF InnerInsert
<1> QED BY <1>1, <1>2, <1>3, <1>4, <1>5, <1>6 DEF Next

\* The main index stays well formed.
LEMMA MainWell ==
    ASSUME IInv, [Next]_vars
    PROVE  Well(main)'
<1>1. Well(main)
  BY DEF IInv
<1>2. Well(main')
  BY <1>1, MainStep, InsertedWell, RemovedWell
<1> QED BY <1>2 DEF Well, MainType, Unused

\* Calls and compactions keep the types of the buffer.
LEMMA BufferStep ==
    ASSUME IInv, [Next]_vars
    PROVE  /\ inserts' \in Buffers /\ drained_inserts' \in Buffers
           /\ deletes' \in SUBSET Ids /\ drained_deletes' \in SUBSET Ids
           /\ dimension' \in {DimOf[v] : v \in Vecs} \cup {NoDim}
<1>1. /\ inserts \in Buffers /\ drained_inserts \in Buffers
      /\ deletes \in SUBSET Ids /\ drained_deletes \in SUBSET Ids
      /\ dimension \in {DimOf[v] : v \in Vecs} \cup {NoDim}
  BY DEF IInv, TypeOK
<1>2. CASE UNCHANGED vars
  BY <1>1, <1>2 DEF vars
<1>3. CASE Compact
  BY <1>1, <1>3, BufferType DEF Compact
<1>4. ASSUME NEW id \in Ids, BufferDelete(id) \/ Delete(id)
      PROVE  /\ inserts' \in Buffers /\ drained_inserts' \in Buffers
             /\ deletes' \in SUBSET Ids /\ drained_deletes' \in SUBSET Ids
             /\ dimension' = dimension
  BY <1>4, ArgumentTypes, BufferType DEF BufferDelete, Delete
<1>5. ASSUME NEW id \in Ids, NEW v \in Vecs,
             \/ BufferInsert(id, v) \/ Insert(id, v)
             \/ Update(id, v) \/ UpdateRefused(id, v)
      PROVE  /\ inserts' \in Buffers /\ drained_inserts' \in Buffers
             /\ deletes' \in SUBSET Ids /\ drained_deletes' \in SUBSET Ids
             /\ dimension' \in {dimension, DimOf[v]}
  <2>1. CASE BufferInsert(id, v)
    BY <1>1, <2>1, ArgumentTypes, BufferType DEF BufferInsert
  <2>2. CASE Insert(id, v)
    BY <1>1, <2>2, ArgumentTypes, BufferType DEF Insert
  <2>3. CASE Update(id, v)
    BY <2>3, ArgumentTypes, BufferType DEF Update
  <2>4. CASE UpdateRefused(id, v)
    BY <2>4, ArgumentTypes, BufferType DEF UpdateRefused
  <2> QED BY <1>5, <2>1, <2>2, <2>3, <2>4
<1>6. ASSUME NEW id \in Ids, InnerDelete(id) \/ \E v \in Vecs : InnerInsert(id, v)
      PROVE  UNCHANGED <<inserts, deletes, dimension, drained_inserts, drained_deletes>>
  BY <1>6 DEF InnerDelete, InnerInsert
<1>7. ASSUME NEW id \in Ids, ApplyDelete(id) \/ ApplyInsert(id)
      PROVE  /\ UNCHANGED <<inserts, deletes, dimension>>
             /\ drained_inserts' \in Buffers /\ drained_deletes' \in SUBSET Ids
  BY <1>1, <1>7 DEF ApplyDelete, ApplyInsert, Buffers
<1> QED BY <1>1, <1>2, <1>3, <1>4, <1>5, <1>6, <1>7 DEF Next

\* Every step keeps the invariant.
LEMMA StepInv == IInv /\ [Next]_vars => IInv'
<1> SUFFICES ASSUME IInv, [Next]_vars PROVE IInv'
  OBVIOUS
<1>1. Well(main)'
  BY MainWell
<1>2. (main \in MainType /\ main.len <= Cardinality(Ids))'
  BY <1>1 DEF Well
<1> QED BY <1>1, <1>2, BufferStep DEF IInv, TypeOK

\* Only a vector that is refused takes the maps apart.
LEMMA StepAgree ==
    ASSUME IInv, Agree(main), [Next]_vars
    PROVE  Agree(main)' \/ RefusedInsert
<1>1. Well(main)
  BY DEF IInv
<1>2. \A id \in Ids : /\ \A v \in Vecs : Fits(v) => Agree(Inserted(main, id, v))
                      /\ Agree(Removed(main, id))
  BY <1>1, OperationsAgree
<1>3. ASSUME Agree(main') PROVE Agree(main)'
  BY <1>3 DEF Agree
<1>4. CASE main' = main
  BY <1>4 DEF Agree
<1>5. ASSUME NEW id \in Ids, ApplyDelete(id) \/ InnerDelete(id)
      PROVE  Agree(main)'
  BY <1>2, <1>3, <1>5 DEF ApplyDelete, InnerDelete
<1>6. ASSUME NEW id \in Ids, ApplyInsert(id)
      PROVE  Agree(main)' \/ RefusedInsert
  <2>1. drained_inserts[id] \in Vecs /\ main' = Inserted(main, id, drained_inserts[id])
    BY <1>6 DEF ApplyInsert, IInv, TypeOK, Buffers
  <2> QED BY <1>2, <1>3, <1>6, <2>1 DEF RefusedInsert
<1>7. ASSUME NEW id \in Ids, NEW v \in Vecs, InnerInsert(id, v)
      PROVE  Agree(main)' \/ RefusedInsert
  <2>1. main' = Inserted(main, id, v)
    BY <1>7 DEF InnerInsert
  <2> QED BY <1>2, <1>3, <1>7, <2>1 DEF RefusedInsert
<1>8. ASSUME \/ UNCHANGED vars \/ Compact
             \/ \E id \in Ids :
                   \/ BufferDelete(id) \/ Delete(id)
                   \/ \E v \in Vecs : \/ BufferInsert(id, v) \/ Insert(id, v)
                                      \/ Update(id, v) \/ UpdateRefused(id, v)
      PROVE  main' = main
  BY <1>8 DEF vars, Compact, BufferDelete, Delete, BufferInsert, Insert, Update,
              UpdateRefused, Settle, Keep, Drain
<1> QED BY <1>4, <1>5, <1>6, <1>7, <1>8 DEF Next

-----------------------------------------------------------------------------
(* What the coordinator holds                                              *)

\* A change that the buffer and the main index make to one id at most.
Changes(id) == \A x \in Ids \ {id} : View'[x] = View[x]

\* Applying a drained delete or insert shows what was waiting to be applied.
LEMMA ApplyView ==
    ASSUME IInv, NEW id \in Ids, ~Dangling(id), ApplyDelete(id) \/ ApplyInsert(id)
    PROVE  \A x \in Ids : View'[x] = View[x] \/ ~Fits(drained_inserts[x])
<1>1. /\ Well(main)
      /\ main.id_map[id] # NoSlot => main.reverse_map[main.id_map[id]] = id
      /\ drained_inserts \in Buffers /\ Missing \notin Vecs
  BY MappedAssumption DEF IInv, TypeOK, Dangling
<1>2. CASE ApplyDelete(id)
  <2>1. /\ \A x \in Ids \ {id} : VecIn(main', x) = VecIn(main, x)
        /\ VecIn(main', id) = Missing
    BY <1>1, <1>2, RemovedViews DEF ApplyDelete
  <2>2. /\ inserts' = inserts /\ deletes' = deletes
        /\ drained_inserts' = drained_inserts
        /\ drained_deletes' = drained_deletes \ {id} /\ id \in drained_deletes
    BY <1>2 DEF ApplyDelete
  <2> QED BY <2>1, <2>2 DEF View, Overlaid, MainView
<1>3. CASE ApplyInsert(id)
  <2> DEFINE v == drained_inserts[id]
  <2>1. v \in Vecs /\ v # Missing
    BY <1>1, <1>3 DEF ApplyInsert, Buffers
  <2>2. /\ \A x \in Ids \ {id} : VecIn(main', x) = VecIn(main, x)
        /\ VecIn(main', id) = IF Fits(v) THEN v ELSE Missing
    BY <1>1, <1>3, <2>1, InsertedViews DEF ApplyInsert
  <2>3. /\ inserts' = inserts /\ deletes' = deletes
        /\ drained_inserts' = [drained_inserts EXCEPT ![id] = Missing]
        /\ drained_deletes' = drained_deletes /\ drained_deletes = {}
    BY <1>3 DEF ApplyInsert
  <2>4. /\ drained_inserts'[id] = Missing
        /\ \A x \in Ids \ {id} : drained_inserts'[x] = drained_inserts[x]
    BY <1>1, <2>3 DEF Buffers
  <2> QED BY <2>1, <2>2, <2>3, <2>4 DEF View, Overlaid, MainView
<1> QED BY <1>2, <1>3

\* Between compactions the view is the buffer over the main index.
LEMMA QuietView ==
    ASSUME IInv, ~Compacting
    PROVE  View = Overlaid(inserts, deletes, MainView) /\ MainView \in Buffers
<1>1. drained_inserts = NoInserts /\ drained_deletes = {}
  BY DEF Compacting
<1>2. \A below \in Buffers : Overlaid(NoInserts, {}, below) = below
  BY DEF Overlaid, NoInserts, Buffers
<1>3. MainView \in Buffers
  BY DEF MainView, VecIn, IInv, Well, MainType, Buffers
<1> QED BY <1>1, <1>2, <1>3 DEF View

\* With nothing being compacted, a call shows what it puts in the buffer over
\* the main index, whether it drains the buffer or not.
LEMMA CallView ==
    ASSUME IInv, ~Compacting, NEW ins \in Buffers, NEW del,
           Settle(ins, del) \/ Keep(ins, del) \/ Drain(ins, del)
    PROVE  /\ View = Overlaid(inserts, deletes, MainView)
           /\ View' = Overlaid(ins, del, MainView)
<1>1. drained_inserts = NoInserts /\ drained_deletes = {}
  BY DEF Compacting
<1>2. \A below \in [Ids -> Vecs \cup {Missing}] :
          Overlaid(NoInserts, {}, below) = below
  BY DEF Overlaid, NoInserts
<1>3. MainView \in [Ids -> Vecs \cup {Missing}]
  BY DEF MainView, VecIn, IInv, Well, MainType
<1>4. Overlaid(ins, del, MainView) \in [Ids -> Vecs \cup {Missing}]
  BY <1>3 DEF Overlaid, Buffers
<1>5. View = Overlaid(inserts, deletes, MainView)
  BY QuietView
<1>6. Keep(ins, del) \/ Drain(ins, del)
  BY DEF Settle
<1>7. CASE Keep(ins, del)
  <2>1. /\ inserts' = ins /\ deletes' = del /\ MainView' = MainView
        /\ drained_inserts' = NoInserts /\ drained_deletes' = {}
    BY <1>1, <1>7 DEF Keep, MainView
  <2>2. View' = Overlaid(ins, del, Overlaid(NoInserts, {}, MainView))
    BY <2>1 DEF View, Overlaid
  <2> QED BY <1>2, <1>3, <1>5, <2>2
<1>8. CASE Drain(ins, del)
  <2>1. /\ inserts' = NoInserts /\ deletes' = {} /\ MainView' = MainView
        /\ drained_inserts' = ins /\ drained_deletes' = del
    BY <1>8 DEF Drain, MainView
  <2>2. View' = Overlaid(NoInserts, {}, Overlaid(ins, del, MainView))
    BY <2>1 DEF View, Overlaid
  <2> QED BY <1>2, <1>4, <1>5, <2>2
<1> QED BY <1>6, <1>7, <1>8

\* A step of a compaction that finds no id dangling keeps the view.
LEMMA CompactionStep ==
    ASSUME IInv, [Next]_vars, Compacting,
           \A id \in drained_deletes \cup Buffered(drained_inserts) : ~Dangling(id)
    PROVE  \A x \in Ids : View'[x] = View[x] \/ ~Fits(drained_inserts[x])
<1>1. CASE UNCHANGED vars
  BY <1>1 DEF vars, View, Overlaid, MainView
<1>2. CASE Next
  <2>1. PICK id \in Ids : ApplyDelete(id) \/ ApplyInsert(id)
    BY <1>2 DEF Next, BufferDelete, Delete, InnerDelete, BufferInsert, Insert,
                InnerInsert, Update, UpdateRefused, Compact
  <2>2. ~Dangling(id)
    BY <2>1 DEF ApplyDelete, ApplyInsert, Buffered
  <2> QED BY <2>1, <2>2, ApplyView
<1> QED BY <1>1, <1>2

\* A call changes what is held of one id, as long as the maps agree.
LEMMA CallStep ==
    ASSUME IInv, [Next]_vars, ~Compacting, Agree(main)
    PROVE  \/ View' = View
           \/ \E id \in Ids : Changes(id)
<1>1. /\ inserts \in Buffers /\ deletes \in SUBSET Ids
      /\ drained_inserts = NoInserts /\ drained_deletes = {} /\ Well(main)
  BY DEF IInv, TypeOK, Compacting
<1>2. CASE UNCHANGED vars
  BY <1>2 DEF vars, View, Overlaid, MainView
<1>3. CASE Compact
  BY <1>1, <1>3, CallView DEF Compact
<1>4. ASSUME NEW id \in Ids, NEW ins \in Buffers, NEW del,
             Settle(ins, del) \/ Keep(ins, del),
             \A x \in Ids \ {id} : /\ ins[x] = inserts[x]
                                   /\ x \in del <=> x \in deletes
      PROVE  Changes(id)
  <2>1. /\ View = Overlaid(inserts, deletes, MainView)
        /\ View' = Overlaid(ins, del, MainView)
    BY <1>4, CallView
  <2> QED BY <1>4, <2>1 DEF Changes, Overlaid
<1>5. ASSUME NEW id \in Ids, BufferDelete(id) \/ Delete(id)
      PROVE  Changes(id)
  <2> DEFINE ins == WithDelete(inserts, id)  del == DeletesAfterDelete(inserts, deletes, id)
  <2>1. ins \in Buffers /\ (Settle(ins, del) \/ Keep(ins, del))
    BY <1>5, ArgumentTypes DEF BufferDelete, Delete
  <2>2. \A x \in Ids \ {id} : ins[x] = inserts[x] /\ (x \in del <=> x \in deletes)
    BY <1>1 DEF WithDelete, DeletesAfterDelete, Buffers
  <2> HIDE DEF ins, del
  <2> QED BY <1>4, <2>1, <2>2
<1>6. ASSUME NEW id \in Ids, NEW v \in Vecs, BufferInsert(id, v) \/ Insert(id, v)
      PROVE  Changes(id)
  <2> DEFINE ins == WithInsert(inserts, id, v)  del == DeletesAfterInsert(deletes, id)
  <2>1. ins \in Buffers /\ (Settle(ins, del) \/ Keep(ins, del))
    BY <1>6, ArgumentTypes DEF BufferInsert, Insert
  <2>2. \A x \in Ids \ {id} : ins[x] = inserts[x] /\ (x \in del <=> x \in deletes)
    BY <1>1 DEF WithInsert, DeletesAfterInsert, Buffers
  <2> HIDE DEF ins, del
  <2> QED BY <1>4, <2>1, <2>2
<1>7. ASSUME NEW id \in Ids, NEW v \in Vecs, Update(id, v)
      PROVE  Changes(id)
  <2> DEFINE ins == WithInsert(inserts, id, v)
             del == DeletesAfterInsert(DeletesAfterDelete(inserts, deletes, id), id)
  <2>1. ins \in Buffers /\ Settle(ins, del)
    BY <1>7, ArgumentTypes DEF Update
  <2>2. \A x \in Ids \ {id} : ins[x] = inserts[x] /\ (x \in del <=> x \in deletes)
    BY <1>1 DEF WithInsert, DeletesAfterInsert, DeletesAfterDelete, Buffers
  <2> HIDE DEF ins, del
  <2> QED BY <1>4, <2>1, <2>2
<1>8. ASSUME NEW id \in Ids, NEW v \in Vecs, UpdateRefused(id, v)
      PROVE  Changes(id)
  <2> DEFINE ins == WithDelete(inserts, id)  del == DeletesAfterDelete(inserts, deletes, id)
  <2>1. ins \in Buffers /\ Keep(ins, del)
    BY <1>8, ArgumentTypes DEF UpdateRefused
  <2>2. \A x \in Ids \ {id} : ins[x] = inserts[x] /\ (x \in del <=> x \in deletes)
    BY <1>1 DEF WithDelete, DeletesAfterDelete, Buffers
  <2> HIDE DEF ins, del
  <2> QED BY <1>4, <2>1, <2>2
<1>9. ASSUME NEW id \in Ids, InnerDelete(id) \/ \E v \in Vecs : InnerInsert(id, v)
      PROVE  Changes(id)
  <2>1. main.id_map[id] # NoSlot => main.reverse_map[main.id_map[id]] = id
    BY DEF Agree
  <2>2. \A x \in Ids \ {id} : VecIn(main', x) = VecIn(main, x)
    BY <1>1, <1>9, <2>1, RemovedViews, InsertedViews DEF InnerDelete, InnerInsert
  <2>3. UNCHANGED <<inserts, deletes, drained_inserts, drained_deletes>>
    BY <1>9 DEF InnerDelete, InnerInsert
  <2> QED BY <2>2, <2>3 DEF Changes, View, Overlaid, MainView
<1>10. ASSUME NEW id \in Ids, ApplyDelete(id) \/ ApplyInsert(id)
       PROVE  FALSE
  BY <1>1, <1>10 DEF ApplyDelete, ApplyInsert, NoInserts
<1> QED BY <1>2, <1>3, <1>5, <1>6, <1>7, <1>8, <1>9, <1>10 DEF Next

-----------------------------------------------------------------------------
(* The theorems                                                            *)

\* The strengthened invariant holds in every state of every behaviour.
THEOREM Invariance == Spec => []IInv
BY InitInv, StepInv, PTL DEF Spec

\* The coordinator stays well typed, and its main index never holds more
\* slots than there are ids, whatever is refused and deleted in between.
THEOREM TypeCorrect == Spec => []TypeOK
<1>1. IInv => TypeOK
  BY DEF IInv
<1> QED BY <1>1, Invariance, PTL

\* Every node of the main index answers to one id, which leads back to it.
THEOREM NodesNamedAlways == Spec => []NodesNamed
<1>1. IInv => NodesNamed
  BY DEF IInv, Well, NodesNamed
<1> QED BY <1>1, Invariance, PTL

\* No slot of the main index is lost or handed out twice.
THEOREM FreeListExactAlways == Spec => []FreeListExact
<1>1. IInv => FreeListExact
  BY DEF IInv, Well, FreeListExact, Unused, Distinct
<1> QED BY <1>1, Invariance, PTL

\* The maps come apart only where a vector is refused.
THEOREM OnlyRefusalBreaksMapsAlways == Spec => OnlyRefusalBreaksMaps
<1>1. IInv /\ [Next]_vars => (MapsAgree => MapsAgree' \/ RefusedInsert)
  BY StepAgree DEF Agree, MapsAgree
<1> QED BY <1>1, Invariance, PTL DEF Spec, OnlyRefusalBreaksMaps

\* If no vector is refused, every id of the main index leads to a live node of
\* its own, so that a saved index can be loaded.
THEOREM MapsAgreeAlways ==
    ASSUME \A v \in Vecs : Fits(v)
    PROVE  Spec => []MapsAgree
<1>1. Init => IInv /\ Agree(main)
  BY InitInv
<1>2. IInv => ~RefusedInsert
  BY DEF RefusedInsert, ApplyInsert, IInv, TypeOK, Buffers
<1>3. IInv /\ Agree(main) /\ [Next]_vars => (IInv /\ Agree(main))'
  BY <1>2, StepInv, StepAgree
<1>4. Agree(main) => MapsAgree
  BY DEF Agree, MapsAgree
<1> QED BY <1>1, <1>3, <1>4, PTL DEF Spec

\* Compactions keep what the coordinator holds of every id whose vector the
\* main index takes.
THEOREM CompactionKeepsViewAlways == Spec => CompactionKeepsView
<1>1. IInv /\ [Next]_vars =>
          (/\ Compacting
           /\ \A id \in drained_deletes \cup Buffered(drained_inserts) : ~Dangling(id)
           => \A id \in Ids : \/ View'[id] = View[id]
                              \/ ~Fits(drained_inserts[id]))
  BY CompactionStep
<1> QED BY <1>1, Invariance, PTL DEF Spec, CompactionKeepsView

\* A call changes what is held of one id at most, as long as the maps agree.
THEOREM CallsKeepOthersAlways == Spec => CallsKeepOthers
<1>1. IInv /\ [Next]_vars =>
          (~Compacting /\ MapsAgree =>
              \A i, j \in Ids : View'[i] # View[i] /\ View'[j] # View[j] => i = j)
  BY CallStep DEF MapsAgree, Agree, Changes
<1> QED BY <1>1, Invariance, PTL DEF Spec, CallsKeepOthers

-----------------------------------------------------------------------------
(* Search                                                                  *)

Results == [id : Ids, vec : Vecs, side : {0, 1}, dist : Int]

\* Every nonempty set of naturals has a least element: the intervals 0 .. n
\* of its elements are well-founded under strict inclusion.
LEMMA LeastExists ==
    ASSUME NEW S \in SUBSET Nat, S # {}
    PROVE  \E n \in S : \A m \in S : n <= m
<1> DEFINE R == StrictSubsetOrdering(Nat)
           T == {0 .. n : n \in S}
<1>1. IsWellFoundedOn(R, FiniteSubsetsOf(Nat))
  BY FS_StrictSubsetOrderingWellFounded
<1>2. T \subseteq FiniteSubsetsOf(Nat) /\ T # {}
  <2>1. \A n \in S : 0 .. n \in FiniteSubsetsOf(Nat)
    BY FS_Interval DEF FiniteSubsetsOf
  <2> QED BY <2>1
<1>3. PICK t \in T : \A u \in T : ~(<<u, t>> \in R)
  <2> HIDE DEF R, T
  <2> QED BY <1>1, <1>2, WFMin
<1>4. PICK n \in S : t = 0 .. n
  OBVIOUS
<1>5. ASSUME NEW m \in S, ~(n <= m) PROVE FALSE
  <2>1. 0 .. m \in T /\ 0 .. m \subseteq 0 .. n /\ n \in 0 .. n /\ n \notin 0 .. m
    BY <1>5
  <2>2. <<0 .. m, t>> \in R
    BY <2>1, <1>4 DEF StrictSubsetOrdering
  <2> QED BY <1>3, <2>1, <2>2
<1> QED BY <1>5

\* What is nearer than c among some results.
Before(results, c) == {d \in results : Nearer(d, c)}

\* Nearer is a strict order: its ties are broken by id, then by side.
LEMMA NearerOrder ==
    /\ \A c \in Results : ~Nearer(c, c)
    /\ \A c, d, e \in Results : Nearer(c, d) /\ Nearer(d, e) => Nearer(c, e)
<1>1. \A c \in Results : c.dist \in Int /\ c.id \in Int /\ c.side \in {0, 1}
  BY SearchAssumption DEF Results
<1> QED BY <1>1 DEF Nearer

\* Fewer results leave fewer that are nearer.
LEMMA BeforeShrinks ==
    ASSUME NEW S, IsFiniteSet(S), NEW T \in SUBSET S, NEW c
    PROVE  /\ IsFiniteSet(Before(S, c)) /\ IsFiniteSet(Before(T, c))
           /\ Cardinality(Before(S, c)) \in Nat /\ Cardinality(Before(T, c)) \in Nat
           /\ Cardinality(Before(T, c)) <= Cardinality(Before(S, c))
<1>1. Before(S, c) \in SUBSET S /\ Before(T, c) \in SUBSET Before(S, c)
  BY DEF Before
<1>2. IsFiniteSet(Before(S, c))
  BY <1>1, FS_Subset
<1> QED BY <1>1, <1>2, FS_Subset, FS_CardinalityType

\* A result that is not among the n nearest has n of those before it: the
\* nearest of the results that are not among them has only such before it.
LEMMA FullBefore ==
    ASSUME NEW n \in Nat, NEW S \in SUBSET Results, IsFiniteSet(S),
           NEW c \in S, c \notin NearestOf(n, S)
    PROVE  ~(Cardinality(Before(NearestOf(n, S), c)) < n)
<1> DEFINE Far == {d \in S \ NearestOf(n, S) : d = c \/ Nearer(d, c)}
           rank(d) == Cardinality(Before(S, d))
           Ranks == {rank(d) : d \in Far}
<1>1. \A d \in S : rank(d) \in Nat
  BY BeforeShrinks
<1>2. Ranks \in SUBSET Nat /\ Ranks # {}
  <2>1. c \in Far
    OBVIOUS
  <2> QED BY <1>1, <2>1
<1>3. PICK k \in Ranks : \A m \in Ranks : k <= m
  <2> HIDE DEF Ranks
  <2> QED BY <1>2, LeastExists
<1>4. PICK d \in Far : k = rank(d)
  OBVIOUS
<1>5. d \in S /\ d \notin NearestOf(n, S) /\ (d = c \/ Nearer(d, c))
  OBVIOUS
<1>6. \A e \in Before(S, d) : e \in S /\ Nearer(e, d) /\ Nearer(e, c)
  BY <1>5, NearerOrder DEF Before
<1>7. ASSUME NEW e \in Before(S, d), e \notin NearestOf(n, S) PROVE FALSE
  <2>1. e \in Far
    BY <1>6, <1>7
  <2>2. k <= rank(e) /\ rank(e) \in Nat /\ rank(d) \in Nat
    BY <1>1, <1>3, <1>5, <1>6, <2>1
  <2>3. Before(S, e) \in SUBSET Before(S, d) /\ e \notin Before(S, e)
    BY <1>5, <1>6, NearerOrder DEF Before
  <2>4. IsFiniteSet(Before(S, d))
    BY BeforeShrinks
  <2>5. Cardinality(Before(S, e)) <= Cardinality(Before(S, d))
        /\ Cardinality(Before(S, e)) # Cardinality(Before(S, d))
    <3> HIDE DEF Far
    <3>1. Before(S, e) # Before(S, d)
      BY <2>3
    <3> QED BY <2>3, <2>4, <3>1, FS_Subset
  <2> HIDE DEF Ranks, Far
  <2> QED BY <1>4, <2>2, <2>5
<1>8. Before(S, d) \in SUBSET Before(NearestOf(n, S), c)
  BY <1>6, <1>7 DEF Before
<1>9. /\ IsFiniteSet(Before(NearestOf(n, S), c))
      /\ Cardinality(Before(NearestOf(n, S), c)) \in Nat
  <2>1. NearestOf(n, S) \in SUBSET S
    BY DEF NearestOf
  <2> QED BY <2>1, BeforeShrinks
<1>10. Cardinality(Before(S, d)) <= Cardinality(Before(NearestOf(n, S), c))
  BY <1>8, <1>9, FS_Subset
<1>11. ~(Cardinality(Before(S, d)) < n)
  BY <1>5 DEF NearestOf, Before
<1>12. rank(d) \in Nat
  BY <1>1, <1>5
<1> QED BY <1>9, <1>10, <1>11, <1>12

\* Nothing but the n nearest matters: the n nearest of any part that holds
\* them are the n nearest of all.
LEMMA NearestOfPart ==
    ASSUME NEW n \in Nat, NEW S \in SUBSET Results, IsFiniteSet(S), NEW T \in SUBSET S,
           NearestOf(n, S) \subseteq T
    PROVE  NearestOf(n, T) = NearestOf(n, S)
<1>1. ASSUME NEW c \in NearestOf(n, S) PROVE c \in NearestOf(n, T)
  <2>1. c \in T /\ Cardinality(Before(S, c)) < n
    BY <1>1 DEF NearestOf, Before
  <2>2. Cardinality(Before(T, c)) < n
    BY <2>1, BeforeShrinks
  <2> QED BY <2>1, <2>2 DEF NearestOf, Before
<1>2. ASSUME NEW c \in NearestOf(n, T), c \notin NearestOf(n, S) PROVE FALSE
  <2>1. c \in S /\ Cardinality(Before(T, c)) < n
    BY <1>2 DEF NearestOf, Before
  <2>2. ~(Cardinality(Before(NearestOf(n, S), c)) < n)
    BY <1>2, <2>1, FullBefore
  <2>3. IsFiniteSet(T)
    BY FS_Subset
  <2> QED BY <2>1, <2>2, <2>3, BeforeShrinks
<1> QED BY <1>1, <1>2

\* Results with an id each: no two of them answer for one id.
OnePerId(S) == \A r, q \in S : r.id = q.id => r = q

\* There are finitely many of those.
LEMMA OnePerIdFinite ==
    ASSUME NEW S \in SUBSET Results, OnePerId(S)
    PROVE  IsFiniteSet(S)
<1> DEFINE f == [r \in S |-> r.id]
<1>1. f \in [S -> Ids]
  BY DEF Results
<1>2. f \in Injection(S, Ids)
  BY <1>1 DEF Injection, IsInjective, OnePerId
<1> QED BY <1>2, MappedAssumption, FS_Injection

\* What is found in a map by one metric is one result for each of its ids.
LEMMA FoundFacts ==
    ASSUME NEW side \in {0, 1}, NEW map \in Buffers, NEW metric \in Metrics
    PROVE  /\ Found(side, map, metric) \in SUBSET Results
           /\ OnePerId(Found(side, map, metric))
           /\ IsFiniteSet(Found(side, map, metric))
           /\ \A r \in Found(side, map, metric) : map[r.id] # Missing
<1>1. \A id \in Ids : map[id] # Missing => map[id] \in Vecs /\ Distance[metric][map[id]] \in Int
  BY SearchAssumption DEF Buffers
<1>2. Found(side, map, metric) \in SUBSET Results
  BY <1>1 DEF Found, Results
<1>3. OnePerId(Found(side, map, metric))
  BY DEF OnePerId, Found
<1>4. \A r \in Found(side, map, metric) : map[r.id] # Missing
  BY DEF Found
<1> QED BY <1>2, <1>3, <1>4, OnePerIdFinite

\* Nothing comes after another result of its id if no id has two.
LEMMA FirstOfOne ==
    ASSUME NEW S \in SUBSET Results, OnePerId(S)
    PROVE  FirstOfEachId(S) = S
BY NearerOrder DEF FirstOfEachId, OnePerId

\* The nearest of a few are among the nearest of more, and so is the first of
\* each id.
LEMMA NearestGrow ==
    ASSUME NEW S \in SUBSET Results, IsFiniteSet(S), NEW k \in Nat, NEW n \in 0 .. k
    PROVE  FirstOfEachId(NearestOf(n, S)) \subseteq FirstOfEachId(NearestOf(k, S))
<1> SUFFICES ASSUME NEW r \in FirstOfEachId(NearestOf(n, S))
             PROVE  r \in FirstOfEachId(NearestOf(k, S))
  OBVIOUS
<1>1. r \in S /\ Cardinality(Before(S, r)) < n /\ Cardinality(Before(S, r)) \in Nat
  BY BeforeShrinks DEF FirstOfEachId, NearestOf, Before
<1>2. r \in NearestOf(k, S)
  BY <1>1 DEF NearestOf, Before
<1>3. ASSUME NEW q \in NearestOf(k, S), q.id = r.id, Nearer(q, r) PROVE FALSE
  <2>1. q \in S
    BY DEF NearestOf
  <2>2. Before(S, q) \in SUBSET Before(S, r)
    BY <1>1, <1>3, <2>1, NearerOrder DEF Before
  <2>3. IsFiniteSet(Before(S, r)) /\ Cardinality(Before(S, q)) \in Nat
    BY BeforeShrinks
  <2>4. Cardinality(Before(S, q)) <= Cardinality(Before(S, r))
    BY <2>2, <2>3, FS_Subset
  <2>5. q \in NearestOf(n, S)
    BY <1>1, <2>1, <2>3, <2>4 DEF NearestOf, Before
  <2> QED BY <1>3, <2>5 DEF FirstOfEachId
<1> QED BY <1>2, <1>3 DEF FirstOfEachId

\* No id is buffered and to be deleted from the main index at once.
NotBoth == \A id \in deletes : inserts[id] = Missing

\* The calls keep those two apart.
LEMMA NotBothStep == IInv /\ NotBoth /\ [Next]_vars => NotBoth'
<1> SUFFICES ASSUME IInv, NotBoth, [Next]_vars PROVE NotBoth'
  OBVIOUS
<1>1. inserts \in Buffers /\ deletes \in SUBSET Ids /\ \A id \in deletes : inserts[id] = Missing
  BY DEF IInv, TypeOK, NotBoth
<1>2. ASSUME NEW ins, NEW del, \A id \in del : ins[id] = Missing,
             Settle(ins, del) \/ Keep(ins, del)
      PROVE  NotBoth'
  BY <1>2 DEF Settle, Keep, Drain, NotBoth
<1>3. CASE UNCHANGED <<inserts, deletes>> \/ Compact
  BY <1>1, <1>3 DEF Compact, Drain, NotBoth
<1>4. ASSUME NEW id \in Ids
      PROVE  /\ \A v \in Vecs : \A x \in DeletesAfterInsert(deletes, id) :
                   WithInsert(inserts, id, v)[x] = Missing
             /\ \A x \in DeletesAfterDelete(inserts, deletes, id) :
                   WithDelete(inserts, id)[x] = Missing
             /\ \A v \in Vecs :
                   \A x \in DeletesAfterInsert(DeletesAfterDelete(inserts, deletes, id), id) :
                      WithInsert(inserts, id, v)[x] = Missing
  BY <1>1 DEF DeletesAfterInsert, DeletesAfterDelete, WithInsert, WithDelete, Buffers
<1>5. ASSUME NEW id \in Ids, NEW v \in Vecs,
             BufferInsert(id, v) \/ Insert(id, v) \/ Update(id, v) \/ UpdateRefused(id, v)
      PROVE  NotBoth'
  BY <1>2, <1>4, <1>5 DEF BufferInsert, Insert, Update, UpdateRefused
<1>6. ASSUME NEW id \in Ids, BufferDelete(id) \/ Delete(id)
      PROVE  NotBoth'
  BY <1>2, <1>4, <1>6 DEF BufferDelete, Delete
<1>7. ASSUME NEW id \in Ids,
             \/ InnerDelete(id) \/ ApplyDelete(id) \/ ApplyInsert(id)
             \/ \E v \in Vecs : InnerInsert(id, v)
      PROVE  UNCHANGED <<inserts, deletes>>
  BY <1>7 DEF InnerDelete, ApplyDelete, ApplyInsert, InnerInsert
<1>8. CASE UNCHANGED vars
  BY <1>3, <1>8 DEF vars
<1> QED BY <1>3, <1>5, <1>6, <1>7, <1>8 DEF Next

\* The maps that a search reads, and what it finds in them.
LEMMA SearchedFacts ==
    ASSUME IInv, NEW c \in Configs
    PROVE  /\ inserts \in Buffers /\ MainView \in Buffers /\ deletes \in SUBSET Ids
           /\ c.distance_metric \in Metrics
           /\ Shown \in SUBSET Results /\ OnePerId(Shown) /\ IsFiniteSet(Shown)
           /\ Copies(c) \in SUBSET Results /\ IsFiniteSet(Copies(c))
           /\ Hidden \in Nat /\ K \in Nat
<1>1. /\ MainView \in Buffers /\ inserts \in Buffers /\ deletes \in SUBSET Ids
      /\ c.distance_metric \in Metrics
  BY DEF MainView, VecIn, IInv, Well, MainType, TypeOK, Buffers, Configs
<1> DEFINE M == Found(1, MainView, L2)
           B == Found(0, inserts, c.distance_metric)
<1>2. /\ M \in SUBSET Results /\ OnePerId(M) /\ IsFiniteSet(M)
      /\ B \in SUBSET Results /\ IsFiniteSet(B)
  BY <1>1, FoundFacts, SearchAssumption
<1>3. Shown \in SUBSET M
  BY DEF Shown
<1> HIDE DEF M, B
<1>4. Shown \in SUBSET Results /\ OnePerId(Shown) /\ IsFiniteSet(Shown)
  BY <1>2, <1>3, FS_Subset DEF OnePerId
<1>5. IsFiniteSet(Shown \cup B) /\ Shown \cup B \in SUBSET Results
  BY <1>2, <1>4, FS_Union
<1>6. Copies(c) \in SUBSET (Shown \cup B)
  BY DEF Copies, B
<1>7. Copies(c) \in SUBSET Results /\ IsFiniteSet(Copies(c))
  BY <1>5, <1>6, FS_Subset
<1>8. Hidden \in Nat
  <2>1. {id \in deletes : MainView[id] # Missing} \in SUBSET Ids
    BY <1>1
  <2> QED BY <2>1, MappedAssumption, FS_Subset, FS_CardinalityType DEF Hidden
<1> QED BY <1>1, <1>4, <1>7, <1>8, SearchAssumption

\* Deleted ids take no more places in the main answer than were asked for in
\* excess, so the n nearest of what is left are all there.
LEMMA ExcessSuffices ==
    ASSUME IInv, NEW n \in Nat, NEW m \in Nat, NEW r \in NearestOf(n, Shown),
           n + Hidden <= m
    PROVE  r \in NearestOf(m, Found(1, MainView, L2))
<1> DEFINE M == Found(1, MainView, L2)
           HiddenIds == {id \in deletes : MainView[id] # Missing}
           Dead == {q \in M : q.id \in deletes}
<1>1. MainView \in Buffers /\ deletes \in SUBSET Ids
  BY DEF MainView, VecIn, IInv, Well, MainType, TypeOK, Buffers
<1>2. M \in SUBSET Results /\ OnePerId(M) /\ IsFiniteSet(M)
  BY <1>1, FoundFacts, SearchAssumption
<1>3. \A q \in M : q.id \in Ids /\ MainView[q.id] # Missing
  BY DEF Found
<1>4. r \in M /\ Cardinality(Before(Shown, r)) < n
  BY DEF NearestOf, Shown, Before
<1>5. HiddenIds \in SUBSET Ids /\ IsFiniteSet(HiddenIds) /\ Cardinality(HiddenIds) \in Nat
  BY <1>1, MappedAssumption, FS_Subset, FS_CardinalityType
<1> DEFINE f == [q \in Dead |-> q.id]
<1>6. IsFiniteSet(Dead) /\ Cardinality(Dead) \in Nat
  <2>1. Dead \in SUBSET M
    OBVIOUS
  <2> HIDE DEF Dead, M
  <2> QED BY <1>2, <2>1, FS_Subset, FS_CardinalityType
<1>7. Cardinality(Dead) <= Cardinality(HiddenIds)
  <2>1. \A q \in Dead : q.id \in HiddenIds
    BY <1>3
  <2>2. \A p, q \in Dead : p.id = q.id => p = q
    BY <1>2 DEF OnePerId
  <2> HIDE DEF Dead, HiddenIds
  <2>3. f \in Injection(Dead, HiddenIds)
    BY <2>1, <2>2 DEF Injection, IsInjective
  <2> HIDE DEF f
  <2> QED BY <1>5, <2>3, FS_Injection
<1>8. Before(M, r) \in SUBSET (Before(Shown, r) \cup Dead)
  BY DEF Before, Shown
<1>9. /\ IsFiniteSet(Before(Shown, r)) /\ Cardinality(Before(Shown, r)) \in Nat
      /\ IsFiniteSet(Before(M, r)) /\ Cardinality(Before(M, r)) \in Nat
  <2>1. Shown \in SUBSET M
    BY DEF Shown
  <2> HIDE DEF M
  <2> QED BY <1>2, <2>1, BeforeShrinks
<1> HIDE DEF M, Dead, HiddenIds, f
<1>10. Cardinality(Before(Shown, r) \cup Dead) <= Cardinality(Before(Shown, r)) + Cardinality(Dead)
  <2>1. Before(Shown, r) \cap Dead \in SUBSET Dead
    OBVIOUS
  <2>2. Cardinality(Before(Shown, r) \cap Dead) \in Nat
    BY <1>6, <2>1, FS_Subset, FS_CardinalityType
  <2>3. Cardinality(Before(Shown, r) \cup Dead)
          = Cardinality(Before(Shown, r)) + Cardinality(Dead) - Cardinality(Before(Shown, r) \cap Dead)
    BY <1>6, <1>9, FS_Union
  <2> QED BY <1>6, <1>9, <2>2, <2>3
<1>11. Cardinality(Before(M, r)) <= Cardinality(Before(Shown, r) \cup Dead)
       /\ Cardinality(Before(Shown, r) \cup Dead) \in Nat
  BY <1>6, <1>8, <1>9, FS_Union, FS_Subset, FS_CardinalityType
<1>12. Cardinality(Before(M, r)) < m
  <2>1. n + Cardinality(HiddenIds) <= m
    BY DEF Hidden, HiddenIds
  <2> QED BY <1>4, <1>5, <1>6, <1>7, <1>9, <1>10, <1>11, <2>1
<1> QED BY <1>4, <1>12 DEF NearestOf, Before, M

\* What a search cuts to K and rids of repetitions: a part of the copies, which
\* holds the n nearest of them if it was fetched with room for the hidden.
Candidates(c) == MainResults(c) \cup (IF Merging(c) THEN BufferResults(c) ELSE {})

LEMMA CandidatesSuffice ==
    ASSUME IInv, NotBoth, NEW c \in Configs, NEW n \in 0 .. K, n + Hidden <= Fetched(c)
    PROVE  /\ Candidates(c) \in SUBSET Copies(c)
           /\ NearestOf(n, Copies(c)) \subseteq Candidates(c)
<1> DEFINE B == Found(0, inserts, c.distance_metric)
           S == Copies(c)
<1>0. /\ S \in SUBSET Results /\ IsFiniteSet(S) /\ Shown \in SUBSET S
      /\ Hidden \in Nat /\ K \in Nat /\ n \in Nat /\ n <= K /\ Fetched(c) \in Nat
  <2>1. S \in SUBSET Results /\ IsFiniteSet(S) /\ Hidden \in Nat /\ K \in Nat
    BY SearchedFacts
  <2>2. Shown \in SUBSET S
    BY DEF Copies
  <2>3. Fetched(c) \in Nat
    BY <2>1 DEF Fetched
  <2> QED BY <2>1, <2>2, <2>3
<1>1. {r \in B : r.id \notin deletes} = B
  BY DEF Found, NotBoth
<1>2. BufferResults(c) = NearestOf(K, B)
  BY <1>1 DEF BufferResults
<1>3. Candidates(c) \in SUBSET S
  BY <1>2 DEF Candidates, MainResults, NearestOf, Shown, Copies
<1> HIDE DEF B
<1>4. ASSUME NEW r \in NearestOf(n, S), r \in Shown PROVE r \in Candidates(c)
  <2>1. r \in S /\ Cardinality(Before(S, r)) < n
    BY <1>4 DEF NearestOf, Before
  <2> HIDE DEF S
  <2>2. Cardinality(Before(Shown, r)) < n
    BY <1>0, <2>1, BeforeShrinks
  <2>3. r \in NearestOf(n, Shown)
    BY <1>4, <2>2 DEF NearestOf, Before
  <2>4. r \in NearestOf(Fetched(c), Found(1, MainView, L2))
    BY <1>0, <2>3, ExcessSuffices
  <2> QED BY <1>4, <2>4 DEF Candidates, MainResults, Shown
<1>5. ASSUME NEW r \in NearestOf(n, S), r \notin Shown PROVE r \in Candidates(c)
  <2>1. r \in S /\ Cardinality(Before(S, r)) < n
    BY <1>5 DEF NearestOf, Before
  <2>2. Merging(c) /\ r \in B /\ B \in SUBSET S
    BY <1>5, <2>1 DEF Copies, B
  <2> HIDE DEF S
  <2>3. Cardinality(Before(B, r)) < K
    BY <1>0, <2>1, <2>2, BeforeShrinks
  <2> QED BY <1>2, <2>2, <2>3 DEF Candidates, NearestOf, Before
<1> QED BY <1>3, <1>4, <1>5

\* What a search answers, in terms of its candidates.
LEMMA SearchOfCandidates ==
    ASSUME NEW c \in Configs
    PROVE  Search(c) = IF Merging(c) THEN FirstOfEachId(NearestOf(K, Candidates(c)))
                                     ELSE Candidates(c)
<1>1. CASE Merging(c)
  <2>1. BufferResults(c) \cup MainResults(c) = Candidates(c)
    BY <1>1 DEF Candidates
  <2> QED BY <1>1, <2>1 DEF Search
<1>2. CASE ~Merging(c)
  BY <1>2 DEF Search, Candidates
<1> QED BY <1>1, <1>2

\* Each hidden vector costs at most one place.
LEMMA NearestAnswered ==
    ASSUME IInv, NotBoth, NEW c \in Configs, NEW n \in 0 .. K, n + Hidden <= Fetched(c)
    PROVE  FirstOfEachId(NearestOf(n, Copies(c))) \subseteq Search(c)
<1>0. Copies(c) \in SUBSET Results /\ IsFiniteSet(Copies(c)) /\ K \in Nat /\ n \in Nat
  BY SearchedFacts
<1>1. Candidates(c) \in SUBSET Copies(c) /\ NearestOf(n, Copies(c)) \subseteq Candidates(c)
  BY CandidatesSuffice
<1>2. CASE Merging(c)
  <2>1. NearestOf(n, Candidates(c)) = NearestOf(n, Copies(c))
    BY <1>0, <1>1, NearestOfPart
  <2>2. Candidates(c) \in SUBSET Results /\ IsFiniteSet(Candidates(c))
    BY <1>0, <1>1, FS_Subset
  <2>3. FirstOfEachId(NearestOf(n, Candidates(c))) \subseteq FirstOfEachId(NearestOf(K, Candidates(c)))
    BY <1>0, <2>2, NearestGrow
  <2> QED BY <1>2, <2>1, <2>3, SearchOfCandidates
<1>3. CASE ~Merging(c)
  BY <1>1, <1>3, SearchOfCandidates DEF FirstOfEachId
<1> QED BY <1>2, <1>3

\* With room for all that is hidden, the answer is the K nearest copies.
LEMMA AllAnswered ==
    ASSUME IInv, NotBoth, NEW c \in Configs, K + Hidden <= Fetched(c)
    PROVE  Search(c) = FirstOfEachId(NearestOf(K, Copies(c)))
<1>0. /\ Copies(c) \in SUBSET Results /\ IsFiniteSet(Copies(c)) /\ K \in Nat /\ K \in 0 .. K
      /\ Shown \in SUBSET Results /\ OnePerId(Shown) /\ Hidden \in Nat
      /\ MainView \in Buffers
  BY SearchedFacts
<1>1. Candidates(c) \in SUBSET Copies(c) /\ NearestOf(K, Copies(c)) \subseteq Candidates(c)
  BY <1>0, CandidatesSuffice
<1>2. CASE Merging(c)
  BY <1>0, <1>1, <1>2, NearestOfPart, SearchOfCandidates
<1>3. CASE ~Merging(c)
  <2> DEFINE M == Found(1, MainView, L2)
  <2>1. Copies(c) = Shown /\ Fetched(c) = K
    BY <1>3 DEF Copies, Fetched
  <2>2. ASSUME NEW r \in Candidates(c) PROVE r \in NearestOf(K, Shown)
    <3>1. r \in NearestOf(K, M) /\ r \in Shown
      BY <1>3, <2>1, <2>2 DEF Candidates, MainResults, Shown, NearestOf
    <3>2. IsFiniteSet(M)
      BY <1>0, FoundFacts, SearchAssumption
    <3>3. Shown \in SUBSET M /\ Cardinality(Before(M, r)) < K
      BY <3>1 DEF Shown, NearestOf, Before
    <3> HIDE DEF M
    <3>4. Cardinality(Before(Shown, r)) < K
      BY <1>0, <3>2, <3>3, BeforeShrinks
    <3> QED BY <3>1, <3>4 DEF NearestOf, Before
  <2>3. Search(c) = NearestOf(K, Shown)
    BY <1>1, <1>3, <2>1, <2>2, SearchOfCandidates
  <2>4. NearestOf(K, Shown) \in SUBSET Results /\ OnePerId(NearestOf(K, Shown))
    BY <1>0 DEF NearestOf, OnePerId
  <2> QED BY <2>1, <2>3, <2>4, FirstOfOne
<1> QED BY <1>2, <1>3

\* The invariant gives what a search between compactions finds.
LEMMA InvSearch == IInv /\ NotBoth => SearchExact
<1> SUFFICES ASSUME IInv, NotBoth, ~Compacting, NEW c \in Configs
             PROVE  /\ \A n \in 1 .. K : n + Hidden <= Fetched(c) =>
                          FirstOfEachId(NearestOf(n, Copies(c))) \subseteq Search(c)
                    /\ K + Hidden <= Fetched(c) =>
                          /\ Search(c) = FirstOfEachId(NearestOf(K, Copies(c)))
                          /\ Buffered(inserts) = {} =>
                                Search(c) = NearestOf(K, Found(1, View, L2))
                          /\ Merging(c) /\ Shown = {} =>
                                Search(c) = NearestOf(K, Found(0, View, c.distance_metric))
  BY DEF SearchExact
<1>1. /\ inserts \in Buffers /\ MainView \in Buffers /\ deletes \in SUBSET Ids
      /\ c.distance_metric \in Metrics /\ K \in Nat
      /\ Shown \in SUBSET Results /\ OnePerId(Shown)
  BY SearchedFacts
<1>2. View = Overlaid(inserts, deletes, MainView)
  BY QuietView
<1>3. ASSUME NEW n \in 1 .. K, n + Hidden <= Fetched(c)
      PROVE  FirstOfEachId(NearestOf(n, Copies(c))) \subseteq Search(c)
  BY <1>1, <1>3, NearestAnswered
<1> SUFFICES ASSUME K + Hidden <= Fetched(c)
             PROVE  /\ Buffered(inserts) = {} =>
                          Search(c) = NearestOf(K, Found(1, View, L2))
                    /\ Merging(c) /\ Shown = {} =>
                          Search(c) = NearestOf(K, Found(0, View, c.distance_metric))
  BY <1>3, AllAnswered
<1>4. Search(c) = FirstOfEachId(NearestOf(K, Copies(c)))
  BY AllAnswered
<1>5. ASSUME Buffered(inserts) = {} PROVE Search(c) = NearestOf(K, Found(1, View, L2))
  <2>1. Copies(c) = Shown
    BY <1>5 DEF Copies, Merging
  <2>2. \A id \in Ids : View[id] = IF id \in deletes THEN Missing ELSE MainView[id]
    BY <1>2, <1>5 DEF Overlaid, Buffered
  <2>3. Shown = Found(1, View, L2)
    BY <2>2 DEF Shown, Found
  <2>4. NearestOf(K, Shown) \in SUBSET Results /\ OnePerId(NearestOf(K, Shown))
    BY <1>1 DEF NearestOf, OnePerId
  <2> QED BY <1>4, <2>1, <2>3, <2>4, FirstOfOne
<1>6. ASSUME Merging(c), Shown = {}
      PROVE  Search(c) = NearestOf(K, Found(0, View, c.distance_metric))
  <2>1. Copies(c) = Found(0, inserts, c.distance_metric)
    BY <1>6 DEF Copies
  <2>2. \A id \in Ids \ deletes : MainView[id] = Missing
    <3> SUFFICES ASSUME NEW id \in Ids \ deletes, MainView[id] # Missing PROVE FALSE
      OBVIOUS
    <3> DEFINE found == [id |-> id, vec |-> MainView[id], side |-> 1,
                         dist |-> Distance[L2][MainView[id]]]
    <3>1. found \in Found(1, MainView, L2)
      BY DEF Found
    <3>2. found.id \notin deletes
      OBVIOUS
    <3> QED BY <1>6, <3>1, <3>2 DEF Shown
  <2>3. View = inserts
    BY <1>1, <1>2, <2>2 DEF Overlaid, NotBoth, Buffers
  <2>4. /\ Found(0, inserts, c.distance_metric) \in SUBSET Results
        /\ OnePerId(Found(0, inserts, c.distance_metric))
    BY <1>1, FoundFacts
  <2>5. /\ NearestOf(K, Copies(c)) \in SUBSET Results
        /\ OnePerId(NearestOf(K, Copies(c)))
    BY <2>1, <2>4 DEF NearestOf, OnePerId
  <2> QED BY <1>4, <2>1, <2>3, <2>5, FirstOfOne
<1> QED BY <1>5, <1>6

\* Between compactions, a search whose metric is the one the main index reports
\* finds the nearest of the copies in buffer and main index, each id once, with
\* at most one place lost for each hidden vector over those fetched in excess.
THEOREM SearchExactAlways == Spec => []SearchExact
<1>1. Init => NotBoth
  BY DEF Init, NotBoth
<1> QED BY <1>1, NotBothStep, InvSearch, Invariance, PTL DEF Spec
=============================================================================
