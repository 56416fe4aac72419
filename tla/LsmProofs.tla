----------------------------- MODULE LsmProofs -----------------------------
(***************************************************************************)
(* Proofs about LsmIndex and LsmSnapshot, for any ids, vectors, capacities *)
(* and number of levels: types, LiveLevelsAgree, that the index implements *)
(* a map and answers a search exactly, and that a finished save can be     *)
(* loaded and restores what was saved.                                     *)
(***************************************************************************)
EXTENDS LsmSnapshot, TLAPS, FiniteSetTheorems, WellFoundedInduction

-----------------------------------------------------------------------------
(* The inductive invariant                                                 *)

\* A deleted id is not live; every other stored id is live at a level no
\* deeper than any of its copies.
NewestAbove ==
    /\ \A id \in tombstones : live_level[id] = None
    /\ \A i \in LevelIdx : \A c \in levels[i] :
          c.id \notin tombstones =>
              live_level[c.id] \in LevelIdx /\ live_level[c.id] <= i

\* An id that is stored anywhere and is live is stored at its live level.
LiveStored ==
    \A i \in LevelIdx : \A c \in levels[i] :
        live_level[c.id] # None =>
            \E d \in levels[live_level[c.id]] : d.id = c.id

IInv == TypeOK /\ OneCopyPerLevel /\ NewestAbove /\ LiveStored

\* The numbers of the levels, and where a cascade may reach.
LEMMA LevelFacts ==
    /\ Deepest \in Nat \ {0} /\ MaxLevels - 1 <= Deepest
    /\ 0 \in LevelIdx /\ 1 \in LevelIdx
    /\ \A i \in LevelIdx : i \in Int /\ i # None
    /\ \A i \in LevelIdx : i < MaxLevels - 1 => i + 1 \in LevelIdx
BY LsmAssumption DEF Deepest, LevelIdx

-----------------------------------------------------------------------------
(* Types                                                                   *)

\* A merge puts stored copies into its target.
LEMMA MergedType ==
    ASSUME TypeOK, NEW i \in LevelIdx, i + 1 \in LevelIdx
    PROVE  Merged(i) \in SUBSET Copies
BY DEF TypeOK, Merged, LiveCopies

\* merge_into_level keeps the types of what it writes.
LEMMA MergeIntoType ==
    ASSUME TypeOK, NEW i \in LevelIdx, i + 1 \in LevelIdx, MergeInto(i)
    PROVE  /\ levels' \in [LevelIdx -> SUBSET Copies]
           /\ tombstones' \in SUBSET Ids
           /\ live_level' \in [Ids -> LevelIdx \cup {None}]
           /\ phase' \in Phases
<1>1. Merged(i) \in SUBSET Copies
  BY MergedType
<1>2. levels' \in [LevelIdx -> SUBSET Copies]
  <2> DEFINE M == Merged(i)
  <2>1. levels' = [levels EXCEPT ![i + 1] = M, ![i] = {}]
    BY DEF MergeInto
  <2>2. M \in SUBSET Copies /\ levels \in [LevelIdx -> SUBSET Copies]
    BY <1>1 DEF TypeOK
  <2> HIDE DEF M
  <2> QED BY <2>1, <2>2
<1>3. live_level' \in [Ids -> LevelIdx \cup {None}]
  BY DEF MergeInto, TypeOK
<1> QED BY <1>2, <1>3 DEF MergeInto, TypeOK, Phases

\* Every step of every call keeps the types.
LEMMA TypeStep == TypeOK /\ [Next]_lsmVars => TypeOK'
<1> SUFFICES ASSUME TypeOK, [Next]_lsmVars PROVE TypeOK'
  OBVIOUS
<1>1. ASSUME NEW id \in Ids, NEW v \in Vecs, Insert(id, v) PROVE TypeOK'
  <2>1. levels' \in [LevelIdx -> SUBSET Copies]
    <3> DEFINE L == {c \in levels[0] : c.id # id} \cup {[id |-> id, vec |-> v]}
    <3>1. levels[0] \in SUBSET Copies /\ [id |-> id, vec |-> v] \in Copies
      BY LevelFacts DEF TypeOK, Copies
    <3>2. L \in SUBSET Copies
      BY <3>1
    <3>3. levels' = [levels EXCEPT ![0] = L] /\ levels \in [LevelIdx -> SUBSET Copies]
      BY <1>1 DEF Insert, TypeOK
    <3> HIDE DEF L
    <3> QED BY <3>2, <3>3
  <2>2. live_level' \in [Ids -> LevelIdx \cup {None}]
    BY <1>1, LevelFacts DEF Insert, TypeOK
  <2> QED BY <1>1, <2>1, <2>2 DEF Insert, TypeOK, Phases, AfterInsert
<1>2. ASSUME NEW id \in Ids, Delete(id) PROVE TypeOK'
  BY <1>2 DEF Delete, TypeOK
<1>3. CASE Compact
  BY <1>3 DEF Compact, TypeOK, Phases
<1>4. CASE CompactL0
  <2>1. depth' \in 1 .. Deepest + 1
    BY <1>4, LevelFacts DEF CompactL0, TypeOK
  <2>2. CASE MergeInto(0)
    BY <2>1, <2>2, MergeIntoType, LevelFacts DEF TypeOK
  <2>3. CASE UNCHANGED <<levels, tombstones, live_level>> /\ phase' = Idle
    BY <2>1, <2>3 DEF TypeOK, Phases
  <2> QED BY <1>4, <2>2, <2>3 DEF CompactL0
<1>5. ASSUME NEW i \in LevelIdx, CascadeCompact(i) PROVE TypeOK'
  <2>1. CASE ShouldCompact(i) /\ MergeInto(i)
    <3>1. i + 1 \in LevelIdx /\ i \in Nat /\ i + 2 <= Deepest + 1
      BY <2>1, LevelFacts, LsmAssumption DEF ShouldCompact, LevelIdx, Deepest
    <3>2. depth' \in 1 .. Deepest + 1
      BY <1>5, <2>1, <3>1 DEF CascadeCompact, TypeOK
    <3> QED BY <2>1, <3>1, <3>2, MergeIntoType DEF TypeOK
  <2>2. CASE UNCHANGED <<levels, depth, tombstones, live_level>> /\ phase' = Idle
    BY <2>2 DEF TypeOK, Phases
  <2> QED BY <1>5, <2>1, <2>2 DEF CascadeCompact
<1>6. CASE ForceMergeAll
  <2>1. AllLive \in SUBSET Copies
    BY DEF AllLive, LiveCopies, TypeOK
  <2>2. levels' \in [LevelIdx -> SUBSET Copies]
    BY <1>6, <2>1 DEF ForceMergeAll
  <2>3. live_level' \in [Ids -> LevelIdx \cup {None}]
    BY <1>6, LevelFacts DEF ForceMergeAll, TypeOK
  <2>4. depth' \in 1 .. Deepest + 1
    BY <1>6, LevelFacts DEF ForceMergeAll
  <2> QED BY <1>6, <2>2, <2>3, <2>4 DEF ForceMergeAll, TypeOK
<1>7. CASE UNCHANGED lsmVars
  BY <1>7 DEF lsmVars, TypeOK
<1> QED BY <1>1, <1>2, <1>3, <1>4, <1>5, <1>6, <1>7 DEF Next, InCall

-----------------------------------------------------------------------------
(* The invariant is inductive                                              *)

\* A new index satisfies the invariant.
LEMMA InitInv == Init => IInv
<1> SUFFICES ASSUME Init PROVE IInv
  OBVIOUS
<1>1. TypeOK
  BY LevelFacts DEF Init, TypeOK, Phases
<1>2. OneCopyPerLevel /\ NewestAbove /\ LiveStored
  BY DEF Init, OneCopyPerLevel, NewestAbove, LiveStored
<1> QED BY <1>1, <1>2 DEF IInv

\* The copy of an id that is live is the only one, so a merge keeps one copy
\* of each id.
LEMMA OneLiveCopy ==
    ASSUME IInv, NEW c \in AllLive, NEW d \in AllLive, c.id = d.id
    PROVE  c = d
<1>1. PICK i \in LevelIdx : c \in levels[i] /\ live_level[c.id] = i
  BY DEF AllLive, LiveCopies
<1>2. PICK j \in LevelIdx : d \in levels[j] /\ live_level[d.id] = j
  BY DEF AllLive, LiveCopies
<1> QED BY <1>1, <1>2 DEF IInv, OneCopyPerLevel

\* merge_into_level drops superseded copies only: it keeps the invariant and
\* the set of live copies.
LEMMA MergeIntoInv ==
    ASSUME IInv, NEW i \in LevelIdx, i + 1 \in LevelIdx, MergeInto(i)
    PROVE  /\ OneCopyPerLevel' /\ NewestAbove' /\ LiveStored'
           /\ AllLive' = AllLive
<1> DEFINE M == Merged(i)
<1>1. /\ M \subseteq AllLive
      /\ \A c \in M : c \in Copies /\ c.id \in Ids
      /\ \A c \in Copies : c \in M <=>
             \/ c \in levels[i] /\ live_level[c.id] = i
             \/ c \in levels[i + 1] /\ live_level[c.id] = i + 1
  BY DEF Merged, LiveCopies, AllLive, IInv, TypeOK, Copies
<1>2. /\ levels' = [levels EXCEPT ![i + 1] = M, ![i] = {}]
      /\ levels \in [LevelIdx -> SUBSET Copies]
      /\ tombstones' = tombstones
      /\ live_level' = [id \in Ids |-> IF id \in IdsOf(M) THEN i + 1 ELSE live_level[id]]
  BY DEF MergeInto, IInv, TypeOK
<1> HIDE DEF M
<1>3. /\ levels'[i + 1] = M /\ levels'[i] = {}
      /\ \A j \in LevelIdx \ {i, i + 1} : levels'[j] = levels[j]
  BY <1>2, LevelFacts
<1>4. \A id \in Ids :
          /\ id \in IdsOf(M) => live_level'[id] = i + 1
          /\ id \notin IdsOf(M) => live_level'[id] = live_level[id]
  BY <1>2
<1>5. \A c \in M : c.id \in IdsOf(M) /\ live_level[c.id] \in {i, i + 1}
  BY <1>1 DEF IdsOf
<1>6. \A id \in IdsOf(M) : id \in Ids /\ live_level[id] \in {i, i + 1}
  BY <1>1, <1>5 DEF IdsOf
<1>7. OneCopyPerLevel'
  <2>1. \A c, d \in M : c.id = d.id => c = d
    BY <1>1, OneLiveCopy
  <2> QED BY <1>3, <2>1 DEF IInv, OneCopyPerLevel
<1>8. \A j \in LevelIdx : \A c \in levels'[j] : c \in Copies /\ c.id \in Ids
  BY <1>1, <1>3 DEF IInv, TypeOK, Copies
<1>9. NewestAbove'
  <2>1. \A id \in tombstones : live_level'[id] = None
    BY <1>4, <1>6, LevelFacts DEF IInv, NewestAbove, TypeOK
  <2>2. ASSUME NEW j \in LevelIdx, NEW c \in levels'[j], c.id \notin tombstones
        PROVE  live_level'[c.id] \in LevelIdx /\ live_level'[c.id] <= j
    <3>1. CASE j = i + 1
      BY <1>3, <1>4, <1>5, <1>8, <2>2, <3>1, LevelFacts
    <3>2. CASE j # i + 1
      <4>1. j # i /\ c \in levels[j]
        BY <1>3, <2>2, <3>2
      <4>2. live_level[c.id] \in LevelIdx /\ live_level[c.id] <= j
        BY <2>2, <4>1 DEF IInv, NewestAbove
      <4> QED BY <1>4, <1>6, <1>8, <2>2, <3>2, <4>1, <4>2, LevelFacts
    <3> QED BY <3>1, <3>2
  <2> QED BY <1>2, <2>1, <2>2 DEF NewestAbove
<1>10. LiveStored'
  <2> SUFFICES ASSUME NEW j \in LevelIdx, NEW c \in levels'[j],
                      live_level'[c.id] # None
               PROVE  \E d \in levels'[live_level'[c.id]] : d.id = c.id
    BY DEF LiveStored
  <2>1. CASE c.id \in IdsOf(M)
    BY <1>3, <1>4, <1>8, <2>1 DEF IdsOf
  <2>2. CASE c.id \notin IdsOf(M)
    <3>1. live_level'[c.id] = live_level[c.id] /\ j \notin {i, i + 1} /\ c \in levels[j]
      BY <1>3, <1>4, <1>5, <1>8, <2>2
    <3>2. PICK d \in levels[live_level[c.id]] : d.id = c.id
      BY <3>1 DEF IInv, LiveStored
    <3>3. live_level[c.id] \in LevelIdx
      BY <1>8, <3>1 DEF IInv, TypeOK
    <3>4. d \in Copies
      BY <3>2, <3>3 DEF IInv, TypeOK
    <3>5. live_level[c.id] \notin {i, i + 1}
      BY <1>1, <1>5, <2>2, <3>2, <3>4
    <3> QED BY <1>3, <3>1, <3>2, <3>3, <3>5
  <2> QED BY <2>1, <2>2
<1>11. AllLive' = AllLive
  <2>1. ASSUME NEW c \in AllLive PROVE c \in AllLive'
    <3>1. PICK j \in LevelIdx : c \in levels[j] /\ live_level[c.id] = j
      BY DEF AllLive, LiveCopies
    <3>2. c \in Copies /\ c.id \in Ids
      BY <3>1 DEF IInv, TypeOK, Copies
    <3>3. CASE c \in M
      BY <1>3, <1>4, <1>5, <3>2, <3>3 DEF AllLive, LiveCopies
    <3>4. CASE c \notin M
      <4>1. j \notin {i, i + 1}
        BY <1>1, <3>1, <3>2, <3>4
      <4>2. c.id \notin IdsOf(M)
        BY <1>6, <3>1, <4>1
      <4> QED BY <1>3, <1>4, <3>1, <3>2, <4>1, <4>2 DEF AllLive, LiveCopies
    <3> QED BY <3>3, <3>4
  <2>2. ASSUME NEW c \in AllLive' PROVE c \in AllLive
    <3>1. PICK j \in LevelIdx : c \in levels'[j] /\ live_level'[c.id] = j
      BY <2>2 DEF AllLive, LiveCopies
    <3>2. CASE j = i + 1
      BY <1>1, <1>3, <3>1, <3>2
    <3>3. CASE j # i + 1
      <4>1. j # i /\ c \in levels[j]
        BY <1>3, <3>1, <3>3
      <4>2. c.id \notin IdsOf(M)
        BY <1>4, <1>8, <3>1, <3>3
      <4> QED BY <1>4, <1>8, <3>1, <4>1, <4>2 DEF AllLive, LiveCopies
    <3> QED BY <3>2, <3>3
  <2> QED BY <2>1, <2>2
<1> QED BY <1>7, <1>9, <1>10, <1>11

\* insert keeps the invariant; the new copy takes the place of the live copy
\* of its id, whatever level that copy is at.
LEMMA InsertInv ==
    ASSUME IInv, NEW id \in Ids, NEW v \in Vecs, Insert(id, v)
    PROVE  /\ OneCopyPerLevel' /\ NewestAbove' /\ LiveStored'
           /\ AllLive' = {c \in AllLive : c.id # id} \cup {[id |-> id, vec |-> v]}
<1> DEFINE new == [id |-> id, vec |-> v]
           L == {c \in levels[0] : c.id # id} \cup {new}
<1>1. /\ levels' = [levels EXCEPT ![0] = L]
      /\ tombstones' = tombstones \ {id}
      /\ live_level' = [live_level EXCEPT ![id] = 0]
      /\ levels \in [LevelIdx -> SUBSET Copies]
      /\ live_level \in [Ids -> LevelIdx \cup {None}]
  BY DEF Insert, IInv, TypeOK
<1>2. \A c : c \in L <=> c = new \/ (c \in levels[0] /\ c.id # id)
  OBVIOUS
<1>3. new.id = id
  OBVIOUS
<1> HIDE DEF new, L
<1>4. /\ levels'[0] = L
      /\ \A j \in LevelIdx \ {0} : levels'[j] = levels[j]
      /\ live_level'[id] = 0
      /\ \A x \in Ids \ {id} : live_level'[x] = live_level[x]
  BY <1>1, LevelFacts
<1>5. \A j \in LevelIdx : \A c \in levels[j] : c.id \in Ids
  BY <1>1 DEF Copies
<1>6. OneCopyPerLevel'
  BY <1>2, <1>3, <1>4, LevelFacts DEF IInv, OneCopyPerLevel
<1>7. NewestAbove'
  <2>1. \A x \in tombstones' : live_level'[x] = None
    BY <1>1, <1>4 DEF IInv, NewestAbove, TypeOK
  <2>2. ASSUME NEW j \in LevelIdx, NEW c \in levels'[j], c.id \notin tombstones'
        PROVE  live_level'[c.id] \in LevelIdx /\ live_level'[c.id] <= j
    <3>1. CASE c.id = id
      BY <1>4, <3>1, LevelFacts DEF LevelIdx
    <3>2. CASE c.id # id
      <4>1. c \in levels[j] /\ c.id \notin tombstones
        BY <1>1, <1>2, <1>3, <1>4, <2>2, <3>2
      <4> QED BY <1>4, <1>5, <3>2, <4>1 DEF IInv, NewestAbove
    <3> QED BY <3>1, <3>2
  <2> QED BY <2>1, <2>2 DEF NewestAbove
<1>8. LiveStored'
  <2> SUFFICES ASSUME NEW j \in LevelIdx, NEW c \in levels'[j],
                      live_level'[c.id] # None
               PROVE  \E d \in levels'[live_level'[c.id]] : d.id = c.id
    BY DEF LiveStored
  <2>1. CASE c.id = id
    BY <1>2, <1>3, <1>4, <2>1
  <2>2. CASE c.id # id
    <3>1. c \in levels[j] /\ live_level'[c.id] = live_level[c.id]
      BY <1>2, <1>3, <1>4, <1>5, <2>2
    <3>2. PICK d \in levels[live_level[c.id]] : d.id = c.id
      BY <3>1 DEF IInv, LiveStored
    <3>3. live_level[c.id] \in LevelIdx
      BY <1>1, <1>5, <3>1
    <3> QED BY <1>2, <1>4, <2>2, <3>1, <3>2, <3>3
  <2> QED BY <2>1, <2>2
<1>9. AllLive' = {c \in AllLive : c.id # id} \cup {new}
  <2>1. ASSUME NEW c \in AllLive' PROVE c = new \/ (c \in AllLive /\ c.id # id)
    <3>1. PICK j \in LevelIdx : c \in levels'[j] /\ live_level'[c.id] = j
      BY <2>1 DEF AllLive, LiveCopies
    <3>2. CASE c.id = id
      BY <1>2, <1>4, <3>1, <3>2
    <3>3. CASE c.id # id
      <4>1. c \in levels[j]
        BY <1>2, <1>3, <1>4, <3>1, <3>3
      <4> QED BY <1>4, <1>5, <3>1, <3>3, <4>1 DEF AllLive, LiveCopies
    <3> QED BY <3>2, <3>3
  <2>2. new \in AllLive'
    BY <1>2, <1>3, <1>4, LevelFacts DEF AllLive, LiveCopies
  <2>3. ASSUME NEW c \in AllLive, c.id # id PROVE c \in AllLive'
    <3>1. PICK j \in LevelIdx : c \in levels[j] /\ live_level[c.id] = j
      BY <2>3 DEF AllLive, LiveCopies
    <3> QED BY <1>2, <1>4, <1>5, <2>3, <3>1 DEF AllLive, LiveCopies
  <2> QED BY <2>1, <2>2, <2>3
<1> QED BY <1>6, <1>7, <1>8, <1>9 DEF new

\* delete keeps the invariant and ends the life of the copies of its id.
LEMMA DeleteInv ==
    ASSUME IInv, NEW id \in Ids, Delete(id)
    PROVE  /\ OneCopyPerLevel' /\ NewestAbove' /\ LiveStored'
           /\ AllLive' = {c \in AllLive : c.id # id}
<1> DEFINE L == {c \in levels[0] : c.id # id}
<1>1. /\ levels' = [levels EXCEPT ![0] = L]
      /\ tombstones' = tombstones \cup {id}
      /\ live_level' = [live_level EXCEPT ![id] = None]
      /\ levels \in [LevelIdx -> SUBSET Copies]
      /\ live_level \in [Ids -> LevelIdx \cup {None}]
  BY DEF Delete, IInv, TypeOK
<1>2. \A c : c \in L <=> c \in levels[0] /\ c.id # id
  OBVIOUS
<1> HIDE DEF L
<1>3. /\ levels'[0] = L
      /\ \A j \in LevelIdx \ {0} : levels'[j] = levels[j]
      /\ live_level'[id] = None
      /\ \A x \in Ids \ {id} : live_level'[x] = live_level[x]
  BY <1>1, LevelFacts
<1>4. /\ \A j \in LevelIdx : levels'[j] \subseteq levels[j]
      /\ \A j \in LevelIdx : \A c \in levels[j] :
             c.id \in Ids /\ (c.id # id => c \in levels'[j])
  BY <1>1, <1>2, <1>3 DEF Copies
<1>5. OneCopyPerLevel'
  BY <1>4 DEF IInv, OneCopyPerLevel
<1>6. NewestAbove'
  BY <1>1, <1>3, <1>4 DEF IInv, NewestAbove, TypeOK
<1>7. LiveStored'
  <2> SUFFICES ASSUME NEW j \in LevelIdx, NEW c \in levels'[j],
                      live_level'[c.id] # None
               PROVE  \E d \in levels'[live_level'[c.id]] : d.id = c.id
    BY DEF LiveStored
  <2>1. c.id # id /\ c \in levels[j] /\ live_level'[c.id] = live_level[c.id]
    BY <1>3, <1>4
  <2>2. PICK d \in levels[live_level[c.id]] : d.id = c.id
    BY <2>1 DEF IInv, LiveStored
  <2>3. live_level[c.id] \in LevelIdx
    BY <1>1, <1>4, <2>1
  <2> QED BY <1>4, <2>1, <2>2, <2>3
<1>8. AllLive' = {c \in AllLive : c.id # id}
  <2>1. ASSUME NEW c \in AllLive' PROVE c \in AllLive /\ c.id # id
    <3>1. PICK j \in LevelIdx : c \in levels'[j] /\ live_level'[c.id] = j
      BY <2>1 DEF AllLive, LiveCopies
    <3>2. c.id # id
      BY <1>3, <3>1, LevelFacts
    <3> QED BY <1>3, <1>4, <3>1, <3>2 DEF AllLive, LiveCopies
  <2>2. ASSUME NEW c \in AllLive, c.id # id PROVE c \in AllLive'
    <3>1. PICK j \in LevelIdx : c \in levels[j] /\ live_level[c.id] = j
      BY <2>2 DEF AllLive, LiveCopies
    <3> QED BY <1>3, <1>4, <2>2, <3>1 DEF AllLive, LiveCopies
  <2> QED BY <2>1, <2>2
<1> QED BY <1>5, <1>6, <1>7, <1>8

\* A full rebuild keeps what is live, or loses every copy.
LEMMA ForceMergeInv ==
    ASSUME IInv, ForceMergeAll
    PROVE  /\ OneCopyPerLevel' /\ NewestAbove' /\ LiveStored'
           /\ \/ AllLive' = AllLive
              \/ AllLive' = {} /\ ~Buildable(AllLive)
<1> DEFINE A == AllLive
<1>1. /\ \A c \in A : c \in Copies /\ c.id \in Ids
      /\ \A c, d \in A : c.id = d.id => c = d
  <2>1. \A c \in A : c \in Copies /\ c.id \in Ids
    BY DEF AllLive, LiveCopies, IInv, TypeOK, Copies
  <2> QED BY <2>1, OneLiveCopy
<1>2. CASE A # {} /\ Buildable(A)
  <2>1. /\ levels' = [i \in LevelIdx |-> IF i = 1 THEN A ELSE {}]
        /\ live_level' = [id \in Ids |-> IF id \in IdsOf(A) THEN 1 ELSE live_level[id]]
        /\ tombstones' = {}
    BY <1>2 DEF ForceMergeAll
  <2>2. \A c \in A : c.id \in IdsOf(A)
    BY DEF IdsOf
  <2> HIDE DEF A
  <2>3. /\ levels'[1] = A
        /\ \A i \in LevelIdx : \A c \in levels'[i] : i = 1 /\ c \in A /\ live_level'[c.id] = 1
    BY <1>1, <2>1, <2>2, LevelFacts
  <2>4. OneCopyPerLevel'
    BY <1>1, <2>3 DEF OneCopyPerLevel
  <2>5. NewestAbove'
    BY <2>1, <2>3, LevelFacts DEF NewestAbove
  <2>6. LiveStored'
    BY <2>3 DEF LiveStored
  <2>7. AllLive' = A
    BY <1>1, <2>1, <2>2, <2>3, LevelFacts DEF AllLive, LiveCopies
  <2> QED BY <2>4, <2>5, <2>6, <2>7 DEF A
<1>3. CASE A = {} \/ ~Buildable(A)
  <2>1. /\ levels' = [i \in LevelIdx |-> {}]
        /\ live_level' = live_level /\ tombstones' = tombstones
    BY <1>3 DEF ForceMergeAll
  <2>2. \A i \in LevelIdx : levels'[i] = {}
    BY <2>1
  <2>3. OneCopyPerLevel' /\ LiveStored'
    BY <2>2 DEF OneCopyPerLevel, LiveStored
  <2>4. NewestAbove'
    BY <2>1, <2>2 DEF IInv, NewestAbove
  <2>5. AllLive' = {}
    BY <2>2 DEF AllLive, LiveCopies
  <2> QED BY <1>3, <2>3, <2>4, <2>5
<1> QED BY <1>2, <1>3

\* The steps of a compaction in progress keep every live copy.
LEMMA InCallInv ==
    ASSUME IInv, InCall
    PROVE  /\ OneCopyPerLevel' /\ NewestAbove' /\ LiveStored'
           /\ AllLive' = AllLive
<1>1. ASSUME UNCHANGED <<levels, tombstones, live_level>>
      PROVE  /\ OneCopyPerLevel' /\ NewestAbove' /\ LiveStored'
             /\ AllLive' = AllLive
  BY <1>1 DEF IInv, OneCopyPerLevel, NewestAbove, LiveStored, AllLive, LiveCopies
<1>2. CASE CompactL0
  BY <1>1, <1>2, MergeIntoInv, LevelFacts DEF CompactL0
<1>3. ASSUME NEW i \in LevelIdx, CascadeCompact(i)
      PROVE  /\ OneCopyPerLevel' /\ NewestAbove' /\ LiveStored'
             /\ AllLive' = AllLive
  <2>1. CASE ShouldCompact(i) /\ MergeInto(i)
    <3>1. i + 1 \in LevelIdx
      BY <2>1, LevelFacts DEF ShouldCompact
    <3> QED BY <2>1, <3>1, MergeIntoInv
  <2> QED BY <1>1, <1>3, <2>1 DEF CascadeCompact
<1> QED BY <1>2, <1>3 DEF InCall

\* Every step of the index keeps the invariant.
LEMMA StepInv == IInv /\ [Next]_lsmVars => IInv'
<1> SUFFICES ASSUME IInv, [Next]_lsmVars PROVE OneCopyPerLevel' /\ NewestAbove' /\ LiveStored'
  BY TypeStep DEF IInv
<1>1. ASSUME NEW id \in Ids, NEW v \in Vecs, Insert(id, v)
      PROVE OneCopyPerLevel' /\ NewestAbove' /\ LiveStored'
  BY <1>1, InsertInv
<1>2. ASSUME NEW id \in Ids, Delete(id)
      PROVE OneCopyPerLevel' /\ NewestAbove' /\ LiveStored'
  BY <1>2, DeleteInv
<1>3. CASE InCall
  BY <1>3, InCallInv
<1>4. CASE ForceMergeAll
  BY <1>4, ForceMergeInv
<1>5. CASE Compact \/ UNCHANGED lsmVars
  BY <1>5 DEF Compact, lsmVars, IInv, OneCopyPerLevel, NewestAbove, LiveStored
<1> QED BY <1>1, <1>2, <1>3, <1>4, <1>5 DEF Next

\* The strengthened invariant holds in every state of every behaviour.
THEOREM Invariance == Spec => []IInv
<1>1. Init => IInv
  BY InitInv
<1>2. IInv /\ [Next]_lsmVars => IInv'
  BY StepInv
<1> QED BY <1>1, <1>2, PTL DEF Spec

\* The variables of the index keep their types through every call.
THEOREM TypeCorrect == Spec => []TypeOK
<1>1. IInv => TypeOK
  BY DEF IInv
<1> QED BY <1>1, Invariance, PTL

\* Updates of a buffered id and merges leave one copy of an id per level.
THEOREM OneCopyAlways == Spec => []OneCopyPerLevel
<1>1. IInv => OneCopyPerLevel
  BY DEF IInv
<1> QED BY <1>1, Invariance, PTL

\* What live_levels() recomputes from levels and tombstones after a restart
\* is what the running index has tracked.
LEMMA InvAgree == IInv => LiveLevelsAgree
<1> SUFFICES ASSUME IInv, NEW id \in Ids
             PROVE  RecomputedLevel(id) = IF VisibleCopies(id) = {} THEN None ELSE live_level[id]
  BY DEF LiveLevelsAgree
<1>1. ASSUME VisibleCopies(id) # {}
      PROVE  Holding(id) # {} /\ id \notin tombstones
  <2>1. PICK c \in AllLive : c.id = id
    BY <1>1 DEF VisibleCopies
  <2>2. PICK i \in LevelIdx : c \in levels[i] /\ live_level[id] = i
    BY <2>1 DEF AllLive, LiveCopies
  <2>3. id \notin tombstones
    BY <2>2, LevelFacts DEF IInv, NewestAbove
  <2> QED BY <2>1, <2>2, <2>3 DEF Holding, IdsOf
<1>2. CASE id \in tombstones \/ Holding(id) = {}
  BY <1>1, <1>2 DEF RecomputedLevel
<1>3. CASE id \notin tombstones /\ Holding(id) # {}
  <2> DEFINE l == live_level[id]
  <2>1. \A i \in Holding(id) : l \in LevelIdx /\ l <= i
    BY <1>3 DEF Holding, IdsOf, IInv, NewestAbove
  <2>2. PICK n \in LevelIdx : \E c \in levels[n] : c.id = id
    BY <1>3 DEF Holding, IdsOf
  <2>3. l \in LevelIdx /\ l # None
    BY <1>3, <2>1, LevelFacts
  <2>4. PICK d \in levels[l] : d.id = id
    BY <2>2, <2>3 DEF IInv, LiveStored
  <2>5. l \in Holding(id) /\ VisibleCopies(id) # {}
    BY <2>3, <2>4 DEF Holding, IdsOf, VisibleCopies, AllLive, LiveCopies
  <2>6. \A i \in Holding(id) : i \in Int
    BY LevelFacts DEF Holding
  <2> HIDE DEF l
  <2>7. \A i \in Holding(id) : (\A j \in Holding(id) : i <= j) => i = l
    BY <2>1, <2>5, <2>6
  <2>8. RecomputedLevel(id) = l
    BY <1>3, <2>1, <2>5, <2>7 DEF RecomputedLevel
  <2> QED BY <2>5, <2>8 DEF l
<1> QED BY <1>2, <1>3

\* A restart neither revives a deleted id nor goes back to an older vector.
THEOREM LiveLevelsAgreeAlways == Spec => []LiveLevelsAgree
BY InvAgree, Invariance, PTL

-----------------------------------------------------------------------------
(* The index implements a map                                              *)

\* The contents after a step are a function of the live copies after it.
LEMMA NextContents ==
    Contents' = [id \in Ids |-> VecOf({c \in AllLive' : c.id = id})]
BY DEF Contents, VisibleCopies

\* A step that leaves the live copies alone leaves the contents alone.
LEMMA SameContents ==
    ASSUME AllLive' = AllLive
    PROVE  Contents' = Contents
BY NextContents DEF Contents, VisibleCopies

\* A set of one copy has the content of that copy.
LEMMA VecOfOne == \A c : VecOf({c}) = c.vec
BY DEF VecOf

\* The content of an id with a live copy is the vector of that copy.
LEMMA ContentOfLive ==
    ASSUME IInv, NEW c \in AllLive
    PROVE  c.id \in Ids /\ Contents[c.id] = c.vec
<1>1. c.id \in Ids
  BY DEF AllLive, LiveCopies, IInv, TypeOK, Copies
<1>2. VisibleCopies(c.id) = {c}
  BY OneLiveCopy DEF VisibleCopies
<1> QED BY <1>1, <1>2, VecOfOne DEF Contents

\* insert is the abstract Put.
LEMMA InsertPuts ==
    ASSUME IInv, NEW id \in Ids, NEW v \in Vecs, Insert(id, v)
    PROVE  Contents' = [Contents EXCEPT ![id] = v]
<1> DEFINE new == [id |-> id, vec |-> v]
           CopiesOf(copies, x) == {c \in copies : c.id = x}
<1>1. AllLive' = {c \in AllLive : c.id # id} \cup {new}
  BY InsertInv
<1>2. new.id = id /\ new.vec = v
  OBVIOUS
<1> HIDE DEF new
<1>3. CopiesOf(AllLive', id) = {new}
  BY <1>1, <1>2
<1>4. \A x \in Ids \ {id} : CopiesOf(AllLive', x) = CopiesOf(AllLive, x)
  BY <1>1, <1>2
<1>5. Contents' = [x \in Ids |-> VecOf(CopiesOf(AllLive', x))]
  BY NextContents
<1>6. Contents = [x \in Ids |-> VecOf(CopiesOf(AllLive, x))]
  BY DEF Contents, VisibleCopies
<1>7. VecOf(CopiesOf(AllLive', id)) = v
  BY <1>2, <1>3, VecOfOne
<1> HIDE DEF CopiesOf
<1> QED BY <1>4, <1>5, <1>6, <1>7

\* delete is the abstract Remove.
LEMMA DeleteRemoves ==
    ASSUME IInv, NEW id \in Ids, Delete(id)
    PROVE  Contents' = [Contents EXCEPT ![id] = Missing]
<1> DEFINE CopiesOf(copies, x) == {c \in copies : c.id = x}
<1>1. AllLive' = {c \in AllLive : c.id # id}
  BY DeleteInv
<1>2. CopiesOf(AllLive', id) = {}
  BY <1>1
<1>3. \A x \in Ids \ {id} : CopiesOf(AllLive', x) = CopiesOf(AllLive, x)
  BY <1>1
<1>4. Contents' = [x \in Ids |-> VecOf(CopiesOf(AllLive', x))]
  BY NextContents
<1>5. Contents = [x \in Ids |-> VecOf(CopiesOf(AllLive, x))]
  BY DEF Contents, VisibleCopies
<1>6. VecOf(CopiesOf(AllLive', id)) = Missing
  BY <1>2 DEF VecOf
<1> HIDE DEF CopiesOf
<1> QED BY <1>3, <1>4, <1>5, <1>6

\* An index without live copies is the empty map.
LEMMA EmptyContents ==
    /\ AllLive = {} => Contents = [id \in Ids |-> Missing]
    /\ AllLive' = {} => Contents' = [id \in Ids |-> Missing]
BY NextContents DEF Contents, VisibleCopies, VecOf

\* A rebuild changes nothing, or is the abstract Lose.
LEMMA ForceMergeMaps ==
    ASSUME IInv, ForceMergeAll
    PROVE  Contents' = Contents \/ Abstract!Lose
<1>1. CASE AllLive' = AllLive
  BY <1>1, SameContents
<1>2. CASE AllLive' = {} /\ ~Buildable(AllLive)
  <2>1. Contents' = [id \in Ids |-> Missing]
    BY <1>2, EmptyContents
  <2>2. PICK c \in AllLive : c.vec \in Rejected
    BY <1>2 DEF Buildable
  <2>3. c.id \in Ids /\ Contents[c.id] \in Rejected
    BY <2>2, ContentOfLive
  <2> QED BY <2>1, <2>3 DEF Abstract!Lose
<1> QED BY <1>1, <1>2, ForceMergeInv

\* Every step of the index is a step of the map or changes nothing in it.
LEMMA StepMaps == IInv /\ [Next]_lsmVars => [Abstract!Next]_Contents
<1> SUFFICES ASSUME IInv, [Next]_lsmVars PROVE Abstract!Next \/ Contents' = Contents
  OBVIOUS
<1>1. ASSUME NEW id \in Ids, NEW v \in Vecs, Insert(id, v) PROVE Abstract!Next
  BY <1>1, InsertPuts DEF Abstract!Next, Abstract!Put
<1>2. ASSUME NEW id \in Ids, Delete(id) PROVE Abstract!Next
  BY <1>2, DeleteRemoves DEF Abstract!Next, Abstract!Remove
<1>3. CASE InCall
  BY <1>3, InCallInv, SameContents
<1>4. CASE ForceMergeAll
  BY <1>4, ForceMergeMaps DEF Abstract!Next
<1>5. CASE Compact \/ UNCHANGED lsmVars
  <2>1. AllLive' = AllLive
    BY <1>5 DEF Compact, lsmVars, AllLive, LiveCopies
  <2> QED BY <2>1, SameContents
<1> QED BY <1>1, <1>2, <1>3, <1>4, <1>5 DEF Next

\* Whatever buffering, compaction, cascading and merging do, the index is a
\* map from ids to the vectors inserted last.
THEOREM MapRefinement == Spec => ImplementsMap
<1>1. Init => Abstract!Init
  <2>1. Init => AllLive = {}
    BY DEF Init, AllLive, LiveCopies
  <2> QED BY <2>1, EmptyContents DEF Abstract!Init
<1>2. IInv /\ [Next]_lsmVars => [Abstract!Next]_Contents
  BY StepMaps
<1> QED BY <1>1, <1>2, Invariance, PTL DEF Spec, ImplementsMap, Abstract!Spec
-----------------------------------------------------------------------------
(* The snapshot directory                                                  *)

\* Levels past the depth are empty, and every graph level can be rebuilt.
GraphInv ==
    /\ \A i \in LevelIdx : i >= depth => levels[i] = {}
    /\ \A i \in LevelIdx \ {0} : Buildable(levels[i])

DiskTypeOK ==
    /\ manifest = NoFile \/ IsManifest(manifest)
    /\ tombFile = NoFile \/ tombFile \in SUBSET Ids
    /\ vecFile \in [LevelIdx -> (SUBSET Copies) \cup {NoFile}]
    /\ idFile \in [LevelIdx -> (SUBSET Ids) \cup {NoFile}]
    /\ matching \in [LevelIdx -> BOOLEAN]
    /\ saving \in SavePoints

\* No two copies of one id.
OneCopy(copies) == \A c, d \in copies : c.id = d.id => c = d

\* Two files of one save are the vectors and the ids of one level.
PairedInv ==
    \A i \in LevelIdx : matching[i] =>
        /\ vecFile[i] # NoFile /\ OneCopy(vecFile[i])
        /\ idFile[i] = IdsOf(vecFile[i])

\* What a save in progress has written so far is what the index holds.
SavingInv ==
    /\ saving.file \in {"tombstones", "vectors", "doc_ids"} =>
           /\ sealed = Unsealed
           /\ manifest = [counts |-> [i \in 0 .. depth - 1 |-> Cardinality(levels[i])],
                          tombstone_count |-> Cardinality(tombstones)]
    /\ saving.file \in {"vectors", "doc_ids"} =>
           /\ tombFile = tombstones
           /\ saving.level < depth
           /\ \A i \in 0 .. saving.level - 1 : matching[i] /\ vecFile[i] = levels[i]
    /\ saving.file = "doc_ids" => vecFile[saving.level] = levels[saving.level]

\* The contents that levels lv and tombstones tb are read as.
HoldingIn(lv, id) == {i \in LevelIdx : id \in IdsOf(lv[i])}

LevelIn(lv, tb, id) ==
    IF id \in tb \/ HoldingIn(lv, id) = {} THEN None
    ELSE CHOOSE i \in HoldingIn(lv, id) : \A j \in HoldingIn(lv, id) : i <= j

CopiesIn(lv, tb, id) ==
    {c \in UNION {lv[i] : i \in LevelIdx} :
        c.id = id /\ \E i \in LevelIdx : LevelIn(lv, tb, id) = i /\ c \in lv[i]}

ContentsIn(lv, tb) == [id \in Ids |-> VecOf(CopiesIn(lv, tb, id))]

FileLevels == [i \in LevelIdx |-> IF i \in DOMAIN manifest.counts THEN vecFile[i] ELSE {}]

\* A sealed directory is complete and its files are read as what was sealed.
SealedInv ==
    sealed # Unsealed =>
        /\ manifest # NoFile /\ tombFile # NoFile
        /\ Cardinality(tombFile) = manifest.tombstone_count
        /\ \A i \in DOMAIN manifest.counts :
              /\ matching[i] /\ Cardinality(vecFile[i]) = manifest.counts[i]
              /\ i > 0 => Buildable(vecFile[i])
        /\ sealed = ContentsIn(FileLevels, tombFile)

SnapshotIInv ==
    IInv /\ GraphInv /\ DiskTypeOK /\ PairedInv /\ SavingInv /\ SealedInv

\* Every nonempty set of naturals has a least element: the intervals 0 .. n
\* of its elements are well-founded under strict inclusion.
LEMMA LeastExists ==
    ASSUME NEW S \in SUBSET Nat, S # {}
    PROVE  \E n \in S : \A m \in S : n <= m
<1> DEFINE R == StrictSubsetOrdering(Nat)
           T == {0 .. n : n \in S}
<1>1. IsWellFoundedOn(R, FiniteSubsetsOf(Nat))
  BY FS_StrictSubsetOrderingWellFounded
<1>2. T \subseteq FiniteSubsetsOf(Nat) /\ T # {}
  <2>1. \A n \in S : 0 .. n \in FiniteSubsetsOf(Nat)
    BY FS_Interval DEF FiniteSubsetsOf
  <2> QED BY <2>1
<1>3. PICK t \in T : \A u \in T : ~(<<u, t>> \in R)
  <2> HIDE DEF R, T
  <2> QED BY <1>1, <1>2, WFMin
<1>4. PICK n \in S : t = 0 .. n
  OBVIOUS
<1>5. ASSUME NEW m \in S, ~(n <= m) PROVE FALSE
  <2>1. 0 .. m \in T /\ 0 .. m \subseteq 0 .. n /\ n \in 0 .. n /\ n \notin 0 .. m
    BY <1>5
  <2>2. <<0 .. m, t>> \in R
    BY <2>1, <1>4 DEF StrictSubsetOrdering
  <2> QED BY <1>3, <2>1, <2>2
<1> QED BY <1>5

\* The level at which an id is read is the shallowest one that holds it.
LEMMA LevelInShallowest ==
    ASSUME NEW lv, NEW tb, NEW id, id \notin tb, HoldingIn(lv, id) # {}
    PROVE  /\ LevelIn(lv, tb, id) \in HoldingIn(lv, id)
           /\ \A i \in HoldingIn(lv, id) : LevelIn(lv, tb, id) <= i
<1>1. HoldingIn(lv, id) \in SUBSET Nat
  BY LevelFacts DEF HoldingIn, LevelIdx
<1>2. \E i \in HoldingIn(lv, id) : \A j \in HoldingIn(lv, id) : i <= j
  BY <1>1, LeastExists
<1> QED BY <1>2 DEF LevelIn

\* A level with one copy of each id has as many ids as copies.
LEMMA IdsCardinality ==
    ASSUME NEW copies \in SUBSET Copies, OneCopy(copies)
    PROVE  /\ IsFiniteSet(copies) /\ IsFiniteSet(IdsOf(copies))
           /\ Cardinality(IdsOf(copies)) = Cardinality(copies)
<1>1. IdsOf(copies) \subseteq Ids
  BY DEF IdsOf, Copies
<1>2. IsFiniteSet(IdsOf(copies))
  BY <1>1, LsmAssumption, FS_Subset
<1> DEFINE f == [id \in IdsOf(copies) |-> CHOOSE c \in copies : c.id = id]
<1>3. \A id \in IdsOf(copies) : f[id] \in copies /\ f[id].id = id
  BY DEF IdsOf
<1>4. f \in [IdsOf(copies) -> copies]
  BY <1>3
<1>5. \A c \in copies : c.id \in IdsOf(copies) /\ f[c.id] = c
  BY <1>3 DEF IdsOf, OneCopy
<1> HIDE DEF f
<1>6. f \in Bijection(IdsOf(copies), copies)
  BY <1>3, <1>4, <1>5 DEF Bijection, Injection, Surjection, IsInjective
<1> QED BY <1>2, <1>6, FS_Bijection DEF ExistsBijection

\* Calls on the index keep its graph levels buildable and within its depth.
LEMMA GraphStep == IInv /\ GraphInv /\ [Next]_lsmVars => GraphInv'
<1> SUFFICES ASSUME IInv, GraphInv, [Next]_lsmVars PROVE GraphInv'
  OBVIOUS
<1> USE DEF GraphInv
<1>0. levels \in [LevelIdx -> SUBSET Copies] /\ depth \in 1 .. Deepest + 1
  BY DEF IInv, TypeOK
<1>1. ASSUME NEW new, levels' = [levels EXCEPT ![0] = new], depth' = depth
      PROVE  GraphInv'
  BY <1>0, <1>1, LevelFacts
<1>2. ASSUME NEW i \in LevelIdx, i + 1 \in LevelIdx, MergeInto(i), depth' \in Int,
             depth' >= depth, depth' >= i + 2
      PROVE  GraphInv'
  <2> DEFINE M == Merged(i)
  <2>1. levels' = [levels EXCEPT ![i + 1] = M, ![i] = {}] /\ Buildable(M)
    BY <1>2 DEF MergeInto
  <2> HIDE DEF M
  <2>2. /\ levels'[i + 1] = M /\ levels'[i] = {}
        /\ \A j \in LevelIdx \ {i, i + 1} : levels'[j] = levels[j]
    BY <1>0, <1>2, <2>1, LevelFacts
  <2>3. Buildable({})
    BY DEF Buildable
  <2> QED BY <1>0, <1>2, <2>1, <2>2, <2>3, LevelFacts
<1>3. ASSUME NEW id \in Ids, NEW v \in Vecs, Insert(id, v) PROVE GraphInv'
  BY <1>1, <1>3 DEF Insert
<1>4. ASSUME NEW id \in Ids, Delete(id) PROVE GraphInv'
  BY <1>1, <1>4 DEF Delete
<1>5. CASE CompactL0
  <2>1. depth' \in Int /\ depth' >= depth /\ depth' >= 0 + 2
    BY <1>0, <1>5 DEF CompactL0
  <2>2. CASE MergeInto(0)
    <3>1. 0 \in LevelIdx /\ 0 + 1 \in LevelIdx
      BY LevelFacts
    <3> QED BY <1>2, <2>1, <2>2, <3>1
  <2>3. CASE UNCHANGED levels
    BY <1>0, <2>1, <2>3, LevelFacts
  <2> QED BY <1>5, <2>2, <2>3 DEF CompactL0
<1>6. ASSUME NEW i \in LevelIdx, CascadeCompact(i) PROVE GraphInv'
  <2>1. CASE ShouldCompact(i) /\ MergeInto(i)
    <3>1. i + 1 \in LevelIdx
      BY <2>1, LevelFacts DEF ShouldCompact
    <3>2. depth' = IF depth < i + 2 THEN i + 2 ELSE depth
      BY <1>6, <2>1 DEF CascadeCompact
    <3>3. depth' \in Int /\ depth' >= depth /\ depth' >= i + 2
      BY <1>0, <3>2, LevelFacts
    <3> QED BY <1>2, <2>1, <3>1, <3>3
  <2>2. CASE UNCHANGED <<levels, depth>>
    BY <2>2
  <2> QED BY <1>6, <2>1, <2>2 DEF CascadeCompact
<1>7. CASE ForceMergeAll
  <2>1. Buildable({})
    BY DEF Buildable
  <2>2. CASE Buildable(AllLive) /\ depth' = 2 /\ levels' = [i \in LevelIdx |-> IF i = 1 THEN AllLive ELSE {}]
    BY <2>1, <2>2, LevelFacts
  <2>3. CASE levels' = [i \in LevelIdx |-> {}]
    BY <2>1, <2>3
  <2> QED BY <1>7, <2>2, <2>3 DEF ForceMergeAll
<1>8. CASE Compact \/ UNCHANGED lsmVars
  BY <1>8 DEF Compact, lsmVars
<1> QED BY <1>3, <1>4, <1>5, <1>6, <1>7, <1>8 DEF Next, InCall

-----------------------------------------------------------------------------
(* Restart: what load_from_dir reads                                       *)

\* The levels that two files may be read as: copies, one for each id.
LEMMA PairingType ==
    ASSUME DiskTypeOK, PairedInv, NEW i \in LevelIdx,
           vecFile[i] # NoFile, idFile[i] # NoFile, NEW l \in Pairings(i)
    PROVE  l \in SUBSET Copies /\ OneCopy(l)
<1>0. vecFile[i] \in SUBSET Copies /\ idFile[i] \in SUBSET Ids
  BY DEF DiskTypeOK
<1>1. CASE matching[i]
  BY <1>0, <1>1 DEF Pairings, PairedInv
<1>2. CASE ~matching[i]
  <2>1. PICK f \in [idFile[i] -> vecFile[i]] :
            l = {[id |-> id, vec |-> f[id].vec] : id \in idFile[i]}
    BY <1>2 DEF Pairings
  <2>2. \A id \in idFile[i] : [id |-> id, vec |-> f[id].vec] \in Copies
    BY <1>0, <2>1 DEF Copies
  <2> QED BY <2>1, <2>2 DEF OneCopy
<1> QED BY <1>1, <1>2

\* The levels after a restart are the ones the manifest counts.
LEMMA LoadShape ==
    ASSUME DiskTypeOK, Load
    PROVE  \E last \in LevelIdx :
              /\ DOMAIN manifest.counts = 0 .. last
              /\ depth' = last + 1
              /\ levels' \in [LevelIdx -> {{}} \cup UNION {Pairings(i) : i \in 0 .. last}]
              /\ \A i \in 0 .. last : /\ i \in LevelIdx
                                      /\ vecFile[i] # NoFile /\ idFile[i] # NoFile
                                      /\ levels'[i] \in Pairings(i)
                                      /\ i > 0 => Buildable(levels'[i])
              /\ \A i \in LevelIdx : i > last => levels'[i] = {}
<1>1. PICK n \in LevelIdx : manifest \in [counts : [0 .. n -> Nat], tombstone_count : Nat]
  BY DEF Load, Loadable, DiskTypeOK, IsManifest
<1>2. DOMAIN manifest.counts = 0 .. n /\ n \in Nat /\ 0 .. n \subseteq LevelIdx
  BY <1>1, LevelFacts DEF LevelIdx
<1>3. Cardinality(DOMAIN manifest.counts) - 1 = n
  BY <1>2, FS_Interval
<1>4. PICK l \in [LevelIdx -> {{}} \cup UNION {Pairings(i) : i \in 0 .. n}] :
          /\ \A i \in LevelIdx : IF i <= n THEN l[i] \in Pairings(i) ELSE l[i] = {}
          /\ \A i \in 1 .. n : Buildable(l[i])
          /\ levels' = l
          /\ depth' = n + 1
  BY <1>3 DEF Load
<1>5. \A i \in 0 .. n : vecFile[i] # NoFile /\ idFile[i] # NoFile
  BY <1>2 DEF Load, Loadable
<1>6. \A i \in LevelIdx : i > n => levels'[i] = {}
  BY <1>2, <1>4, LevelFacts
<1>7. \A i \in 0 .. n : i \in LevelIdx /\ levels'[i] \in Pairings(i) /\ (i > 0 => Buildable(levels'[i]))
  BY <1>2, <1>4
<1> QED BY <1>2, <1>4, <1>5, <1>6, <1>7

\* live_levels() after a restart satisfies the invariant of the index.
LEMMA LoadInv ==
    ASSUME DiskTypeOK, PairedInv, Load
    PROVE  IInv' /\ GraphInv'
<1>1. PICK last \in LevelIdx :
          /\ depth' = last + 1
          /\ levels' \in [LevelIdx -> {{}} \cup UNION {Pairings(i) : i \in 0 .. last}]
          /\ \A i \in 0 .. last : /\ i \in LevelIdx
                                  /\ vecFile[i] # NoFile /\ idFile[i] # NoFile
                                  /\ levels'[i] \in Pairings(i)
                                  /\ i > 0 => Buildable(levels'[i])
          /\ \A i \in LevelIdx : i > last => levels'[i] = {}
  BY LoadShape
<1>2. \A i \in LevelIdx : levels'[i] \in SUBSET Copies /\ OneCopy(levels'[i])
  <2> TAKE i \in LevelIdx
  <2>1. CASE i \in 0 .. last
    BY <1>1, <2>1, PairingType
  <2>2. CASE i \notin 0 .. last
    BY <1>1, <2>2 DEF LevelIdx, OneCopy
  <2> QED BY <2>1, <2>2
<1>3. levels' \in [LevelIdx -> SUBSET Copies]
  BY <1>1, <1>2
<1>4. /\ tombstones' = tombFile /\ tombFile \in SUBSET Ids /\ phase' = Idle
      /\ live_level' = [id \in Ids |-> LevelIn(levels', tombstones', id)]
  BY DEF Load, Loadable, DiskTypeOK, RecomputedLevel, Holding, LevelIn, HoldingIn
\* What the recomputed level of a stored id is.
<1>5. ASSUME NEW id \in Ids
      PROVE  /\ live_level'[id] \in LevelIdx \cup {None}
             /\ live_level'[id] # None =>
                    /\ id \notin tombstones'
                    /\ live_level'[id] \in HoldingIn(levels', id)
             /\ id \in tombstones' => live_level'[id] = None
             /\ id \notin tombstones' => \A i \in HoldingIn(levels', id) :
                    live_level'[id] \in LevelIdx /\ live_level'[id] <= i
  <2>1. live_level'[id] = LevelIn(levels', tombstones', id)
    BY <1>4
  <2>2. CASE id \in tombstones' \/ HoldingIn(levels', id) = {}
    BY <2>1, <2>2 DEF LevelIn
  <2>3. CASE id \notin tombstones' /\ HoldingIn(levels', id) # {}
    BY <2>1, <2>3, LevelInShallowest DEF HoldingIn
  <2> QED BY <2>2, <2>3
<1>6. \A i \in LevelIdx : \A c \in levels'[i] : c.id \in Ids /\ i \in HoldingIn(levels', c.id)
  BY <1>2 DEF HoldingIn, IdsOf, Copies
<1>7. TypeOK'
  <2>1. live_level' \in [Ids -> LevelIdx \cup {None}]
    BY <1>4, <1>5
  <2>2. depth' \in 1 .. Deepest + 1
    BY <1>1, LevelFacts DEF LevelIdx
  <2> QED BY <1>3, <1>4, <2>1, <2>2 DEF TypeOK, Phases
<1>8. OneCopyPerLevel'
  BY <1>2 DEF OneCopyPerLevel, OneCopy
<1>9. NewestAbove'
  BY <1>4, <1>5, <1>6 DEF NewestAbove
<1>10. LiveStored'
  <2> SUFFICES ASSUME NEW i \in LevelIdx, NEW c \in levels'[i], live_level'[c.id] # None
               PROVE  \E d \in levels'[live_level'[c.id]] : d.id = c.id
    BY DEF LiveStored
  <2>1. c.id \in IdsOf(levels'[live_level'[c.id]])
    BY <1>5, <1>6 DEF HoldingIn
  <2> QED BY <2>1 DEF IdsOf
<1>11. GraphInv'
  <2>1. \A i \in LevelIdx : i >= depth' => levels'[i] = {}
    BY <1>1, LevelFacts
  <2>2. \A i \in LevelIdx \ {0} : Buildable(levels'[i])
    <3> TAKE i \in LevelIdx \ {0}
    <3>1. i \in 1 .. last \/ i > last
      BY DEF LevelIdx
    <3> QED BY <1>1, <3>1 DEF Buildable
  <2> QED BY <2>1, <2>2 DEF GraphInv
<1> QED BY <1>7, <1>8, <1>9, <1>10, <1>11 DEF IInv

\* A restart reads the levels and tombstones it loaded.
LEMMA LoadContents ==
    ASSUME DiskTypeOK, PairedInv, Load
    PROVE  Contents' = ContentsIn(levels', tombstones')
<1>1. live_level' = [id \in Ids |-> LevelIn(levels', tombstones', id)]
  BY DEF Load, RecomputedLevel, Holding, LevelIn, HoldingIn
<1>2. \A i \in LevelIdx : \A c \in levels'[i] : c.id \in Ids
  BY LoadInv DEF IInv, TypeOK, Copies
<1>3. ASSUME NEW id \in Ids
      PROVE  {c \in AllLive' : c.id = id} = CopiesIn(levels', tombstones', id)
  BY <1>1, <1>2 DEF AllLive, LiveCopies, CopiesIn
<1> QED BY <1>3, NextContents DEF ContentsIn

\* The contents of the index are what its levels and tombstones are read as.
LEMMA ContentsRead ==
    ASSUME IInv
    PROVE  Contents = ContentsIn(levels, tombstones)
<1>1. ASSUME NEW id \in Ids
      PROVE  VisibleCopies(id) = CopiesIn(levels, tombstones, id)
  <2>1. LevelIn(levels, tombstones, id) = IF VisibleCopies(id) = {} THEN None ELSE live_level[id]
    BY InvAgree DEF LiveLevelsAgree, RecomputedLevel, Holding, LevelIn, HoldingIn
  <2>2. \A c : c \in VisibleCopies(id) <=>
            c.id = id /\ \E i \in LevelIdx : c \in levels[i] /\ live_level[id] = i
    BY DEF VisibleCopies, AllLive, LiveCopies
  <2>3. ASSUME NEW c \in VisibleCopies(id) PROVE c \in CopiesIn(levels, tombstones, id)
    BY <2>1, <2>2 DEF CopiesIn
  <2>4. ASSUME NEW c \in CopiesIn(levels, tombstones, id) PROVE c \in VisibleCopies(id)
    <3>1. PICK i \in LevelIdx : LevelIn(levels, tombstones, id) = i /\ c \in levels[i]
      BY DEF CopiesIn
    <3>2. live_level[id] = i
      BY <2>1, <3>1, LevelFacts
    <3> QED BY <2>2, <3>1, <3>2 DEF CopiesIn
  <2> QED BY <2>3, <2>4
<1> QED BY <1>1 DEF Contents, ContentsIn

-----------------------------------------------------------------------------
(* Saving, one file after the other                                        *)

\* A file that is there is not NoFile.
LEMMA FileIsThere ==
    /\ \A copies \in SUBSET Copies : copies # NoFile
    /\ \A ids \in SUBSET Ids : ids # NoFile
<1>1. \A copies \in SUBSET Copies : copies # NoFile
  BY SnapshotAssumption
<1>2. \A ids \in SUBSET Ids : ids # NoFile
  BY SnapshotAssumption
<1> QED BY <1>1, <1>2

\* The manifest of the index is well formed.
LEMMA ManifestType ==
    ASSUME IInv
    PROVE  IsManifest([counts |-> [i \in 0 .. depth - 1 |-> Cardinality(levels[i])],
                       tombstone_count |-> Cardinality(tombstones)])
<1>1. depth - 1 \in LevelIdx /\ \A i \in 0 .. depth - 1 : i \in LevelIdx
  BY LevelFacts DEF IInv, TypeOK, LevelIdx
<1>2. \A i \in LevelIdx : Cardinality(levels[i]) \in Nat
  BY IdsCardinality, FS_CardinalityType DEF IInv, TypeOK, OneCopyPerLevel, OneCopy
<1>3. Cardinality(tombstones) \in Nat
  BY LsmAssumption, FS_Subset, FS_CardinalityType DEF IInv, TypeOK
<1> QED BY <1>1, <1>2, <1>3 DEF IsManifest

\* The files keep their types.
LEMMA DiskTypeStep ==
    IInv /\ DiskTypeOK /\ SavingInv /\ [SnapshotNext]_snapshotVars => DiskTypeOK'
<1> SUFFICES ASSUME IInv, DiskTypeOK, SavingInv, [SnapshotNext]_snapshotVars
             PROVE  DiskTypeOK'
  OBVIOUS
<1>0. /\ levels \in [LevelIdx -> SUBSET Copies] /\ tombstones \in SUBSET Ids
      /\ \A i \in LevelIdx : i + 1 < depth => i + 1 \in LevelIdx
      /\ 0 \in LevelIdx
  BY LevelFacts DEF IInv, TypeOK, LevelIdx
<1>1. CASE UNCHANGED diskVars /\ saving' \in SavePoints
  BY <1>1 DEF DiskTypeOK, diskVars
<1>2. CASE WriteManifest
  BY <1>0, <1>2, ManifestType DEF WriteManifest, DiskTypeOK, SavePoints
<1>3. CASE WriteTombstones
  BY <1>0, <1>3 DEF WriteTombstones, DiskTypeOK, SavePoints
<1>4. ASSUME NEW i \in LevelIdx, WriteVectors(i) PROVE DiskTypeOK'
  BY <1>0, <1>4 DEF WriteVectors, DiskTypeOK, SavePoints
<1>5. ASSUME NEW i \in LevelIdx, WriteDocIds(i) PROVE DiskTypeOK'
  <2>1. IdsOf(levels[i]) \in SUBSET Ids
    BY <1>0 DEF IdsOf, Copies
  <2>2. saving' \in SavePoints
    BY <1>0, <1>5 DEF WriteDocIds, SavePoints
  <2>3. idFile' \in [LevelIdx -> (SUBSET Ids) \cup {NoFile}]
    BY <1>5, <2>1 DEF WriteDocIds, DiskTypeOK
  <2> QED BY <1>5, <2>2, <2>3 DEF WriteDocIds, DiskTypeOK
<1>6. CASE BeginSave \/ AbortSave \/ Load \/ StartEmpty
  BY <1>1, <1>6 DEF BeginSave, AbortSave, Load, StartEmpty, SavePoints
<1>7. CASE (Next /\ UNCHANGED <<diskVars, saving, saves, sealed>>) \/ UNCHANGED snapshotVars
  BY <1>1, <1>7 DEF snapshotVars, DiskTypeOK
<1> QED BY <1>2, <1>3, <1>4, <1>5, <1>6, <1>7 DEF SnapshotNext, Save

\* A pair of files that is marked as matching is one level of one save.
LEMMA PairedStep ==
    /\ IInv /\ DiskTypeOK /\ PairedInv /\ SavingInv
    /\ [SnapshotNext]_snapshotVars
    => PairedInv'
<1> SUFFICES ASSUME IInv, DiskTypeOK, PairedInv, SavingInv, [SnapshotNext]_snapshotVars
             PROVE  PairedInv'
  OBVIOUS
<1>1. CASE UNCHANGED <<vecFile, idFile, matching>>
  BY <1>1 DEF PairedInv
<1>2. ASSUME NEW i \in LevelIdx, WriteVectors(i) PROVE PairedInv'
  BY <1>2 DEF WriteVectors, PairedInv, DiskTypeOK
<1>3. ASSUME NEW i \in LevelIdx, WriteDocIds(i) PROVE PairedInv'
  <2>1. vecFile[i] = levels[i]
    BY <1>3 DEF WriteDocIds, SavingInv, At
  <2>2. levels[i] # NoFile /\ OneCopy(levels[i])
    BY FileIsThere DEF IInv, TypeOK, OneCopyPerLevel, OneCopy
  <2> QED BY <1>3, <2>1, <2>2 DEF WriteDocIds, PairedInv, DiskTypeOK
<1> QED BY <1>1, <1>2, <1>3 DEF SnapshotNext, Save, BeginSave, AbortSave, WriteManifest,
        WriteTombstones, Load, StartEmpty, snapshotVars, diskVars

\* What a save has written so far is what the index holds: nothing else runs
\* between its files.
LEMMA SavingStep ==
    IInv /\ DiskTypeOK /\ SavingInv /\ [SnapshotNext]_snapshotVars => SavingInv'
<1> SUFFICES ASSUME IInv, DiskTypeOK, SavingInv, [SnapshotNext]_snapshotVars
             PROVE  SavingInv'
  OBVIOUS
<1> USE DEF At, NotSaving
<1>0. depth \in Int /\ depth > 0
  BY LevelFacts DEF IInv, TypeOK
<1>1. CASE \/ BeginSave \/ AbortSave \/ Load \/ StartEmpty
           \/ Next /\ saving = NotSaving /\ UNCHANGED <<diskVars, saving, saves, sealed>>
  BY <1>1 DEF BeginSave, AbortSave, Load, StartEmpty, SavingInv
<1>2. CASE UNCHANGED snapshotVars
  BY <1>2 DEF snapshotVars, lsmVars, diskVars, SavingInv
<1>3. CASE WriteManifest
  BY <1>3 DEF WriteManifest, SavingInv, lsmVars
<1>4. CASE WriteTombstones
  BY <1>0, <1>4 DEF WriteTombstones, SavingInv, lsmVars
<1>5. ASSUME NEW i \in LevelIdx, WriteVectors(i) PROVE SavingInv'
  <2>1. /\ saving.file = "vectors" /\ saving.level = i
        /\ saving'.file = "doc_ids" /\ saving'.level = i
        /\ UNCHANGED <<lsmVars, manifest, tombFile, sealed>>
    BY <1>5 DEF WriteVectors
  <2>2. /\ vecFile'[i] = levels[i]
        /\ \A j \in LevelIdx \ {i} : vecFile'[j] = vecFile[j] /\ matching'[j] = matching[j]
    BY <1>5 DEF WriteVectors, DiskTypeOK
  <2>3. \A j \in 0 .. i - 1 : j \in LevelIdx \ {i}
    BY LevelFacts DEF LevelIdx
  <2> QED BY <2>1, <2>2, <2>3 DEF SavingInv, lsmVars
<1>6. ASSUME NEW i \in LevelIdx, WriteDocIds(i) PROVE SavingInv'
  <2>1. /\ saving.file = "doc_ids" /\ saving.level = i
        /\ UNCHANGED <<lsmVars, manifest, tombFile, vecFile>>
    BY <1>6 DEF WriteDocIds
  <2>2. /\ matching'[i] = TRUE
        /\ \A j \in LevelIdx \ {i} : matching'[j] = matching[j]
    BY <1>6 DEF WriteDocIds, DiskTypeOK
  <2>3. \A j \in 0 .. i : j = i \/ (j \in 0 .. i - 1 /\ j \in LevelIdx \ {i})
    BY LevelFacts DEF LevelIdx
  <2>4. CASE i + 1 < depth
    <3>1. saving' = At("vectors", i + 1) /\ UNCHANGED sealed
      BY <1>6, <2>4 DEF WriteDocIds
    <3>2. (i + 1) - 1 = i
      BY LevelFacts
    <3> QED BY <2>1, <2>2, <2>3, <2>4, <3>1, <3>2 DEF SavingInv, lsmVars
  <2>5. CASE ~(i + 1 < depth)
    BY <1>6, <2>5 DEF WriteDocIds, SavingInv
  <2> QED BY <2>4, <2>5
<1> QED BY <1>1, <1>2, <1>3, <1>4, <1>5, <1>6 DEF SnapshotNext, Save

\* A directory is sealed by the last file of a save, when it holds exactly
\* the levels and tombstones of the index, and until the next save begins.
LEMMA SealedStep ==
    /\ IInv /\ GraphInv /\ DiskTypeOK /\ SavingInv /\ SealedInv
    /\ [SnapshotNext]_snapshotVars
    => SealedInv'
<1> SUFFICES ASSUME IInv, GraphInv, DiskTypeOK, SavingInv, SealedInv,
                    [SnapshotNext]_snapshotVars
             PROVE  SealedInv'
  OBVIOUS
<1> USE DEF At, NotSaving
<1>1. CASE UNCHANGED <<diskVars, sealed>>
  BY <1>1 DEF SealedInv, FileLevels, diskVars
<1>2. ASSUME sealed' = Unsealed PROVE SealedInv'
  BY <1>2 DEF SealedInv
<1>3. CASE WriteManifest
  BY <1>2, <1>3 DEF WriteManifest
<1>4. CASE WriteTombstones \/ \E i \in LevelIdx : WriteVectors(i)
  BY <1>2, <1>4 DEF WriteTombstones, WriteVectors, SavingInv
<1>5. ASSUME NEW i \in LevelIdx, WriteDocIds(i) PROVE SealedInv'
  <2>1. /\ saving.file = "doc_ids" /\ saving.level = i
        /\ UNCHANGED <<lsmVars, manifest, tombFile, vecFile>>
    BY <1>5 DEF WriteDocIds
  <2>2. CASE i + 1 < depth
    BY <1>2, <1>5, <2>1, <2>2 DEF WriteDocIds, SavingInv
  <2>3. CASE ~(i + 1 < depth)
    <3>1. sealed' = Contents
      BY <1>5, <2>3 DEF WriteDocIds
    <3>2. /\ i = depth - 1 /\ i \in Nat
          /\ \A j \in 0 .. depth - 1 : j \in LevelIdx /\ (j = i \/ j \in 0 .. i - 1)
      BY <2>1, <2>3, LevelFacts DEF SavingInv, IInv, TypeOK, LevelIdx
    <3>3. \A j \in 0 .. depth - 1 : matching'[j] /\ vecFile'[j] = levels[j]
      BY <1>5, <2>1, <3>2 DEF SavingInv, WriteDocIds, DiskTypeOK
    <3>4. /\ manifest' = [counts |-> [j \in 0 .. depth - 1 |-> Cardinality(levels[j])],
                          tombstone_count |-> Cardinality(tombstones)]
          /\ tombFile' = tombstones
      BY <2>1 DEF SavingInv
    <3>5. DOMAIN manifest'.counts = 0 .. depth - 1
      BY <3>4
    <3>6. FileLevels' = levels
      <4>1. levels \in [LevelIdx -> SUBSET Copies] /\ depth \in Int
        BY LevelFacts DEF IInv, TypeOK
      <4>2. \A j \in LevelIdx : j \notin 0 .. depth - 1 => levels[j] = {}
        BY <4>1 DEF GraphInv, LevelIdx
      <4> QED BY <3>3, <3>5, <4>1, <4>2 DEF FileLevels
    <3>7. sealed' = ContentsIn(FileLevels', tombFile')
      BY <3>1, <3>4, <3>6, ContentsRead
    <3>8. manifest' # NoFile /\ tombFile' # NoFile
      <4>1. manifest' # NoFile
        BY <3>4, ManifestType, SnapshotAssumption
      <4> QED BY <3>4, <4>1, FileIsThere DEF IInv, TypeOK
    <3>9. \A j \in 0 .. depth - 1 :
              /\ Cardinality(vecFile'[j]) = manifest'.counts[j]
              /\ j > 0 => Buildable(vecFile'[j])
      BY <3>2, <3>3, <3>4 DEF GraphInv
    <3> QED BY <3>3, <3>4, <3>5, <3>7, <3>8, <3>9 DEF SealedInv
  <2> QED BY <2>2, <2>3
<1>6. CASE \/ BeginSave \/ AbortSave \/ Load \/ StartEmpty
           \/ (Next /\ UNCHANGED <<diskVars, saving, saves, sealed>>) \/ UNCHANGED snapshotVars
  BY <1>1, <1>6 DEF BeginSave, AbortSave, Load, StartEmpty, snapshotVars
<1> QED BY <1>3, <1>4, <1>5, <1>6 DEF SnapshotNext, Save

-----------------------------------------------------------------------------
(* The snapshot directory restores what was sealed                         *)

\* An empty directory satisfies the invariant.
LEMMA SnapshotInitInv == SnapshotInit => SnapshotIInv
<1> SUFFICES ASSUME SnapshotInit PROVE SnapshotIInv
  OBVIOUS
<1>1. IInv
  BY InitInv DEF SnapshotInit
<1>2. GraphInv
  BY DEF SnapshotInit, Init, GraphInv, Buildable
<1>3. DiskTypeOK /\ PairedInv /\ SavingInv /\ SealedInv
  BY DEF SnapshotInit, DiskTypeOK, PairedInv, SavingInv, SealedInv, SavePoints, NotSaving
<1> QED BY <1>1, <1>2, <1>3 DEF SnapshotIInv

\* A new index satisfies the invariant, beside any directory.
LEMMA StartEmptyInv == StartEmpty => IInv' /\ GraphInv'
<1> SUFFICES ASSUME StartEmpty PROVE IInv' /\ GraphInv'
  OBVIOUS
<1>1. Init'
  BY DEF StartEmpty, Init
<1>2. IInv'
  BY <1>1, InitInv, PTL
<1>3. GraphInv'
  BY <1>1 DEF Init, GraphInv, Buildable
<1> QED BY <1>2, <1>3

\* Every call, every file of a save, every save that fails and every start
\* keeps the invariant.
LEMMA SnapshotStep == SnapshotIInv /\ [SnapshotNext]_snapshotVars => SnapshotIInv'
<1> SUFFICES ASSUME SnapshotIInv, [SnapshotNext]_snapshotVars PROVE SnapshotIInv'
  OBVIOUS
<1> USE DEF SnapshotIInv
<1>1. DiskTypeOK' /\ PairedInv' /\ SavingInv' /\ SealedInv'
  BY DiskTypeStep, PairedStep, SavingStep, SealedStep
<1>2. CASE Load
  BY <1>1, <1>2, LoadInv
<1>3. CASE StartEmpty
  BY <1>1, <1>3, StartEmptyInv
<1>4. CASE [Next]_lsmVars
  BY <1>1, <1>4, StepInv, GraphStep
<1> QED BY <1>2, <1>3, <1>4 DEF SnapshotNext, BeginSave, AbortSave, Save, WriteManifest,
        WriteTombstones, WriteVectors, WriteDocIds, snapshotVars

\* The strengthened invariant of the index with its directory.
THEOREM SnapshotInvariance == SnapshotSpec => []SnapshotIInv
BY SnapshotInitInv, SnapshotStep, PTL DEF SnapshotSpec

\* A directory whose save ran to its end is always accepted by load_from_dir.
THEOREM SealedIsLoadableAlways == SnapshotSpec => []SealedIsLoadable
<1>1. SnapshotIInv => SealedIsLoadable
  <2> SUFFICES ASSUME SnapshotIInv, sealed # Unsealed
               PROVE  /\ Loadable
                      /\ \A i \in DOMAIN manifest.counts :
                            matching[i] /\ (i > 0 => Buildable(vecFile[i]))
    BY DEF SealedIsLoadable
  <2>1. PICK n \in LevelIdx : manifest \in [counts : [0 .. n -> Nat], tombstone_count : Nat]
    BY DEF SnapshotIInv, SealedInv, DiskTypeOK, IsManifest
  <2>2. ASSUME NEW i \in DOMAIN manifest.counts
        PROVE  /\ matching[i] /\ (i > 0 => Buildable(vecFile[i]))
               /\ vecFile[i] # NoFile /\ idFile[i] # NoFile
               /\ Cardinality(vecFile[i]) = manifest.counts[i]
               /\ Cardinality(idFile[i]) = manifest.counts[i]
    <3>1. i \in LevelIdx
      <4>1. DOMAIN manifest.counts = 0 .. n
        BY <2>1
      <4>2. 0 .. n \subseteq LevelIdx
        BY LevelFacts DEF LevelIdx
      <4> QED BY <4>1, <4>2
    <3>2. matching[i] /\ Cardinality(vecFile[i]) = manifest.counts[i] /\ (i > 0 => Buildable(vecFile[i]))
      BY DEF SnapshotIInv, SealedInv
    <3>3. vecFile[i] # NoFile /\ OneCopy(vecFile[i]) /\ idFile[i] = IdsOf(vecFile[i])
      BY <3>1, <3>2 DEF SnapshotIInv, PairedInv
    <3>4. vecFile[i] \in SUBSET Copies
      BY <3>1, <3>3 DEF SnapshotIInv, DiskTypeOK
    <3>5. Cardinality(IdsOf(vecFile[i])) = Cardinality(vecFile[i]) /\ IdsOf(vecFile[i]) \in SUBSET Ids
      BY <3>3, <3>4, IdsCardinality DEF IdsOf, Copies
    <3> QED BY <3>2, <3>3, <3>5, FileIsThere
  <2> QED BY <2>2 DEF SnapshotIInv, SealedInv, Loadable
<1> QED BY <1>1, SnapshotInvariance, PTL

\* A restart from a sealed directory holds exactly what the index held when
\* it was saved, whatever earlier saves left beside the files.
THEOREM LoadRestores == SnapshotSpec => LoadRestoresSealed
<1>1. SnapshotIInv => (Load /\ sealed # Unsealed => Contents' = sealed)
  <2> SUFFICES ASSUME SnapshotIInv, Load, sealed # Unsealed PROVE Contents' = sealed
    OBVIOUS
  <2>1. PICK last \in LevelIdx :
            /\ DOMAIN manifest.counts = 0 .. last
            /\ levels' \in [LevelIdx -> {{}} \cup UNION {Pairings(i) : i \in 0 .. last}]
            /\ \A i \in 0 .. last : levels'[i] \in Pairings(i)
            /\ \A i \in LevelIdx : i > last => levels'[i] = {}
    BY LoadShape DEF SnapshotIInv
  <2>2. \A i \in 0 .. last : levels'[i] = vecFile[i]
    BY <2>1 DEF SnapshotIInv, SealedInv, Pairings
  <2>3. \A i \in LevelIdx : i \notin 0 .. last => levels'[i] = {}
    BY <2>1, LevelFacts DEF LevelIdx
  <2>4. levels' = FileLevels
    BY <2>1, <2>2, <2>3 DEF FileLevels
  <2>5. tombstones' = tombFile /\ Contents' = ContentsIn(levels', tombstones')
    BY LoadContents DEF SnapshotIInv, Load
  <2> QED BY <2>4, <2>5 DEF SnapshotIInv, SealedInv
<1>2. SnapshotIInv /\ [SnapshotNext]_snapshotVars
          => [Load /\ sealed # Unsealed => Contents' = sealed]_snapshotVars
  BY <1>1
<1> QED BY <1>2, SnapshotInvariance, PTL DEF SnapshotSpec, LoadRestoresSealed
-----------------------------------------------------------------------------
(* Search                                                                  *)

\* What is nearer than c among some copies.
Before(copies, c) == {d \in copies : Nearer(d, c)}

\* Nearer is a strict order: its ties are broken by id.
LEMMA NearerOrder ==
    /\ \A c \in Copies : ~Nearer(c, c)
    /\ \A c, d, e \in Copies : Nearer(c, d) /\ Nearer(d, e) => Nearer(c, e)
<1>1. \A c \in Copies : Distance[c.vec] \in Int /\ c.id \in Int
  BY SearchAssumption DEF Copies
<1> QED BY <1>1 DEF Nearer

\* Fewer copies leave fewer that are nearer.
LEMMA BeforeShrinks ==
    ASSUME NEW S, IsFiniteSet(S), NEW T \in SUBSET S, NEW c
    PROVE  /\ IsFiniteSet(Before(S, c)) /\ IsFiniteSet(Before(T, c))
           /\ Cardinality(Before(S, c)) \in Nat /\ Cardinality(Before(T, c)) \in Nat
           /\ Cardinality(Before(T, c)) <= Cardinality(Before(S, c))
<1>1. Before(S, c) \in SUBSET S /\ Before(T, c) \in SUBSET Before(S, c)
  BY DEF Before
<1>2. IsFiniteSet(Before(S, c))
  BY <1>1, FS_Subset
<1> QED BY <1>1, <1>2, FS_Subset, FS_CardinalityType

\* A copy that is not among the K nearest has K of those before it: the
\* nearest of the copies that are not among them has only such before it.
LEMMA KBefore ==
    ASSUME NEW S \in SUBSET Copies, IsFiniteSet(S), NEW c \in S, c \notin NearestOf(S)
    PROVE  ~(Cardinality(Before(NearestOf(S), c)) < K)
<1> DEFINE Far == {d \in S \ NearestOf(S) : d = c \/ Nearer(d, c)}
           rank(d) == Cardinality(Before(S, d))
           Ranks == {rank(d) : d \in Far}
<1>1. \A d \in S : rank(d) \in Nat
  BY BeforeShrinks
<1>2. Ranks \in SUBSET Nat /\ Ranks # {}
  <2>1. c \in Far
    OBVIOUS
  <2> QED BY <1>1, <2>1
<1>3. PICK n \in Ranks : \A m \in Ranks : n <= m
  <2> HIDE DEF Ranks
  <2> QED BY <1>2, LeastExists
<1>4. PICK d \in Far : n = rank(d)
  OBVIOUS
<1>5. d \in S /\ d \notin NearestOf(S) /\ (d = c \/ Nearer(d, c))
  OBVIOUS
<1>6. \A e \in Before(S, d) : e \in S /\ Nearer(e, d) /\ Nearer(e, c)
  BY <1>5, NearerOrder DEF Before
<1>7. ASSUME NEW e \in Before(S, d), e \notin NearestOf(S) PROVE FALSE
  <2>1. e \in Far
    BY <1>6, <1>7
  <2>2. n <= rank(e) /\ rank(e) \in Nat /\ rank(d) \in Nat
    BY <1>1, <1>3, <1>5, <1>6, <2>1
  <2>3. Before(S, e) \in SUBSET Before(S, d) /\ e \notin Before(S, e)
    BY <1>5, <1>6, NearerOrder DEF Before
  <2>4. IsFiniteSet(Before(S, d))
    BY BeforeShrinks
  <2>5. Cardinality(Before(S, e)) <= Cardinality(Before(S, d))
        /\ Cardinality(Before(S, e)) # Cardinality(Before(S, d))
    <3> HIDE DEF Far
    <3>1. Before(S, e) # Before(S, d)
      BY <2>3
    <3> QED BY <2>3, <2>4, <3>1, FS_Subset
  <2> HIDE DEF Ranks, Far
  <2> QED BY <1>4, <2>2, <2>5
<1>8. Before(S, d) \in SUBSET Before(NearestOf(S), c)
  BY <1>6, <1>7 DEF Before
<1>9. /\ IsFiniteSet(Before(NearestOf(S), c))
      /\ Cardinality(Before(NearestOf(S), c)) \in Nat
  <2>1. NearestOf(S) \in SUBSET S
    BY DEF NearestOf
  <2> QED BY <2>1, BeforeShrinks
<1>10. Cardinality(Before(S, d)) <= Cardinality(Before(NearestOf(S), c))
  BY <1>8, <1>9, FS_Subset
<1>11. ~(Cardinality(Before(S, d)) < K)
  BY <1>5 DEF NearestOf, Before
<1>12. rank(d) \in Nat
  BY <1>1, <1>5
<1> QED BY <1>9, <1>10, <1>11, <1>12, SearchAssumption

\* Nothing but the K nearest matters: the K nearest of any part that holds
\* them are the K nearest of all.
LEMMA NearestOfPart ==
    ASSUME NEW S \in SUBSET Copies, IsFiniteSet(S), NEW T \in SUBSET S,
           NearestOf(S) \subseteq T
    PROVE  NearestOf(T) = NearestOf(S)
<1>1. ASSUME NEW c \in NearestOf(S) PROVE c \in NearestOf(T)
  <2>1. c \in T /\ Cardinality(Before(S, c)) < K
    BY <1>1 DEF NearestOf, Before
  <2>2. Cardinality(Before(T, c)) < K
    BY <2>1, BeforeShrinks, SearchAssumption
  <2> QED BY <2>1, <2>2 DEF NearestOf, Before
<1>2. ASSUME NEW c \in NearestOf(T), c \notin NearestOf(S) PROVE FALSE
  <2>1. c \in S /\ Cardinality(Before(T, c)) < K
    BY <1>2 DEF NearestOf, Before
  <2>2. ~(Cardinality(Before(NearestOf(S), c)) < K)
    BY <1>2, <2>1, KBefore
  <2>3. IsFiniteSet(T)
    BY FS_Subset
  <2> QED BY <2>1, <2>2, <2>3, BeforeShrinks, SearchAssumption
<1> QED BY <1>1, <1>2

\* A level is asked for its K nearest only, and what is not live there is
\* dropped: every answer is live.
LEMMA SearchFindsLive == Search \subseteq AllLive
<1>1. ASSUME NEW i \in LevelIdx PROVE SearchLevel(i) \subseteq LiveCopies(i)
  <2>1. CASE i = 0
    BY <2>1 DEF SearchLevel, NearestOf
  <2>2. CASE i # 0
    BY <2>2 DEF SearchLevel, NearestOf, LiveCopies
  <2> QED BY <2>1, <2>2
<1>2. Search \subseteq UNION {SearchLevel(i) : i \in LevelIdx}
  BY DEF Search, NearestOf
<1> QED BY <1>1, <1>2 DEF AllLive

\* What the index holds is what its live copies hold.
LEMMA LiveContents ==
    ASSUME IInv
    PROVE  {[id |-> id, vec |-> Contents[id]] :
                id \in {x \in Ids : Contents[x] # Missing}} = AllLive
<1>1. ASSUME NEW c \in AllLive
      PROVE  /\ c.id \in Ids /\ Contents[c.id] # Missing
             /\ c = [id |-> c.id, vec |-> Contents[c.id]]
  <2>1. c \in Copies
    BY DEF AllLive, LiveCopies, IInv, TypeOK
  <2> QED BY <2>1, ContentOfLive, MissingAssumption DEF Copies
<1>2. ASSUME NEW id \in Ids, Contents[id] # Missing
      PROVE  [id |-> id, vec |-> Contents[id]] \in AllLive
  <2>1. PICK c \in AllLive : c.id = id
    BY <1>2 DEF Contents, VecOf, VisibleCopies
  <2> QED BY <1>1, <2>1
<1> QED BY <1>1, <1>2

\* The invariant gives the exactness of a search of clean levels.
LEMMA InvSearch == IInv => SearchExactWhenClean
<1> SUFFICES ASSUME IInv PROVE SearchExactWhenClean
  OBVIOUS
<1>1. \A c, d \in Search : c.id = d.id => c = d
  BY SearchFindsLive, OneLiveCopy
<1>2. ASSUME \A i \in LevelIdx \ {0} : levels[i] = LiveCopies(i)
      PROVE  Search = NearestOf(AllLive)
  <2> DEFINE Answers == UNION {SearchLevel(i) : i \in LevelIdx}
  <2>1. AllLive \in SUBSET Copies /\ OneCopy(AllLive)
    BY OneLiveCopy DEF OneCopy, AllLive, LiveCopies, IInv, TypeOK
  <2>2. IsFiniteSet(AllLive)
    BY <2>1, IdsCardinality
  <2>3. \A i \in LevelIdx : SearchLevel(i) = NearestOf(LiveCopies(i))
    BY <1>2 DEF SearchLevel, NearestOf, LiveCopies
  <2>4. Answers \in SUBSET AllLive
    BY <2>3 DEF NearestOf, AllLive
  <2>5. ASSUME NEW c \in NearestOf(AllLive) PROVE c \in Answers
    <3>1. c \in AllLive /\ Cardinality(Before(AllLive, c)) < K
      BY <2>5 DEF NearestOf, Before
    <3>2. PICK i \in LevelIdx : c \in LiveCopies(i)
      BY <3>1 DEF AllLive
    <3>3. LiveCopies(i) \in SUBSET AllLive
      BY DEF AllLive
    <3>4. Cardinality(Before(LiveCopies(i), c)) < K
      BY <2>2, <3>1, <3>3, BeforeShrinks, SearchAssumption
    <3>5. c \in NearestOf(LiveCopies(i))
      BY <3>2, <3>4 DEF NearestOf, Before
    <3> QED BY <2>3, <3>5
  <2> HIDE DEF Answers
  <2>6. NearestOf(Answers) = NearestOf(AllLive)
    BY <2>1, <2>2, <2>4, <2>5, NearestOfPart
  <2> QED BY <2>6 DEF Search, Answers
<1> QED BY <1>1, <1>2, LiveContents DEF SearchExactWhenClean

\* A search never answers with two versions of an id, and over levels without
\* superseded copies it answers with exactly the K nearest of the newest
\* vectors: asking each level for K and cutting the merge to K loses none.
THEOREM SearchExactWhenCleanAlways == Spec => []SearchExactWhenClean
BY InvSearch, Invariance, PTL
=============================================================================
