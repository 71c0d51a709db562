--------------------------- MODULE ArenaOpsProofs ---------------------------
(***************************************************************************)
(* What insert() and erase() do to an arena, and that they keep its free   *)
(* list and its id index exact: lemmas about the operators of ArenaOps.    *)
(***************************************************************************)
EXTENDS ArenaOps, TLAPS, SequenceTheorems, WellFoundedInduction

(* The generations lie in range, and inserting never yields generation 0.  *)
LEMMA GenRange ==
  ASSUME NEW g \in 0 .. GenMod - 1
  PROVE  /\ NextGen(g) \in 0 .. GenMod - 1
         /\ NextGen(g) = IF g = GenMod - 1 THEN 0 ELSE g + 1
         /\ LiftGen(g) \in 1 .. GenMod - 1
BY GenModAssumption DEF NextGen, LiftGen

(* The target of an insertion is a dead slot or the one after the last.    *)
LEMMA TargetRange ==
  ASSUME NEW a, IsArena(a), FreeExact(a)
  PROVE  /\ a.free = << >> => TargetSlot(a) = Len(a.slots) + 1
         /\ a.free # << >> => TargetSlot(a) \in DeadSlots(a)
         /\ TargetSlot(a) \in Nat \ {0}
         /\ TargetSlot(a) \notin LiveSlots(a)
BY DEF TargetSlot, IsArena, FreeExact, DeadSlots, LiveSlots, IsLive

LEMMA SlotFields ==
  ASSUME NEW a, IsArena(a), NEW j \in DOMAIN a.slots
  PROVE  /\ a.slots[j] \in Slot
         /\ a.slots[j].value \in Value \cup {NoValue}
         /\ a.slots[j].id \in Nat
         /\ a.slots[j].gen \in 0 .. GenMod - 1
         /\ j \in Nat \ {0}
<1>1. a.slots[j] \in Slot /\ j \in Nat \ {0}
  BY DEF IsArena
<1> QED BY <1>1 DEF Slot

(* What insert() does: the target slot holds the new entity under a         *)
(* non-null generation, the other slots and the other ids are untouched.    *)
LEMMA InsertEffect ==
  ASSUME NEW a, IsArena(a), FreeExact(a), NEW v \in Value, NEW id \in Nat
  PROVE  LET b == Insert(a, v, id)
             i == TargetSlot(a)
         IN  /\ IsArena(b)
             /\ DOMAIN b.slots = DOMAIN a.slots \cup {i}
             /\ b.slots[i] = [value |-> v, id |-> id, gen |-> SlotGen(a)]
             /\ \A j \in DOMAIN a.slots \ {i} : b.slots[j] = a.slots[j]
             /\ SlotGen(a) \in 1 .. GenMod - 1
             /\ i \in DOMAIN a.slots => SlotGen(a) = LiftGen(a.slots[i].gen)
             /\ i \notin DOMAIN a.slots => SlotGen(a) = 1
             /\ DOMAIN b.idIndex = DOMAIN a.idIndex \cup {id}
             /\ b.idIndex[id] = i
             /\ \A x \in DOMAIN a.idIndex \ {id} : b.idIndex[x] = a.idIndex[x]
<1> DEFINE b == Insert(a, v, id)
           i == TargetSlot(a)
           s == [value |-> v, id |-> id, gen |-> SlotGen(a)]
<1>1. SlotGen(a) \in 1 .. GenMod - 1
  <2>1. CASE TargetSlot(a) \in DOMAIN a.slots
    <3>1. a.slots[TargetSlot(a)].gen \in 0 .. GenMod - 1
      BY <2>1, SlotFields
    <3> QED BY <2>1, <3>1, GenRange DEF SlotGen
  <2>2. CASE TargetSlot(a) \notin DOMAIN a.slots
    BY <2>2, GenModAssumption DEF SlotGen, LiftGen
  <2> QED BY <2>1, <2>2
<1>2. s \in Slot
  BY <1>1 DEF Slot
<1>3. a.slots \in Seq(Slot) /\ a.free \in Seq(DOMAIN a.slots)
  BY DEF IsArena
<1>4. /\ b.slots \in Seq(Slot)
      /\ DOMAIN b.slots = DOMAIN a.slots \cup {i}
      /\ b.slots[i] = s
      /\ \A j \in DOMAIN a.slots \ {i} : b.slots[j] = a.slots[j]
  <2>1. CASE a.free = << >>
    BY <2>1, <1>2, <1>3 DEF Insert, TargetSlot
  <2>2. CASE a.free # << >>
    <3>1. i \in DOMAIN a.slots
      BY <2>2, TargetRange DEF DeadSlots
    <3>2. b.slots = [a.slots EXCEPT ![i] = s]
      BY <2>2 DEF Insert
    <3> QED BY <3>1, <3>2, <1>2, <1>3
  <2> QED BY <2>1, <2>2
<1>5. b.free \in Seq(DOMAIN b.slots)
  <2>1. CASE a.free = << >>
    BY <2>1 DEF Insert
  <2>2. CASE a.free # << >>
    <3>1. b.free = SubSeq(a.free, 1, Len(a.free) - 1)
      BY <2>2 DEF Insert
    <3>2. b.free = [k \in 1 .. Len(a.free) - 1 |-> a.free[k]]
      BY <3>1, <2>2, <1>3
    <3>3. Len(a.free) - 1 \in Nat
      BY <1>3, <2>2
    <3>4. \A k \in 1 .. Len(a.free) - 1 : a.free[k] \in DOMAIN b.slots
      BY <1>3, <1>4
    <3> QED BY <3>2, <3>3, <3>4
  <2> QED BY <2>1, <2>2
<1>6. /\ DOMAIN b.idIndex = DOMAIN a.idIndex \cup {id}
      /\ b.idIndex[id] = i
      /\ \A x \in DOMAIN a.idIndex \ {id} : b.idIndex[x] = a.idIndex[x]
  BY DEF Insert
<1>7. b.idIndex \in [DOMAIN b.idIndex -> DOMAIN b.slots]
  BY <1>4 DEF Insert, IsArena
<1>8. IsArena(b)
  BY <1>4, <1>5, <1>6, <1>7 DEF Insert, IsArena
<1>9. /\ i \in DOMAIN a.slots => SlotGen(a) = LiftGen(a.slots[i].gen)
      /\ i \notin DOMAIN a.slots => SlotGen(a) = 1
  BY DEF SlotGen, LiftGen
<1> QED BY <1>1, <1>4, <1>6, <1>8, <1>9

(* What erase() does with a handle that resolves: the slot is emptied, its *)
(* generation moves on, it goes to the end of the free list, and its id    *)
(* leaves the index.                                                       *)
LEMMA EraseEffect ==
  ASSUME NEW a, IsArena(a), NEW h, Located(a, h)
  PROVE  LET b == Erase(a, h)
             i == h.index
         IN  /\ IsArena(b)
             /\ i \in LiveSlots(a)
             /\ DOMAIN b.slots = DOMAIN a.slots
             /\ b.slots[i] = [value |-> NoValue, id |-> a.slots[i].id,
                              gen |-> NextGen(a.slots[i].gen)]
             /\ \A j \in DOMAIN a.slots \ {i} : b.slots[j] = a.slots[j]
             /\ b.free = Append(a.free, i)
             /\ DOMAIN b.idIndex = DOMAIN a.idIndex \ {a.slots[i].id}
             /\ \A x \in DOMAIN b.idIndex : b.idIndex[x] = a.idIndex[x]
<1> DEFINE b == Erase(a, h)
           i == h.index
           s == [value |-> NoValue, id |-> a.slots[i].id,
                 gen |-> NextGen(a.slots[i].gen)]
<1>1. i \in DOMAIN a.slots /\ i \in LiveSlots(a)
  BY DEF Located, LiveSlots
<1>2. b = [slots   |-> [a.slots EXCEPT ![i] = s],
           free    |-> Append(a.free, i),
           idIndex |-> Remove(a.idIndex, a.slots[i].id)]
  BY DEF Erase, Erasable
<1>3. s \in Slot
  BY <1>1, SlotFields, GenRange DEF Slot
<1>4. a.slots \in Seq(Slot) /\ a.free \in Seq(DOMAIN a.slots)
  BY DEF IsArena
<1>5. /\ b.slots \in Seq(Slot)
      /\ DOMAIN b.slots = DOMAIN a.slots
      /\ b.slots[i] = s
      /\ \A j \in DOMAIN a.slots \ {i} : b.slots[j] = a.slots[j]
  BY <1>1, <1>2, <1>3, <1>4
<1>6. b.free = Append(a.free, i) /\ b.free \in Seq(DOMAIN b.slots)
  BY <1>1, <1>2, <1>4, <1>5
<1>7. /\ DOMAIN b.idIndex = DOMAIN a.idIndex \ {a.slots[i].id}
      /\ \A x \in DOMAIN b.idIndex : b.idIndex[x] = a.idIndex[x]
      /\ b.idIndex \in [DOMAIN b.idIndex -> DOMAIN b.slots]
      /\ DOMAIN b.idIndex \subseteq Nat
  BY <1>2, <1>5 DEF Remove, IsArena
<1>8. IsArena(b)
  BY <1>2, <1>5, <1>6, <1>7 DEF IsArena
<1> QED BY <1>1, <1>5, <1>6, <1>7, <1>8

(* insert() and erase() keep the free list and the id index exact.          *)
LEMMA InsertFreeExact ==
  ASSUME NEW a, IsArena(a), FreeExact(a), NEW v \in Value, NEW id \in Nat
  PROVE  FreeExact(Insert(a, v, id))
<1> DEFINE b == Insert(a, v, id)
           i == TargetSlot(a)
<1>1. /\ DOMAIN b.slots = DOMAIN a.slots \cup {i}
      /\ b.slots[i] = [value |-> v, id |-> id, gen |-> SlotGen(a)]
      /\ \A j \in DOMAIN a.slots \ {i} : b.slots[j] = a.slots[j]
  BY InsertEffect
<1>2. DeadSlots(b) = DeadSlots(a) \ {i}
  BY <1>1, NoValueAssumption DEF DeadSlots, IsLive
<1>3. a.free \in Seq(DOMAIN a.slots)
  BY DEF IsArena
<1>4. CASE a.free = << >>
  <2>1. b.free = << >> /\ DeadSlots(a) = {}
    BY <1>4 DEF Insert, FreeExact
  <2> QED BY <2>1, <1>2 DEF FreeExact
<1>5. CASE a.free # << >>
  <2>1. b.free = SubSeq(a.free, 1, Len(a.free) - 1) /\ i = a.free[Len(a.free)]
    BY <1>5 DEF Insert, TargetSlot
  <2>2. b.free = [k \in 1 .. Len(a.free) - 1 |-> a.free[k]]
    BY <2>1, <1>5, <1>3
  <2>3. DOMAIN b.free = DOMAIN a.free \ {Len(a.free)}
    BY <2>2, <1>3, <1>5
  <2>4. \A k \in DOMAIN b.free : b.free[k] = a.free[k]
    BY <2>2, <2>3
  <2>5. Len(a.free) \in DOMAIN a.free
    BY <1>3, <1>5
  <2> HIDE DEF b
  <2>6. \A k \in DOMAIN b.free : b.free[k] \in DeadSlots(b)
    BY <2>1, <2>3, <2>4, <2>5, <1>2 DEF FreeExact
  <2>7. \A j \in DeadSlots(b) : \E k \in DOMAIN b.free : b.free[k] = j
    BY <2>1, <2>3, <2>4, <2>5, <1>2 DEF FreeExact
  <2>8. FreeExact(b)
    BY <2>3, <2>4, <2>6, <2>7 DEF FreeExact
  <2> QED BY <2>8 DEF b
<1> QED BY <1>4, <1>5

LEMMA EraseFreeExact ==
  ASSUME NEW a, IsArena(a), FreeExact(a), NEW h, Located(a, h)
  PROVE  FreeExact(Erase(a, h))
<1> DEFINE b == Erase(a, h)
           i == h.index
<1>1. /\ DOMAIN b.slots = DOMAIN a.slots
      /\ b.slots[i] = [value |-> NoValue, id |-> a.slots[i].id,
                       gen |-> NextGen(a.slots[i].gen)]
      /\ \A j \in DOMAIN a.slots \ {i} : b.slots[j] = a.slots[j]
      /\ b.free = Append(a.free, i)
      /\ i \in LiveSlots(a)
  BY EraseEffect
<1>2. DeadSlots(b) = DeadSlots(a) \cup {i} /\ i \notin DeadSlots(a)
  BY <1>1 DEF DeadSlots, LiveSlots, IsLive
<1>3. a.free \in Seq(DOMAIN a.slots) /\ i \in DOMAIN a.slots
  BY <1>1 DEF IsArena, LiveSlots
<1>4. /\ DOMAIN b.free = DOMAIN a.free \cup {Len(a.free) + 1}
      /\ b.free[Len(a.free) + 1] = i
      /\ \A k \in DOMAIN a.free : b.free[k] = a.free[k]
  BY <1>1, <1>3
<1> QED BY <1>2, <1>4 DEF FreeExact

LEMMA InsertLive ==
  ASSUME NEW a, IsArena(a), FreeExact(a), NEW v \in Value, NEW id \in Nat
  PROVE  /\ LiveSlots(Insert(a, v, id)) = LiveSlots(a) \cup {TargetSlot(a)}
         /\ TargetSlot(a) \notin LiveSlots(a)
         /\ Located(Insert(a, v, id), InsertHandle(a))
<1> DEFINE b == Insert(a, v, id)
           i == TargetSlot(a)
<1>1. /\ DOMAIN b.slots = DOMAIN a.slots \cup {i}
      /\ b.slots[i] = [value |-> v, id |-> id, gen |-> SlotGen(a)]
      /\ \A j \in DOMAIN a.slots \ {i} : b.slots[j] = a.slots[j]
      /\ SlotGen(a) \in 1 .. GenMod - 1
  BY InsertEffect
<1>2. i \notin LiveSlots(a)
  BY TargetRange
<1>3. LiveSlots(b) = LiveSlots(a) \cup {i}
  BY <1>1, NoValueAssumption DEF LiveSlots, IsLive
<1>4. Located(b, InsertHandle(a))
  BY <1>1, NoValueAssumption, GenModAssumption DEF Located, InsertHandle, IsLive
<1> QED BY <1>2, <1>3, <1>4

LEMMA EraseLive ==
  ASSUME NEW a, IsArena(a), NEW h, Located(a, h)
  PROVE  LiveSlots(Erase(a, h)) = LiveSlots(a) \ {h.index}
<1> DEFINE b == Erase(a, h)
           i == h.index
<1>1. /\ DOMAIN b.slots = DOMAIN a.slots
      /\ b.slots[i] = [value |-> NoValue, id |-> a.slots[i].id,
                       gen |-> NextGen(a.slots[i].gen)]
      /\ \A j \in DOMAIN a.slots \ {i} : b.slots[j] = a.slots[j]
  BY EraseEffect
<1> QED BY <1>1 DEF LiveSlots, IsLive

LEMMA InsertIndexSound ==
  ASSUME NEW a, IsArena(a), FreeExact(a), IndexSound(a),
         NEW v \in Value, NEW id \in Nat
  PROVE  IndexSound(Insert(a, v, id))
<1> DEFINE b == Insert(a, v, id)
           i == TargetSlot(a)
<1>1. /\ b.slots[i] = [value |-> v, id |-> id, gen |-> SlotGen(a)]
      /\ \A j \in DOMAIN a.slots \ {i} : b.slots[j] = a.slots[j]
      /\ DOMAIN b.idIndex = DOMAIN a.idIndex \cup {id}
      /\ b.idIndex[id] = i
      /\ \A x \in DOMAIN a.idIndex \ {id} : b.idIndex[x] = a.idIndex[x]
  BY InsertEffect
<1>2. LiveSlots(b) = LiveSlots(a) \cup {i} /\ i \notin LiveSlots(a)
  BY InsertLive
<1>3. ASSUME NEW x \in DOMAIN b.idIndex
      PROVE  b.idIndex[x] \in LiveSlots(b) /\ b.slots[b.idIndex[x]].id = x
  <2>1. CASE x = id
    BY <2>1, <1>1, <1>2
  <2>2. CASE x # id
    <3>1. b.idIndex[x] = a.idIndex[x] /\ a.idIndex[x] \in LiveSlots(a)
      BY <2>2, <1>1 DEF IndexSound
    <3>2. b.slots[a.idIndex[x]] = a.slots[a.idIndex[x]]
      BY <3>1, <1>1, <1>2 DEF LiveSlots
    <3> QED BY <2>2, <3>1, <3>2, <1>1, <1>2 DEF IndexSound
  <2> QED BY <2>1, <2>2
<1> QED BY <1>3 DEF IndexSound

LEMMA EraseIndexSound ==
  ASSUME NEW a, IsArena(a), IndexSound(a), NEW h, Located(a, h)
  PROVE  IndexSound(Erase(a, h))
<1> DEFINE b == Erase(a, h)
           i == h.index
<1>1. /\ \A j \in DOMAIN a.slots \ {i} : b.slots[j] = a.slots[j]
      /\ DOMAIN b.idIndex = DOMAIN a.idIndex \ {a.slots[i].id}
      /\ \A x \in DOMAIN b.idIndex : b.idIndex[x] = a.idIndex[x]
  BY EraseEffect
<1>2. LiveSlots(b) = LiveSlots(a) \ {i}
  BY EraseLive
<1>3. ASSUME NEW x \in DOMAIN b.idIndex
      PROVE  b.idIndex[x] \in LiveSlots(b) /\ b.slots[b.idIndex[x]].id = x
  <2>1. /\ b.idIndex[x] = a.idIndex[x]
        /\ a.idIndex[x] \in LiveSlots(a)
        /\ a.slots[a.idIndex[x]].id = x
        /\ x # a.slots[i].id
    BY <1>1 DEF IndexSound
  <2>2. a.idIndex[x] # i
    BY <2>1
  <2>3. b.slots[a.idIndex[x]] = a.slots[a.idIndex[x]]
    BY <2>1, <2>2, <1>1 DEF LiveSlots
  <2> QED BY <2>1, <2>2, <2>3, <1>2
<1> QED BY <1>3 DEF IndexSound

LEMMA InsertIndexComplete ==
  ASSUME NEW a, IsArena(a), FreeExact(a), IndexComplete(a),
         NEW v \in Value, NEW id \in Nat, id \notin DOMAIN a.idIndex
  PROVE  IndexComplete(Insert(a, v, id))
<1> DEFINE b == Insert(a, v, id)
           i == TargetSlot(a)
<1>1. /\ b.slots[i] = [value |-> v, id |-> id, gen |-> SlotGen(a)]
      /\ \A j \in DOMAIN a.slots \ {i} : b.slots[j] = a.slots[j]
      /\ DOMAIN b.idIndex = DOMAIN a.idIndex \cup {id}
      /\ b.idIndex[id] = i
      /\ \A x \in DOMAIN a.idIndex \ {id} : b.idIndex[x] = a.idIndex[x]
  BY InsertEffect
<1>2. LiveSlots(b) = LiveSlots(a) \cup {i} /\ i \notin LiveSlots(a)
  BY InsertLive
<1>3. ASSUME NEW j \in LiveSlots(b)
      PROVE  b.slots[j].id \in DOMAIN b.idIndex /\ b.idIndex[b.slots[j].id] = j
  <2>1. CASE j = i
    BY <2>1, <1>1
  <2>2. CASE j # i
    <3>1. j \in LiveSlots(a) /\ b.slots[j] = a.slots[j]
      BY <2>2, <1>1, <1>2 DEF LiveSlots
    <3> QED BY <3>1, <1>1 DEF IndexComplete
  <2> QED BY <2>1, <2>2
<1> QED BY <1>3 DEF IndexComplete

LEMMA EraseIndexComplete ==
  ASSUME NEW a, IsArena(a), IndexComplete(a), NEW h, Located(a, h)
  PROVE  IndexComplete(Erase(a, h))
<1> DEFINE b == Erase(a, h)
           i == h.index
<1>1. /\ \A j \in DOMAIN a.slots \ {i} : b.slots[j] = a.slots[j]
      /\ DOMAIN b.idIndex = DOMAIN a.idIndex \ {a.slots[i].id}
      /\ \A x \in DOMAIN b.idIndex : b.idIndex[x] = a.idIndex[x]
      /\ i \in LiveSlots(a)
  BY EraseEffect
<1>2. LiveSlots(b) = LiveSlots(a) \ {i}
  BY EraseLive
<1>3. ASSUME NEW j \in LiveSlots(b)
      PROVE  b.slots[j].id \in DOMAIN b.idIndex /\ b.idIndex[b.slots[j].id] = j
  <2>1. j \in LiveSlots(a) /\ j # i /\ b.slots[j] = a.slots[j]
    BY <1>1, <1>2 DEF LiveSlots
  <2>2. /\ a.idIndex[a.slots[j].id] = j
        /\ a.idIndex[a.slots[i].id] = i
        /\ a.slots[j].id \in DOMAIN a.idIndex
    BY <1>1, <2>1 DEF IndexComplete
  <2> QED BY <2>1, <2>2, <1>1
<1> QED BY <1>3 DEF IndexComplete

-----------------------------------------------------------------------------
(* Storing through the pointer try_get() returns changes a payload and      *)
(* nothing else.                                                            *)
LEMMA AssignEffect ==
  ASSUME NEW a, IsArena(a), FreeExact(a), NEW h, NEW v \in Value
  PROVE  LET b == Assign(a, h, v)
         IN  /\ IsArena(b)
             /\ FreeExact(b)
             /\ DOMAIN b.slots = DOMAIN a.slots
             /\ \A j \in DOMAIN a.slots : b.slots[j].id = a.slots[j].id
<1> DEFINE b == Assign(a, h, v)
           i == h.index
           s == [value |-> v, id |-> a.slots[i].id, gen |-> a.slots[i].gen]
<1>1. CASE Located(a, h)
  <2>1. i \in DOMAIN a.slots /\ IsLive(a, i)
    BY <1>1 DEF Located
  <2>2. a.slots[i] \in Slot /\ a.slots \in Seq(Slot)
    BY <2>1, SlotFields DEF IsArena
  <2>3. [a.slots EXCEPT ![i].value = v] = [a.slots EXCEPT ![i] = s]
    <3>1. ASSUME NEW r \in Slot
          PROVE  [r EXCEPT !.value = v] = [value |-> v, id |-> r.id, gen |-> r.gen]
      BY DEF Slot
    <3>2. [a.slots[i] EXCEPT !.value = v] = s
      BY <2>2, <3>1
    <3> HIDE DEF s
    <3> QED BY <3>2
  <2>4. s \in Slot /\ s.value # NoValue /\ s.id = a.slots[i].id
    BY <2>2, NoValueAssumption DEF Slot
  <2>5. b = [slots |-> [a.slots EXCEPT ![i].value = v], free |-> a.free,
             idIndex |-> a.idIndex]
    <3>1. a = [slots |-> a.slots, free |-> a.free, idIndex |-> a.idIndex]
      BY DEF IsArena
    <3>2. b = [a EXCEPT !.slots[i].value = v]
      BY <1>1 DEF Assign
    <3> QED BY <3>1, <3>2
  <2>6. /\ b.slots = [a.slots EXCEPT ![i] = s]
        /\ b.free = a.free /\ b.idIndex = a.idIndex
        /\ b = [slots |-> b.slots, free |-> b.free, idIndex |-> b.idIndex]
    BY <2>3, <2>5
  <2> HIDE DEF b, s
  <2>7. /\ b.slots \in Seq(Slot) /\ DOMAIN b.slots = DOMAIN a.slots
        /\ b.slots[i] = s
        /\ \A j \in DOMAIN a.slots : j # i => b.slots[j] = a.slots[j]
    BY <2>1, <2>2, <2>4, <2>6
  <2>8. IsArena(b)
    BY <2>6, <2>7 DEF IsArena
  <2>9. DeadSlots(b) = DeadSlots(a)
    BY <2>1, <2>4, <2>7 DEF DeadSlots, IsLive
  <2>10. FreeExact(b)
    BY <2>6, <2>9 DEF FreeExact
  <2>11. \A j \in DOMAIN a.slots : b.slots[j].id = a.slots[j].id
    BY <2>4, <2>7
  <2> QED BY <2>7, <2>8, <2>10, <2>11 DEF b
<1>2. CASE ~Located(a, h)
  BY <1>2 DEF Assign
<1> QED BY <1>1, <1>2

(* erase() changes no id, whether or not the handle is stale. *)
LEMMA EraseKeepsIds ==
  ASSUME NEW a, IsArena(a), FreeExact(a), NEW h
  PROVE  LET b == Erase(a, h)
         IN  /\ IsArena(b)
             /\ FreeExact(b)
             /\ DOMAIN b.slots = DOMAIN a.slots
             /\ \A j \in DOMAIN a.slots : b.slots[j].id = a.slots[j].id
<1> DEFINE b == Erase(a, h)
<1>1. CASE Located(a, h)
  <2>1. FreeExact(b)
    BY <1>1, EraseFreeExact
  <2>2. /\ IsArena(b)
        /\ DOMAIN b.slots = DOMAIN a.slots
        /\ b.slots[h.index] = [value |-> NoValue, id |-> a.slots[h.index].id,
                               gen |-> NextGen(a.slots[h.index].gen)]
        /\ \A j \in DOMAIN a.slots \ {h.index} : b.slots[j] = a.slots[j]
    BY <1>1, EraseEffect
  <2> HIDE DEF b
  <2>3. b.slots[h.index].id = a.slots[h.index].id
    BY <2>2
  <2>4. \A j \in DOMAIN a.slots : b.slots[j].id = a.slots[j].id
    BY <2>2, <2>3
  <2> QED BY <2>1, <2>2, <2>4 DEF b
<1>2. CASE ~Located(a, h)
  BY <1>2 DEF Erase, Erasable
<1> QED BY <1>1, <1>2
-----------------------------------------------------------------------------
(* Induction over the natural numbers, from the well-foundedness of <: as   *)
(* formulas about sets of numbers, they need no operator as a parameter.    *)

LEMMA LeastNumber ==
  \A S \in SUBSET Nat : S # {} => \E m \in S : \A k \in S : m <= k
<1> SUFFICES ASSUME NEW S \in SUBSET Nat, S # {}
             PROVE  \E m \in S : \A k \in S : m <= k
  OBVIOUS
<1> DEFINE R == OpToRel(<, Nat)
<1>1. IsWellFoundedOn(R, Nat)
  BY NatLessThanWellFounded
<1>2. \A x, y \in Nat : y < x => <<y, x>> \in R
  BY DEF R, OpToRel
<1> HIDE DEF R
<1>3. PICK x \in S : \A y \in S : <<y, x>> \notin R
  BY <1>1, WFMin
<1>4. ASSUME NEW y \in S PROVE x <= y
  <2>1. x \in Nat /\ y \in Nat /\ ~(y < x)
    BY <1>2, <1>3
  <2> QED BY <2>1
<1> QED BY <1>4

(* A bounded set of numbers that has an element has a greatest one. *)
LEMMA GreatestNumber ==
  ASSUME NEW n \in Nat, NEW S \in SUBSET (0 .. n), S # {}
  PROVE  \E m \in S : \A k \in S : k <= m
<1> DEFINE T == {x \in 0 .. n : n - x \in S}
<1>1. T \in SUBSET Nat /\ T # {}
  <2>1. PICK k \in S : TRUE
    OBVIOUS
  <2>2. k \in 0 .. n
    OBVIOUS
  <2>3. n - k \in 0 .. n /\ n - (n - k) = k
    BY <2>2
  <2>4. n - k \in T
    BY <2>3
  <2>5. T \subseteq Nat
    OBVIOUS
  <2> HIDE DEF T
  <2> QED BY <2>4, <2>5
<1>2. PICK m \in T : \A k \in T : m <= k
  BY <1>1, LeastNumber
<1>3. ASSUME NEW k \in S PROVE k <= n - m
  <2>1. n - k \in 0 .. n /\ n - (n - k) = k
    OBVIOUS
  <2>2. n - k \in T
    BY <2>1
  <2>3. m <= n - k /\ m \in 0 .. n /\ k \in 0 .. n
    BY <1>2, <2>2
  <2> QED BY <2>3
<1>4. n - m \in S
  BY <1>2
<1> QED BY <1>3, <1>4

(* What holds of 0 and passes from each number below n to the next holds of *)
(* every number up to n.                                                    *)
LEMMA CountUp ==
  ASSUME NEW n \in Nat, NEW S, 0 \in S, \A m \in 0 .. n - 1 : m \in S => m + 1 \in S
  PROVE  n \in S
<1> SUFFICES ASSUME n \notin S PROVE FALSE
  OBVIOUS
<1> DEFINE T == {m \in 0 .. n : m \notin S}
<1>1. T \in SUBSET Nat /\ T # {}
  OBVIOUS
<1>2. PICK m \in T : \A k \in T : m <= k
  BY <1>1, LeastNumber
<1>3. m # 0 /\ m - 1 \in 0 .. n - 1
  BY <1>2
<1>4. m - 1 \notin T
  BY <1>2, <1>3
<1>5. m - 1 \in S
  BY <1>3, <1>4
<1>6. (m - 1) + 1 = m
  BY <1>2
<1> QED BY <1>2, <1>3, <1>5, <1>6

-----------------------------------------------------------------------------
(* An arena in order, and what for_each visits.                             *)

Sound(a) == IsArena(a) /\ FreeExact(a) /\ IndexSound(a)

LEMMA EmptySound == Sound(EmptyArena)
BY DEF Sound, EmptyArena, IsArena, FreeExact, IndexSound, DeadSlots

LEMMA InsertSound ==
  ASSUME NEW a, Sound(a), NEW v \in Value, NEW id \in Nat
  PROVE  Sound(Insert(a, v, id))
BY InsertEffect, InsertFreeExact, InsertIndexSound DEF Sound

(* The entities among the first m slots, and the slots they stand in.       *)
Lists(a, m, e, pos) ==
  /\ e \in Seq(Slot)
  /\ pos \in [1 .. Len(e) -> LiveSlots(a) \cap (1 .. m)]
  /\ \A j \in 1 .. Len(e) : e[j] = a.slots[pos[j]]
  /\ \A i \in LiveSlots(a) \cap (1 .. m) : \E j \in 1 .. Len(e) : pos[j] = i
  /\ \A j, k \in 1 .. Len(e) : pos[j] = pos[k] => j = k

LEMMA ListsNext ==
  ASSUME NEW a, IsArena(a), NEW m \in 1 .. Len(a.slots), NEW e, NEW pos,
         Lists(a, m - 1, e, pos)
  PROVE  \E q : Lists(a, m, IF IsLive(a, m) THEN Append(e, a.slots[m]) ELSE e, q)
<1>1. /\ a.slots \in Seq(Slot) /\ Len(a.slots) \in Nat /\ DOMAIN a.slots = 1 .. Len(a.slots)
      /\ m \in Nat /\ m \in DOMAIN a.slots /\ a.slots[m] \in Slot
  BY DEF IsArena
<1>2. 1 .. m = (1 .. m - 1) \cup {m} /\ m \notin 1 .. m - 1
  BY <1>1
<1>3. /\ e \in Seq(Slot) /\ Len(e) \in Nat
      /\ pos \in [1 .. Len(e) -> LiveSlots(a) \cap (1 .. m - 1)]
      /\ \A j \in 1 .. Len(e) : e[j] = a.slots[pos[j]]
      /\ \A i \in LiveSlots(a) \cap (1 .. m - 1) : \E j \in 1 .. Len(e) : pos[j] = i
      /\ \A j, k \in 1 .. Len(e) : pos[j] = pos[k] => j = k
  BY DEF Lists
<1>4. CASE ~IsLive(a, m)
  <2>1. LiveSlots(a) \cap (1 .. m) = LiveSlots(a) \cap (1 .. m - 1)
    BY <1>2, <1>4 DEF LiveSlots
  <2>2. Lists(a, m, e, pos)
    BY <1>3, <2>1 DEF Lists
  <2> QED BY <1>4, <2>2
<1>5. CASE IsLive(a, m)
  <2> DEFINE n == Len(e) + 1
             f == Append(e, a.slots[m])
             q == [j \in 1 .. n |-> IF j = n THEN m ELSE pos[j]]
  <2>1. LiveSlots(a) \cap (1 .. m) = (LiveSlots(a) \cap (1 .. m - 1)) \cup {m}
    BY <1>1, <1>2, <1>5 DEF LiveSlots
  <2>2. f \in Seq(Slot) /\ Len(f) = n /\ f[n] = a.slots[m]
    BY <1>1, <1>3
  <2>3. \A j \in 1 .. Len(e) : f[j] = e[j]
    BY <1>1, <1>3
  <2>4. 1 .. n = (1 .. Len(e)) \cup {n} /\ n \notin 1 .. Len(e)
    BY <1>3
  <2>5. \A j \in 1 .. Len(e) : q[j] = pos[j] /\ pos[j] \in LiveSlots(a) \cap (1 .. m - 1)
    BY <1>3, <2>4
  <2>6. q[n] = m
    BY <2>4
  <2> HIDE DEF n, f
  <2>7. q \in [1 .. n -> LiveSlots(a) \cap (1 .. m)]
    BY <2>1, <2>4, <2>5, <2>6
  <2> HIDE DEF q
  <2>8. \A j \in 1 .. n : f[j] = a.slots[q[j]]
    BY <1>3, <2>2, <2>3, <2>4, <2>5, <2>6
  <2>9. \A i \in LiveSlots(a) \cap (1 .. m) : \E j \in 1 .. n : q[j] = i
    BY <1>3, <2>1, <2>4, <2>5, <2>6
  <2>10. \A j, k \in 1 .. n : q[j] = q[k] => j = k
    BY <1>2, <1>3, <2>4, <2>5, <2>6
  <2>11. Lists(a, m, f, q)
    BY <2>2, <2>7, <2>8, <2>9, <2>10 DEF Lists
  <2> QED BY <1>5, <2>11 DEF f
<1> QED BY <1>4, <1>5

(* Entries as its recursion computes it. *)
LEMMA EntriesByCounting ==
  ASSUME NEW a, IsArena(a)
  PROVE  \E f : /\ Entries(a) = f[Len(a.slots)]
               /\ f[0] = << >>
               /\ \A n \in 1 .. Len(a.slots) :
                    f[n] = IF IsLive(a, n) THEN Append(f[n - 1], a.slots[n]) ELSE f[n - 1]
<1> DEFINE N == Len(a.slots)
           Step(f, n) == IF n = 0 THEN << >>
                         ELSE IF IsLive(a, n) THEN Append(f[n - 1], a.slots[n]) ELSE f[n - 1]
           Upto(m) == \E f : f = [n \in 0 .. m |-> Step(f, n)]
           upTo[n \in 0 .. N] ==
             IF n = 0 THEN << >>
             ELSE IF IsLive(a, n) THEN Append(upTo[n - 1], a.slots[n]) ELSE upTo[n - 1]
<1>1. N \in Nat
  BY DEF IsArena
<1>2. Upto(N)
  <2> DEFINE S == {m \in 0 .. N : Upto(m)}
  <2>1. Upto(0)
    <3>1. [n \in 0 .. 0 |-> << >>] = [n \in 0 .. 0 |-> Step([m \in 0 .. 0 |-> << >>], n)]
      OBVIOUS
    <3> QED BY <3>1
  <2>2. ASSUME NEW m \in 0 .. N - 1, Upto(m) PROVE Upto(m + 1)
    <3>1. PICK f : f = [n \in 0 .. m |-> Step(f, n)]
      BY <2>2
    <3> DEFINE g == [n \in 0 .. m + 1 |-> IF n = m + 1 THEN Step(f, n) ELSE f[n]]
    <3>2. ASSUME NEW n \in 0 .. m + 1 PROVE g[n] = Step(g, n)
      <4>1. CASE n = 0
        BY <4>1, <3>1
      <4>2. CASE n # 0
        <5>1. n - 1 \in 0 .. m /\ n - 1 # m + 1
          BY <4>2
        <5>2. g[n - 1] = f[n - 1]
          BY <5>1
        <5>3. g[n] = Step(f, n)
          <6> HIDE DEF Step
          <6> QED BY <3>1
        <5> QED BY <5>2, <5>3
      <4> QED BY <4>1, <4>2
    <3> HIDE DEF Step
    <3>3. g = [n \in 0 .. m + 1 |-> Step(g, n)]
      BY <3>2
    <3> QED BY <3>3
  <2> HIDE DEF Upto
  <2>3. 0 \in S
    BY <2>1, <1>1
  <2>4. \A m \in 0 .. N - 1 : m \in S => m + 1 \in S
    BY <2>2, <1>1
  <2>5. N \in S
    BY <2>3, <2>4, <1>1, CountUp
  <2> QED BY <2>5
<1>3. upTo = CHOOSE f : f = [n \in 0 .. N |-> Step(f, n)]
  BY DEF upTo
<1>4. Entries(a) = upTo[N]
  BY DEF Entries, upTo
<1> HIDE DEF upTo
<1>5. upTo = [n \in 0 .. N |-> Step(upTo, n)]
  BY <1>2, <1>3
<1>6. upTo[0] = << >>
  BY <1>1, <1>5
<1>7. ASSUME NEW n \in 1 .. N
      PROVE  upTo[n] = IF IsLive(a, n) THEN Append(upTo[n - 1], a.slots[n]) ELSE upTo[n - 1]
  <2>1. n \in 0 .. N /\ n # 0
    BY <1>1
  <2> QED BY <1>5, <2>1
<1> QED BY <1>4, <1>6, <1>7

(* for_each visits each live slot, once.                                    *)
LEMMA EntriesAreLiveSlots ==
  ASSUME NEW a, IsArena(a)
  PROVE  \E pos : Lists(a, Len(a.slots), Entries(a), pos)
<1> DEFINE N == Len(a.slots)
<1>1. N \in Nat
  BY DEF IsArena
<1>2. PICK f : /\ Entries(a) = f[N]
               /\ f[0] = << >>
               /\ \A n \in 1 .. N :
                    f[n] = IF IsLive(a, n) THEN Append(f[n - 1], a.slots[n]) ELSE f[n - 1]
  BY EntriesByCounting
<1> DEFINE S == {m \in 0 .. N : \E pos : Lists(a, m, f[m], pos)}
<1>3. 0 \in S
  <2>1. Lists(a, 0, << >>, << >>)
    BY DEF Lists
  <2> QED BY <1>1, <1>2, <2>1
<1>4. ASSUME NEW m \in 0 .. N - 1, m \in S PROVE m + 1 \in S
  <2>1. m + 1 \in 1 .. N /\ m + 1 \in 0 .. N /\ (m + 1) - 1 = m
    BY <1>1
  <2>2. f[m + 1] = IF IsLive(a, m + 1) THEN Append(f[m], a.slots[m + 1]) ELSE f[m]
    BY <1>2, <2>1
  <2>3. PICK pos : Lists(a, (m + 1) - 1, f[m], pos)
    BY <1>4, <2>1
  <2>4. \E q : Lists(a, m + 1, f[m + 1], q)
    BY <2>1, <2>2, <2>3, ListsNext
  <2> QED BY <2>1, <2>4
<1>5. N \in S
  BY <1>1, <1>3, <1>4, CountUp
<1> QED BY <1>2, <1>5

(* When no slot is dead, for_each visits the slots in their order.          *)
LEMMA EntriesOfFullArena ==
  ASSUME NEW a, IsArena(a), LiveSlots(a) = DOMAIN a.slots
  PROVE  Entries(a) = a.slots
<1> DEFINE N == Len(a.slots)
<1>1. a.slots \in Seq(Slot) /\ N \in Nat /\ DOMAIN a.slots = 1 .. N
  BY DEF IsArena
<1>2. PICK f : /\ Entries(a) = f[N]
               /\ f[0] = << >>
               /\ \A n \in 1 .. N :
                    f[n] = IF IsLive(a, n) THEN Append(f[n - 1], a.slots[n]) ELSE f[n - 1]
  BY EntriesByCounting
<1>3. \A n \in 1 .. N : IsLive(a, n)
  BY <1>1 DEF LiveSlots
<1> DEFINE S == {m \in 0 .. N : f[m] = [i \in 1 .. m |-> a.slots[i]]}
<1>4. 0 \in S
  <2>1. [i \in 1 .. 0 |-> a.slots[i]] = << >>
    OBVIOUS
  <2> QED BY <1>1, <1>2, <2>1
<1>5. ASSUME NEW m \in 0 .. N - 1, m \in S PROVE m + 1 \in S
  <2> DEFINE e == [i \in 1 .. m |-> a.slots[i]]
  <2>1. m + 1 \in 1 .. N /\ m + 1 \in 0 .. N /\ (m + 1) - 1 = m
    BY <1>1
  <2>2. f[m + 1] = Append(e, a.slots[m + 1])
    BY <1>2, <1>3, <1>5, <2>1
  <2>3. e \in Seq(Slot) /\ Len(e) = m
    BY <1>1, <2>1
  <2>4. Append(e, a.slots[m + 1]) = [i \in 1 .. m + 1 |-> a.slots[i]]
    BY <2>1, <2>3
  <2> QED BY <2>1, <2>2, <2>4
<1>6. N \in S
  BY <1>1, <1>4, <1>5, CountUp
<1>7. a.slots = [i \in 1 .. N |-> a.slots[i]]
  BY <1>1
<1> QED BY <1>2, <1>6, <1>7

LEMMA EntriesTyped ==
  ASSUME NEW a, IsArena(a)
  PROVE  /\ Entries(a) \in Seq(Slot)
         /\ \A i \in DOMAIN Entries(a) :
              Entries(a)[i].value \in Value /\ Entries(a)[i].id \in Nat
<1> DEFINE e == Entries(a)
<1>1. PICK pos : Lists(a, Len(a.slots), e, pos)
  BY EntriesAreLiveSlots
<1> HIDE DEF e
<1>2. e \in Seq(Slot) /\ DOMAIN e = 1 .. Len(e)
  BY <1>1 DEF Lists
<1>3. ASSUME NEW i \in DOMAIN e PROVE e[i].value \in Value /\ e[i].id \in Nat
  <2>1. pos[i] \in LiveSlots(a) /\ e[i] = a.slots[pos[i]]
    BY <1>1, <1>2 DEF Lists
  <2>2. a.slots[pos[i]] \in Slot /\ a.slots[pos[i]].value # NoValue
    BY <2>1, SlotFields DEF LiveSlots, IsLive
  <2> QED BY <2>1, <2>2 DEF Slot
<1> QED BY <1>2, <1>3 DEF e

(* An id names one live entity, and a live slot's generation is not null.   *)
IdsDiffer(a) ==
  \A i, j \in LiveSlots(a) : a.slots[i].id = a.slots[j].id => i = j

GensNonNull(a) == \A i \in LiveSlots(a) : a.slots[i].gen # 0

LEMMA InsertIdsDiffer ==
  ASSUME NEW a, Sound(a), IdsDiffer(a), NEW v \in Value, NEW id \in Nat,
         \A i \in LiveSlots(a) : a.slots[i].id # id
  PROVE  LET b == Insert(a, v, id)
         IN  /\ IdsDiffer(b)
             /\ \A j \in LiveSlots(b) :
                  b.slots[j].id = id \/ \E i \in LiveSlots(a) : b.slots[j].id = a.slots[i].id
             /\ GensNonNull(a) => GensNonNull(b)
<1> DEFINE b == Insert(a, v, id)
           i == TargetSlot(a)
<1>1. /\ b.slots[i] = [value |-> v, id |-> id, gen |-> SlotGen(a)]
      /\ \A j \in DOMAIN a.slots \ {i} : b.slots[j] = a.slots[j]
      /\ SlotGen(a) \in 1 .. GenMod - 1
  BY InsertEffect DEF Sound
<1>2. LiveSlots(b) = LiveSlots(a) \cup {i} /\ i \notin LiveSlots(a)
  BY InsertLive DEF Sound
<1>3. LiveSlots(a) \subseteq DOMAIN a.slots
  BY DEF LiveSlots
<1>4. b.slots[i].id = id /\ b.slots[i].gen # 0
  BY <1>1
<1> HIDE DEF b, i
<1>5. \A j \in LiveSlots(a) : b.slots[j] = a.slots[j]
  BY <1>1, <1>2, <1>3
<1>6. IdsDiffer(b)
  BY <1>2, <1>4, <1>5 DEF IdsDiffer
<1>7. \A j \in LiveSlots(b) :
        b.slots[j].id = id \/ \E k \in LiveSlots(a) : b.slots[j].id = a.slots[k].id
  BY <1>2, <1>4, <1>5
<1>8. GensNonNull(a) => GensNonNull(b)
  BY <1>2, <1>4, <1>5 DEF GensNonNull
<1> QED BY <1>6, <1>7, <1>8 DEF b
=============================================================================
