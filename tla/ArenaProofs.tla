----------------------------- MODULE ArenaProofs ----------------------------
(***************************************************************************)
(* For every set of values and ids, every bound and every width of the     *)
(* generation counter: an arena is well typed, its free list and id index  *)
(* are exact, and a handle denotes the entity it was issued for or nothing.*)
(***************************************************************************)
EXTENDS Arena, ArenaOpsProofs

(* The generation a slot shows d erasures after generation g was issued,   *)
(* while it holds an entity and while it is on the free list.              *)
LiveGen(g, d) == IF g + d < GenMod THEN g + d ELSE g + d - (GenMod - 1)
DeadGen(g, d) == IF g + d = GenMod THEN 0 ELSE LiveGen(g, d)

(* Where the slot's generation is relative to one issued handle, until the *)
(* counter has gone all the way round.                                     *)
GenTracks(x) ==
  LET s == arena.slots[x.index]
      d == erased[x.index] - x.epoch
  IN  /\ d >= 0
      /\ IsLive(arena, x.index) /\ d <= GenMod - 2 => s.gen = LiveGen(x.gen, d)
      /\ ~IsLive(arena, x.index) /\ d <= GenMod - 1 => s.gen = DeadGen(x.gen, d)
      /\ d = 0 => IsLive(arena, x.index) /\ s.id = x.id

IInv ==
  /\ TypeOK
  /\ FreeListExact
  /\ IdIndexExact
  /\ \A x \in issued : GenTracks(x)

LEMMA InitIInv == Init => IInv
<1> SUFFICES ASSUME Init PROVE IInv
  OBVIOUS
<1>1. /\ arena.slots = << >> /\ arena.free = << >>
      /\ arena.idIndex = [x \in {} |-> 1]
      /\ arena = [slots |-> arena.slots, free |-> arena.free, idIndex |-> arena.idIndex]
      /\ issued = {}
  BY DEF Init, EmptyArena
<1>2. IsArena(arena)
  BY <1>1 DEF IsArena
<1>3. TypeOK
  <2>1. DOMAIN arena.slots = {} /\ erased \in [DOMAIN arena.slots -> Nat]
    BY <1>1 DEF Init
  <2> QED BY <1>1, <1>2, <2>1 DEF Init, TypeOK
<1>4. FreeListExact /\ IdIndexExact
  BY <1>1 DEF FreeListExact, FreeExact, IdIndexExact, IndexSound, IndexComplete,
              DeadSlots, LiveSlots
<1> QED BY <1>1, <1>3, <1>4 DEF IInv

LEMMA InsertIInv ==
  ASSUME IInv, NEW v \in Value, NEW id \in Ids, InsertEntity(v, id)
  PROVE  IInv'
<1> DEFINE i == TargetSlot(arena)
           new == [index |-> i, gen |-> SlotGen(arena),
                   epoch |-> IF i \in DOMAIN erased THEN erased[i] ELSE 0, id |-> id]
<1>1. IsArena(arena) /\ FreeExact(arena) /\ id \in Nat
  BY IdsAssumption DEF IInv, TypeOK, FreeListExact
<1>2. /\ arena' = Insert(arena, v, id)
      /\ issued' = issued \cup {new}
      /\ erased' = [j \in DOMAIN erased \cup {i} |->
                      IF j \in DOMAIN erased THEN erased[j] ELSE 0]
      /\ clashed' = (clashed \/ id \in DOMAIN arena.idIndex)
  BY DEF InsertEntity, InsertHandle
<1>3. /\ IsArena(arena')
      /\ DOMAIN arena'.slots = DOMAIN arena.slots \cup {i}
      /\ arena'.slots[i] = [value |-> v, id |-> id, gen |-> SlotGen(arena)]
      /\ \A j \in DOMAIN arena.slots \ {i} : arena'.slots[j] = arena.slots[j]
      /\ SlotGen(arena) \in 1 .. GenMod - 1
      /\ i \in DOMAIN arena.slots => SlotGen(arena) = LiftGen(arena.slots[i].gen)
  BY <1>1, <1>2, InsertEffect
<1>4. i \notin LiveSlots(arena)
  BY <1>1, TargetRange
<1>5. TypeOK'
  BY <1>2, <1>3 DEF IInv, TypeOK
<1>6. FreeListExact'
  BY <1>1, <1>2, InsertFreeExact DEF FreeListExact
<1>7. IdIndexExact'
  BY <1>1, <1>2, InsertIndexSound, InsertIndexComplete DEF IInv, TypeOK, IdIndexExact
<1>8. ASSUME NEW x \in issued' PROVE GenTracks(x)'
  <2>1. CASE x = new
    <3>1. erased'[i] - x.epoch = 0
      BY <2>1, <1>2 DEF IInv, TypeOK
    <3>2. IsLive(arena', i) /\ arena'.slots[i].id = x.id /\ arena'.slots[i].gen = x.gen
      BY <2>1, <1>3, NoValueAssumption DEF IsLive
    <3> QED BY <2>1, <3>1, <3>2, <1>3, GenModAssumption DEF GenTracks, LiveGen
  <2>2. CASE x \in issued /\ x.index = i
    <3>1. i \in DOMAIN arena.slots /\ i \in DOMAIN erased /\ ~IsLive(arena, i)
      BY <2>2, <1>4 DEF IInv, TypeOK, LiveSlots
    <3>2. erased'[i] = erased[i] /\ erased[i] \in Nat /\ x.epoch \in Nat
          /\ x.gen \in 1 .. GenMod - 1
      BY <2>2, <3>1, <1>2 DEF IInv, TypeOK
    <3>3. IsLive(arena', i) /\ arena'.slots[i].gen = LiftGen(arena.slots[i].gen)
      BY <3>1, <1>3, NoValueAssumption DEF IsLive
    <3>4. GenTracks(x)
      BY <2>2 DEF IInv
    <3> QED BY <2>2, <3>1, <3>2, <3>3, <3>4, GenModAssumption
            DEF GenTracks, LiveGen, DeadGen, LiftGen
  <2>3. CASE x \in issued /\ x.index # i
    <3>1. x.index \in DOMAIN arena.slots /\ x.index \in DOMAIN erased
      BY <2>3 DEF IInv, TypeOK
    <3>2. arena'.slots[x.index] = arena.slots[x.index] /\ erased'[x.index] = erased[x.index]
      BY <2>3, <3>1, <1>2, <1>3
    <3>3. GenTracks(x)
      BY <2>3 DEF IInv
    <3> QED BY <3>2, <3>3 DEF GenTracks, IsLive
  <2> QED BY <2>1, <2>2, <2>3, <1>2
<1> QED BY <1>5, <1>6, <1>7, <1>8 DEF IInv

LEMMA EraseIInv ==
  ASSUME IInv, NEW y \in issued, EraseEntity(y)
  PROVE  IInv'
<1> DEFINE h == HandleOf(y)
           i == y.index
<1>1. IsArena(arena) /\ FreeExact(arena)
  BY DEF IInv, TypeOK, FreeListExact
<1>2. CASE ~Located(arena, h)
  <2>1. UNCHANGED <<arena, erased, issued, clashed>>
    BY <1>2 DEF EraseEntity, Erase, Erasable
  <2> QED BY <2>1 DEF IInv, TypeOK, FreeListExact, IdIndexExact, GenTracks
<1>3. CASE Located(arena, h)
  <2>1. /\ arena' = Erase(arena, h)
        /\ erased' = [erased EXCEPT ![i] = @ + 1]
        /\ issued' = issued /\ clashed' = clashed /\ h.index = i
    BY <1>3 DEF EraseEntity, HandleOf
  <2>2. /\ IsArena(arena')
        /\ i \in LiveSlots(arena)
        /\ DOMAIN arena'.slots = DOMAIN arena.slots
        /\ arena'.slots[i] = [value |-> NoValue, id |-> arena.slots[i].id,
                              gen |-> NextGen(arena.slots[i].gen)]
        /\ \A j \in DOMAIN arena.slots \ {i} : arena'.slots[j] = arena.slots[j]
    BY <1>1, <1>3, <2>1, EraseEffect
  <2>3. TypeOK'
    BY <2>1, <2>2 DEF IInv, TypeOK
  <2>4. FreeListExact'
    BY <1>1, <1>3, <2>1, EraseFreeExact DEF FreeListExact
  <2>5. IdIndexExact'
    BY <1>1, <1>3, <2>1, EraseIndexSound, EraseIndexComplete DEF IInv, IdIndexExact
  <2>6. ASSUME NEW x \in issued PROVE GenTracks(x)'
    <3>1. /\ x.index \in DOMAIN arena.slots /\ x.index \in DOMAIN erased
          /\ erased[x.index] \in Nat /\ x.epoch \in Nat /\ x.gen \in 1 .. GenMod - 1
          /\ GenTracks(x)
      BY DEF IInv, TypeOK
    <3>2. CASE x.index = i
      <4>1. erased'[i] = erased[i] + 1
        BY <3>1, <3>2, <2>1
      <4>2. IsLive(arena, i) /\ ~IsLive(arena', i)
        BY <2>2 DEF IsLive, LiveSlots
      <4>3. arena'.slots[i].gen = NextGen(arena.slots[i].gen)
        BY <2>2
      <4>4. /\ arena.slots[i].gen \in 0 .. GenMod - 1
            /\ arena'.slots[i].gen = IF arena.slots[i].gen = GenMod - 1
                                     THEN 0 ELSE arena.slots[i].gen + 1
        BY <1>1, <3>1, <3>2, <4>3, SlotFields, GenRange
      <4> QED BY <3>1, <3>2, <4>1, <4>2, <4>4, GenModAssumption
              DEF GenTracks, LiveGen, DeadGen
    <3>3. CASE x.index # i
      <4>1. arena'.slots[x.index] = arena.slots[x.index] /\ erased'[x.index] = erased[x.index]
        BY <3>1, <3>3, <2>1, <2>2
      <4> QED BY <3>1, <4>1 DEF GenTracks, IsLive
    <3> QED BY <3>2, <3>3
  <2> QED BY <2>1, <2>3, <2>4, <2>5, <2>6 DEF IInv
<1> QED BY <1>2, <1>3

LEMMA NextIInv == IInv /\ [Next]_vars => IInv'
<1> SUFFICES ASSUME IInv, [Next]_vars PROVE IInv'
  OBVIOUS
<1>1. CASE UNCHANGED vars
  BY <1>1 DEF vars, IInv, TypeOK, FreeListExact, IdIndexExact, GenTracks
<1>2. CASE \E v \in Value, id \in Ids : InsertEntity(v, id)
  BY <1>2, InsertIInv
<1>3. CASE \E x \in issued : EraseEntity(x)
  BY <1>3, EraseIInv
<1> QED BY <1>1, <1>2, <1>3 DEF Next

LEMMA AlwaysIInv == Spec => []IInv
BY InitIInv, NextIInv, PTL DEF Spec

(* The arena's state always has the declared types (arena.hpp, Slot and     *)
(* the members slots_, free_list_ and id_index_).                           *)
THEOREM ArenaTypeOK == Spec => []TypeOK
<1>1. IInv => TypeOK
  BY DEF IInv
<1> QED BY <1>1, AlwaysIInv, PTL

(* insert() and erase() never lose a slot, nor hand one to two entities.    *)
THEOREM ArenaFreeListExact == Spec => []FreeListExact
<1>1. IInv => FreeListExact
  BY DEF IInv
<1> QED BY <1>1, AlwaysIInv, PTL

(* find() and size() agree with the live slots.                             *)
THEOREM ArenaIdIndexExact == Spec => []IdIndexExact
<1>1. IInv => IdIndexExact
  BY DEF IInv
<1> QED BY <1>1, AlwaysIInv, PTL

(* A handle leads to the entity it was issued for as long as that entity    *)
(* lives, and is detectably stale afterwards, for GenMod - 2 erasures of    *)
(* its slot (arena.hpp, locate()).                                          *)
THEOREM ArenaHandleIdentity == Spec => []HandleIdentity
<1>1. ASSUME IInv PROVE HandleIdentity
  <2> SUFFICES ASSUME NEW x \in issued
               PROVE  LET age == erased[x.index] - x.epoch
                      IN  /\ age = 0 => /\ Located(arena, HandleOf(x))
                                        /\ arena.slots[x.index].id = x.id
                          /\ age \in 1 .. GenMod - 2 => ~Located(arena, HandleOf(x))
    BY DEF HandleIdentity
  <2>1. /\ x.index \in DOMAIN arena.slots
        /\ erased[x.index] \in Nat /\ x.epoch \in Nat /\ x.gen \in 1 .. GenMod - 1
        /\ GenTracks(x)
    BY <1>1 DEF IInv, TypeOK
  <2> QED BY <2>1, GenModAssumption
          DEF GenTracks, LiveGen, Located, HandleOf
<1> QED BY <1>1, AlwaysIInv, PTL
=============================================================================
