------------------------------ MODULE ArenaOps ------------------------------
(***************************************************************************)
(* core::Arena<T> as operators on a record: slots, the LIFO free list and  *)
(* the id index.  Slot i of the code is position i + 1 of `slots', so the  *)
(* null handle {0, 0} is the only handle with index 0.  The payload T is   *)
(* abstracted to a member of Value; NoValue is an empty std::optional.     *)
(***************************************************************************)
EXTENDS Integers, Sequences, FiniteSets

CONSTANTS
  Value,     (* what a client stores: the component type T             *)
  NoValue,   (* the empty std::optional<T>                             *)
  GenMod     (* number of values of a slot's generation: 2^32          *)

ASSUME NoValueAssumption == NoValue \notin Value
ASSUME GenModAssumption  == GenMod \in Nat /\ GenMod > 2

NullId     == 0
NullHandle == [index |-> 0, gen |-> 0]
Handle     == [index : Nat, gen : 0 .. GenMod - 1]
Slot       == [value : Value \cup {NoValue}, id : Nat, gen : 0 .. GenMod - 1]

(* `slots' of entities, `free' of dead slots, and the map from ids to slots *)
IsArena(a) ==
  /\ a = [slots |-> a.slots, free |-> a.free, idIndex |-> a.idIndex]
  /\ a.slots \in Seq(Slot)
  /\ a.free \in Seq(DOMAIN a.slots)
  /\ DOMAIN a.idIndex \subseteq Nat
  /\ a.idIndex \in [DOMAIN a.idIndex -> DOMAIN a.slots]

EmptyArena == [slots |-> << >>, free |-> << >>, idIndex |-> [x \in {} |-> 1]]

IsLive(a, i) == a.slots[i].value # NoValue
LiveSlots(a) == {i \in DOMAIN a.slots : IsLive(a, i)}
DeadSlots(a) == {i \in DOMAIN a.slots : ~IsLive(a, i)}

(* locate(handle) # nullptr *)
Located(a, h) ==
  /\ h.gen # 0
  /\ h.index \in DOMAIN a.slots
  /\ a.slots[h.index].gen = h.gen
  /\ IsLive(a, h.index)

TryGet(a, h) == IF Located(a, h) THEN a.slots[h.index].value ELSE NoValue
IdOf(a, h)   == IF Located(a, h) THEN a.slots[h.index].id ELSE NullId

Find(a, id) ==
  IF id \in DOMAIN a.idIndex
  THEN [index |-> a.idIndex[id], gen |-> a.slots[a.idIndex[id]].gen]
  ELSE NullHandle

Size(a) == Cardinality(DOMAIN a.idIndex)

(* what for_each visits, in the order in which it visits it *)
Entries(a) ==
  LET upTo[n \in 0 .. Len(a.slots)] ==
        IF n = 0 THEN << >>
        ELSE IF IsLive(a, n) THEN Append(upTo[n - 1], a.slots[n]) ELSE upTo[n - 1]
  IN  upTo[Len(a.slots)]

(* Every dead slot is on the free list, once, and nothing else is. *)
FreeExact(a) ==
  /\ \A k \in DOMAIN a.free : a.free[k] \in DeadSlots(a)
  /\ \A i \in DeadSlots(a) : \E k \in DOMAIN a.free : a.free[k] = i
  /\ \A j, k \in DOMAIN a.free : a.free[j] = a.free[k] => j = k

(* An id that find() knows leads to a live entity with that id. *)
IndexSound(a) ==
  \A id \in DOMAIN a.idIndex :
    a.idIndex[id] \in LiveSlots(a) /\ a.slots[a.idIndex[id]].id = id

(* find() knows every live entity. *)
IndexComplete(a) ==
  \A i \in LiveSlots(a) :
    a.slots[i].id \in DOMAIN a.idIndex /\ a.idIndex[a.slots[i].id] = i

-----------------------------------------------------------------------------
(* A defect of each operation, used to show that the properties can fail.  *)

TargetOffByOne(a) ==
  IF a.free = << >> THEN Len(a.slots) ELSE a.free[Len(a.free)]

NextGenNotBumped(g) == g

RemoveNothing(f, id) == f

ErasableUnchecked(a, h) ==
  /\ h.gen # 0
  /\ h.index \in DOMAIN a.slots
-----------------------------------------------------------------------------

(* The slot insert() takes: the most recently freed one, else a new one.   *)
TargetSlot(a) ==
  IF a.free = << >> THEN Len(a.slots) + 1 ELSE a.free[Len(a.free)]

NextGen(g) == (g + 1) % GenMod

(* Generation 0 is reserved for "null": insert() lifts it to 1. *)
LiftGen(g) == IF g = 0 THEN 1 ELSE g

Remove(f, id) == [x \in DOMAIN f \ {id} |-> f[x]]

SlotGen(a) ==
  IF TargetSlot(a) \in DOMAIN a.slots
  THEN LiftGen(a.slots[TargetSlot(a)].gen)
  ELSE LiftGen(0)

(* the handle insert() returns *)
InsertHandle(a) == [index |-> TargetSlot(a), gen |-> SlotGen(a)]

Insert(a, v, id) ==
  LET i == TargetSlot(a)
      s == [value |-> v, id |-> id, gen |-> SlotGen(a)]
  IN  [slots   |-> IF a.free = << >> THEN Append(a.slots, s)
                                     ELSE [a.slots EXCEPT ![i] = s],
       free    |-> IF a.free = << >> THEN << >>
                                     ELSE SubSeq(a.free, 1, Len(a.free) - 1),
       idIndex |-> [x \in DOMAIN a.idIndex \cup {id} |->
                      IF x = id THEN i ELSE a.idIndex[x]]]

Erasable(a, h) == Located(a, h)

(* With a stale handle erase() does nothing in a release build (a debug     *)
(* build stops at the assertion).                                           *)
Erase(a, h) ==
  IF Erasable(a, h)
  THEN [slots   |-> [a.slots EXCEPT ![h.index] =
                       [value |-> NoValue, id |-> @.id, gen |-> NextGen(@.gen)]],
        free    |-> Append(a.free, h.index),
        idIndex |-> Remove(a.idIndex, a.slots[h.index].id)]
  ELSE a

(* *try_get(h) = v *)
Assign(a, h, v) ==
  IF Located(a, h) THEN [a EXCEPT !.slots[h.index].value = v] ELSE a
=============================================================================
