--------------------------- MODULE CowStoreProofs ---------------------------
(***************************************************************************)
(* For any number of snapshots, workspaces, tables and addresses: editing  *)
(* shared tables cannot be observed.  The argument: every write() either   *)
(* changes an arena only its workspace refers to or a clone nobody else    *)
(* refers to (WriteEffect), so it changes what that workspace shows in     *)
(* that table and nothing else (WriteViews).                               *)
(***************************************************************************)
EXTENDS CowStore, ArenaOpsProofs

(* Tables of different types never share an arena. *)
TablesApart ==
  \A o, p \in DOMAIN obj : \A t, u \in Table :
    obj[o].tables[t] = obj[p].tables[u] => t = u

IInv ==
  /\ TypeOK
  /\ TablesApart
  /\ IdsBehind
  /\ \A p \in DOMAIN heap : FreeExact(heap[p])

(* What an edit of table t may leave behind: a well-formed arena whose ids  *)
(* the allocator, which does not go back, is past.                          *)
GoodEdit(w, t, n, a) ==
  /\ n \in Nat
  /\ IsArena(a)
  /\ FreeExact(a)
  /\ n >= obj[w].nextId
  /\ \A i \in DOMAIN a.slots : a.slots[i].id < n

LEMMA ObjectFields ==
  ASSUME TypeOK, NEW o \in DOMAIN obj, NEW t \in Table
  PROVE  /\ o \in Owner
         /\ obj[o] \in Object
         /\ obj[o].version \in Nat
         /\ obj[o].nextId \in Nat
         /\ obj[o].tables \in [Table -> Addr]
         /\ obj[o].tables[t] \in Addr
         /\ obj[o].tables[t] \in DOMAIN heap
         /\ IsArena(ArenaOf(o, t))
<1>1. o \in Owner /\ obj[o] \in Object
  BY DEF TypeOK
<1>2. obj[o].tables[t] \in DOMAIN heap
  BY DEF TypeOK, Referenced
<1> QED BY <1>1, <1>2 DEF TypeOK, Object, ArenaOf

(* What write() has done once table t of w is at address q: w shows arena a *)
(* there, and no other table of any object is at q or has changed.          *)
Wrote(w, t, n, a, q) ==
  /\ obj' = [obj EXCEPT ![w] = Moved(w, t, n, q)]
  /\ DOMAIN heap' = Referenced(obj')
  /\ heap' = [p \in DOMAIN heap' |-> heap'[p]]
  /\ heap'[q] = a
  /\ \A o \in DOMAIN obj, u \in Table :
       o # w \/ u # t =>
         obj[o].tables[u] # q /\ heap'[obj[o].tables[u]] = heap[obj[o].tables[u]]
  /\ obj[w].tables[t] # q => obj[w].tables[t] \in Referenced(obj')

LEMMA WriteEffect ==
  ASSUME IInv, NEW w \in DOMAIN obj, NEW t \in Table, NEW n \in Nat, NEW a,
         Write(w, t, n, a)
  PROVE  \E q \in Addr : Wrote(w, t, n, a, q)
<1> DEFINE p == obj[w].tables[t]
<1>1. /\ TypeOK /\ TablesApart
      /\ obj[w] \in Object /\ p \in Addr /\ p \in DOMAIN heap
  BY ObjectFields DEF IInv
<1>2. CASE ~Shared(w, t)
  <2>1. obj' = [obj EXCEPT ![w] = Moved(w, t, n, p)] /\ heap' = [heap EXCEPT ![p] = a]
    BY <1>2 DEF Write
  <2>2. [obj[w].tables EXCEPT ![t] = p] = obj[w].tables
    BY <1>1 DEF Object
  <2>3. \A o \in DOMAIN obj, u \in Table : o # w \/ u # t => obj[o].tables[u] # p
    BY <1>1, <1>2 DEF Shared, TablesApart
  <2>4. DOMAIN heap' = DOMAIN heap /\ Referenced(obj') = Referenced(obj)
    <3>1. /\ DOMAIN obj' = DOMAIN obj
          /\ \A o \in DOMAIN obj, u \in Table : obj'[o].tables[u] = obj[o].tables[u]
      BY <1>1, <2>1, <2>2 DEF Moved
    <3> QED BY <2>1, <3>1 DEF Referenced
  <2>5. \A o \in DOMAIN obj, u \in Table : obj[o].tables[u] \in DOMAIN heap
    BY <1>1, ObjectFields
  <2>6. /\ heap' = [r \in DOMAIN heap' |-> heap'[r]]
        /\ heap'[p] = a
        /\ \A r \in DOMAIN heap : r # p => heap'[r] = heap[r]
    BY <1>1, <2>1 DEF TypeOK
  <2>7. DOMAIN heap' = Referenced(obj')
    BY <1>1, <2>4 DEF TypeOK
  <2>8. Wrote(w, t, n, a, p)
    BY <2>1, <2>3, <2>5, <2>6, <2>7 DEF Wrote
  <2> QED BY <1>1, <2>8
<1>3. CASE Shared(w, t)
  <2>1. PICK q \in Addr \ DOMAIN heap :
          /\ obj' = [obj EXCEPT ![w] = Moved(w, t, n, q)]
          /\ heap' = Reclaim(obj', Put(heap, q, a))
    BY <1>3 DEF Write
  <2>2. \A o \in DOMAIN obj, u \in Table :
          obj[o].tables[u] \in DOMAIN heap /\ obj[o].tables[u] # q
    BY <1>1, <2>1, ObjectFields
  <2>3. /\ DOMAIN obj' = DOMAIN obj
        /\ obj'[w].tables[t] = q
        /\ \A o \in DOMAIN obj, u \in Table :
             o # w \/ u # t => obj'[o].tables[u] = obj[o].tables[u]
    BY <1>1, <2>1 DEF Moved, Object
  <2>4. heap' = [r \in Referenced(obj') |-> Put(heap, q, a)[r]]
    BY <2>1 DEF Reclaim
  <2>5. q \in Referenced(obj') /\ heap'[q] = a
    BY <2>3, <2>4 DEF Referenced, Put
  <2>6. ASSUME NEW o \in DOMAIN obj, NEW u \in Table, o # w \/ u # t
        PROVE  heap'[obj[o].tables[u]] = heap[obj[o].tables[u]]
    BY <2>2, <2>3, <2>4, <2>6 DEF Referenced, Put
  <2>7. p \in Referenced(obj')
    BY <1>3, <2>3 DEF Shared, Referenced
  <2>8. Wrote(w, t, n, a, q)
    BY <2>1, <2>2, <2>4, <2>5, <2>6, <2>7 DEF Wrote
  <2> QED BY <2>8
<1> QED BY <1>2, <1>3

(* A write() is the abstract edit of table t of w. *)
LEMMA WriteViews ==
  ASSUME IInv, NEW w \in DOMAIN obj, NEW t \in Table, NEW n \in Nat, NEW a,
         Write(w, t, n, a)
  PROVE  /\ Abstract!Edit(w, t, n, a)
         /\ \A o \in DOMAIN obj \ {w} : View(o)' = View(o)
<1>1. PICK q \in Addr : Wrote(w, t, n, a, q)
  BY WriteEffect
<1>2. obj \in [DOMAIN obj -> Object]
  BY DEF IInv, TypeOK
<1>3. /\ DOMAIN obj' = DOMAIN obj
      /\ \A o \in DOMAIN obj \ {w} : obj'[o] = obj[o]
      /\ obj'[w].version = obj[w].version /\ obj'[w].nextId = n
      /\ \A u \in Table : obj'[w].tables[u] = IF u = t THEN q ELSE obj[w].tables[u]
  BY <1>1, <1>2 DEF Object, Wrote, Moved
<1>4. \A o \in DOMAIN obj, u \in Table :
        heap'[obj'[o].tables[u]] = IF o = w /\ u = t THEN a ELSE heap[obj[o].tables[u]]
  <2>1. /\ heap'[q] = a
        /\ \A o \in DOMAIN obj, u \in Table :
             o # w \/ u # t => heap'[obj[o].tables[u]] = heap[obj[o].tables[u]]
    BY <1>1 DEF Wrote
  <2>2. \A o \in DOMAIN obj, u \in Table :
          obj'[o].tables[u] = IF o = w /\ u = t THEN q ELSE obj[o].tables[u]
    BY <1>3
  <2> QED BY <2>1, <2>2
<1>5. ASSUME NEW o \in DOMAIN obj \ {w}
      PROVE  View(o)' = View(o)
  BY <1>3, <1>4 DEF View, ArenaOf
<1>6. View(w)' = Abstract!Edited(w, t, n, a)
  <2> DEFINE tb == [u \in Table |-> heap[obj[w].tables[u]]]
  <2>1. [u \in Table |-> heap'[obj'[w].tables[u]]] = [tb EXCEPT ![t] = a]
    BY <1>4
  <2>2. View(w) = [version |-> obj[w].version, nextId |-> obj[w].nextId, tables |-> tb]
    BY DEF View, ArenaOf
  <2>3. View(w)' = [version |-> obj[w].version, nextId |-> n, tables |-> [tb EXCEPT ![t] = a]]
    BY <1>3, <2>1 DEF View, ArenaOf
  <2> HIDE DEF tb
  <2>4. /\ Views[w].version = obj[w].version
        /\ Views[w].tables = tb
    BY <2>2 DEF Views
  <2> QED BY <2>3, <2>4 DEF Abstract!Edited
<1>7. Views' = [Views EXCEPT ![w] = Abstract!Edited(w, t, n, a)]
  BY <1>3, <1>5, <1>6 DEF Views
<1> QED BY <1>5, <1>7 DEF Abstract!Edit

-----------------------------------------------------------------------------
(* Every edit leaves a good arena.                                          *)

LEMMA ArenaFacts ==
  ASSUME IInv, NEW w \in DOMAIN obj, NEW t \in Table
  PROVE  /\ IsArena(ArenaOf(w, t))
         /\ FreeExact(ArenaOf(w, t))
         /\ obj[w].nextId \in Nat
         /\ \A i \in DOMAIN ArenaOf(w, t).slots :
              /\ ArenaOf(w, t).slots[i].id \in Nat
              /\ ArenaOf(w, t).slots[i].id < obj[w].nextId
<1>1. /\ IsArena(ArenaOf(w, t)) /\ obj[w].nextId \in Nat
      /\ obj[w].tables[t] \in DOMAIN heap
  BY ObjectFields DEF IInv
<1>2. FreeExact(ArenaOf(w, t))
  BY <1>1 DEF IInv, ArenaOf
<1>3. \A i \in DOMAIN ArenaOf(w, t).slots : ArenaOf(w, t).slots[i].id \in Nat
  BY <1>1, SlotFields
<1> QED BY <1>1, <1>2, <1>3 DEF IInv, IdsBehind

LEMMA InsertGood ==
  ASSUME IInv, NEW w \in DOMAIN obj, NEW t \in Table, NEW v \in Value,
         NEW id \in Nat, NEW n \in Nat, n >= obj[w].nextId, id < n
  PROVE  GoodEdit(w, t, n, Insert(ArenaOf(w, t), v, id))
<1> DEFINE a == ArenaOf(w, t)
           b == Insert(a, v, id)
           i == TargetSlot(a)
<1>1. /\ IsArena(a) /\ FreeExact(a) /\ obj[w].nextId \in Nat
      /\ \A j \in DOMAIN a.slots : a.slots[j].id \in Nat /\ a.slots[j].id < obj[w].nextId
  BY ArenaFacts
<1> HIDE DEF a
<1>2. /\ IsArena(b)
      /\ DOMAIN b.slots = DOMAIN a.slots \cup {i}
      /\ b.slots[i] = [value |-> v, id |-> id, gen |-> SlotGen(a)]
      /\ \A j \in DOMAIN a.slots \ {i} : b.slots[j] = a.slots[j]
  BY <1>1, InsertEffect
<1>3. FreeExact(b)
  BY <1>1, InsertFreeExact
<1> HIDE DEF b, i
<1>4. ASSUME NEW j \in DOMAIN b.slots PROVE b.slots[j].id < n
  BY <1>1, <1>2
<1>5. GoodEdit(w, t, n, b)
  BY <1>2, <1>3, <1>4 DEF GoodEdit
<1> QED BY <1>5 DEF a, b

LEMMA EraseGood ==
  ASSUME IInv, NEW w \in DOMAIN obj, NEW t \in Table, NEW h
  PROVE  GoodEdit(w, t, obj[w].nextId, Erase(ArenaOf(w, t), h))
<1> DEFINE a == ArenaOf(w, t)
           b == Erase(a, h)
<1>1. /\ IsArena(a) /\ FreeExact(a) /\ obj[w].nextId \in Nat
      /\ \A j \in DOMAIN a.slots : a.slots[j].id < obj[w].nextId
  BY ArenaFacts
<1> HIDE DEF a
<1>2. /\ IsArena(b) /\ FreeExact(b)
      /\ DOMAIN b.slots = DOMAIN a.slots
      /\ \A j \in DOMAIN a.slots : b.slots[j].id = a.slots[j].id
  BY <1>1, EraseKeepsIds
<1> HIDE DEF b
<1>3. GoodEdit(w, t, obj[w].nextId, b)
  BY <1>1, <1>2 DEF GoodEdit
<1> QED BY <1>3 DEF a, b

LEMMA AssignGood ==
  ASSUME IInv, NEW w \in DOMAIN obj, NEW t \in Table, NEW h, NEW v \in Value
  PROVE  GoodEdit(w, t, obj[w].nextId, Assign(ArenaOf(w, t), h, v))
<1> DEFINE a == ArenaOf(w, t)
           b == Assign(a, h, v)
<1>1. /\ IsArena(a) /\ FreeExact(a) /\ obj[w].nextId \in Nat
      /\ \A j \in DOMAIN a.slots : a.slots[j].id < obj[w].nextId
  BY ArenaFacts
<1> HIDE DEF a
<1>2. /\ IsArena(b) /\ FreeExact(b)
      /\ DOMAIN b.slots = DOMAIN a.slots
      /\ \A j \in DOMAIN a.slots : b.slots[j].id = a.slots[j].id
  BY <1>1, AssignEffect
<1> HIDE DEF b
<1>3. GoodEdit(w, t, obj[w].nextId, b)
  BY <1>1, <1>2 DEF GoodEdit
<1> QED BY <1>3 DEF a, b

LEMMA KeepGood ==
  ASSUME IInv, NEW w \in DOMAIN obj, NEW t \in Table
  PROVE  GoodEdit(w, t, obj[w].nextId, ArenaOf(w, t))
BY ArenaFacts DEF GoodEdit

(* The abstract store edits arenas as this one does. *)
LEMMA SameArenaOps ==
  /\ \A a, v, id : Abstract!Insert(a, v, id) = Insert(a, v, id)
  /\ \A a, h : Abstract!Erase(a, h) = Erase(a, h)
  /\ \A a, h, v : Abstract!Assign(a, h, v) = Assign(a, h, v)
<1>1. ASSUME NEW a, NEW v, NEW id
      PROVE  Abstract!Insert(a, v, id) = Insert(a, v, id)
  BY Zenon DEF Insert, TargetSlot, SlotGen, LiftGen,
     Abstract!Insert, Abstract!TargetSlot, Abstract!SlotGen, Abstract!LiftGen
<1>2. ASSUME NEW a, NEW h PROVE Abstract!Located(a, h) <=> Located(a, h)
  BY Zenon DEF Located, IsLive, Abstract!Located, Abstract!IsLive
<1>3. ASSUME NEW a, NEW h PROVE Abstract!Erase(a, h) = Erase(a, h)
  BY <1>2, Zenon DEF Erase, Erasable, NextGen, Remove,
     Abstract!Erase, Abstract!Erasable, Abstract!NextGen, Abstract!Remove
<1>4. ASSUME NEW a, NEW h, NEW v PROVE Abstract!Assign(a, h, v) = Assign(a, h, v)
  BY <1>2, Zenon DEF Assign, Abstract!Assign
<1> QED BY <1>1, <1>3, <1>4

(* An edit through the public interface is a write() that leaves a good     *)
(* arena, and it is the abstract edit or, for try_get(), no change at all.  *)
LEMMA EditStep ==
  ASSUME IInv, NEW w \in Work, NEW t \in Table, EditWorkspace(w, t)
  PROVE  /\ w \in DOMAIN obj
         /\ \E n \in Nat : \E a : GoodEdit(w, t, n, a) /\ Write(w, t, n, a)
         /\ Abstract!EditWorkspace(w, t) \/ UNCHANGED Views
<1>1. w \in DOMAIN obj
  BY DEF EditWorkspace, InsertNew, InsertWithId, EraseEntity, UpdateEntity, TryGetEntity
<1>2. /\ obj[w].nextId \in Nat
      /\ Views[w].nextId = obj[w].nextId
      /\ Views[w].tables[t] = ArenaOf(w, t)
  BY <1>1, ArenaFacts DEF Views, View
<1>3. CASE \E v \in Value : InsertNew(w, t, v)
  <2>1. PICK v \in Value : InsertNew(w, t, v)
    BY <1>3
  <2> DEFINE n == obj[w].nextId + 1
             a == Insert(ArenaOf(w, t), v, obj[w].nextId)
  <2>2. n \in Nat /\ GoodEdit(w, t, n, a) /\ Write(w, t, n, a)
    BY <1>1, <1>2, <2>1, InsertGood DEF InsertNew
  <2>3. Abstract!Edit(w, t, n, a)
    BY <1>1, <2>2, WriteViews
  <2>4. Abstract!InsertNew(w, t, v)
    BY <1>2, <2>3, SameArenaOps DEF Abstract!InsertNew
  <2> QED BY <1>1, <2>2, <2>4 DEF Abstract!EditWorkspace
<1>4. CASE \E v \in Value, id \in RestoredIds : InsertWithId(w, t, v, id)
  <2>1. PICK v \in Value, id \in RestoredIds : InsertWithId(w, t, v, id)
    BY <1>4
  <2> DEFINE n == Advanced(obj[w].nextId, id)
             a == Insert(ArenaOf(w, t), v, id)
  <2>2. id \in Nat /\ n \in Nat /\ n >= obj[w].nextId /\ id < n
    BY <1>2, InputAssumption DEF Advanced
  <2>3. GoodEdit(w, t, n, a) /\ Write(w, t, n, a)
    BY <1>1, <2>1, <2>2, InsertGood DEF InsertWithId
  <2>4. Abstract!Edit(w, t, n, a)
    BY <1>1, <2>2, <2>3, WriteViews
  <2>5. Abstract!InsertWithId(w, t, v, id)
    BY <1>2, <2>4, SameArenaOps DEF Abstract!InsertWithId, Advanced
  <2> QED BY <1>1, <2>2, <2>3, <2>5 DEF Abstract!EditWorkspace
<1>5. CASE \E h \in Handles : EraseEntity(w, t, h)
  <2>1. PICK h \in Handles : EraseEntity(w, t, h)
    BY <1>5
  <2> DEFINE n == obj[w].nextId
             a == Erase(ArenaOf(w, t), h)
  <2>2. GoodEdit(w, t, n, a) /\ Write(w, t, n, a)
    BY <1>1, <2>1, EraseGood DEF EraseEntity
  <2>3. Abstract!Edit(w, t, n, a)
    BY <1>1, <1>2, <2>2, WriteViews
  <2>4. Abstract!EraseEntity(w, t, h)
    BY <1>2, <2>3, SameArenaOps DEF Abstract!EraseEntity
  <2> QED BY <1>1, <1>2, <2>2, <2>4 DEF Abstract!EditWorkspace
<1>6. CASE \E h \in Handles, v \in Value : UpdateEntity(w, t, h, v)
  <2>1. PICK h \in Handles, v \in Value : UpdateEntity(w, t, h, v)
    BY <1>6
  <2> DEFINE n == obj[w].nextId
             a == Assign(ArenaOf(w, t), h, v)
  <2>2. GoodEdit(w, t, n, a) /\ Write(w, t, n, a)
    BY <1>1, <2>1, AssignGood DEF UpdateEntity
  <2>3. Abstract!Edit(w, t, n, a)
    BY <1>1, <1>2, <2>2, WriteViews
  <2>4. Abstract!UpdateEntity(w, t, h, v)
    BY <1>2, <2>3, SameArenaOps DEF Abstract!UpdateEntity
  <2> QED BY <1>1, <1>2, <2>2, <2>4 DEF Abstract!EditWorkspace
<1>7. CASE TryGetEntity(w, t)
  <2> DEFINE n == obj[w].nextId
             a == ArenaOf(w, t)
  <2>1. GoodEdit(w, t, n, a) /\ Write(w, t, n, a)
    BY <1>1, <1>7, KeepGood DEF TryGetEntity
  <2>2. Abstract!Edit(w, t, n, a)
    BY <1>1, <1>2, <2>1, WriteViews
  <2>3. Abstract!Edited(w, t, n, a) = View(w)
    BY <1>1 DEF Abstract!Edited, Views, View
  <2>4. Views' = [Views EXCEPT ![w] = View(w)]
    BY <2>2, <2>3 DEF Abstract!Edit
  <2>5. Views' = Views
    BY <1>1, <2>4 DEF Views
  <2> QED BY <1>1, <1>2, <2>1, <2>5
<1> QED BY <1>3, <1>4, <1>5, <1>6, <1>7 DEF EditWorkspace

-----------------------------------------------------------------------------
(* The invariant is inductive.                                              *)

LEMMA WriteIInv ==
  ASSUME IInv, NEW w \in DOMAIN obj, NEW t \in Table, NEW n \in Nat, NEW a,
         GoodEdit(w, t, n, a), Write(w, t, n, a)
  PROVE  IInv'
<1>1. PICK q \in Addr : Wrote(w, t, n, a, q)
  BY WriteEffect
<1>2. /\ obj \in [DOMAIN obj -> Object] /\ DOMAIN obj \subseteq Owner
      /\ DOMAIN heap = Referenced(obj)
  BY DEF IInv, TypeOK
<1>3. /\ DOMAIN obj' = DOMAIN obj
      /\ \A o \in DOMAIN obj \ {w} : obj'[o] = obj[o]
      /\ obj'[w].version = obj[w].version /\ obj'[w].nextId = n
      /\ obj'[w] = Moved(w, t, n, q)
      /\ \A u \in Table : obj'[w].tables[u] = IF u = t THEN q ELSE obj[w].tables[u]
  BY <1>1, <1>2 DEF Object, Wrote, Moved
<1>4. obj' \in [DOMAIN obj' -> Object]
  <2>1. obj'[w] \in Object
    BY <1>2, <1>3 DEF Object, Moved
  <2>2. obj' = [o \in DOMAIN obj |-> obj'[o]]
    BY <1>1 DEF Wrote
  <2> QED BY <1>2, <1>3, <2>1, <2>2
<1>5. \A o \in DOMAIN obj, u \in Table :
        /\ obj[o].tables[u] \in DOMAIN heap
        /\ obj'[o].tables[u] = IF o = w /\ u = t THEN q ELSE obj[o].tables[u]
        /\ heap'[obj'[o].tables[u]] = IF o = w /\ u = t THEN a ELSE heap[obj[o].tables[u]]
        /\ o # w \/ u # t => obj[o].tables[u] # q
  BY <1>1, <1>2, <1>3 DEF Wrote, Referenced
<1>6. ASSUME NEW r \in DOMAIN heap'
      PROVE  IsArena(heap'[r]) /\ FreeExact(heap'[r])
  <2>1. PICK o \in DOMAIN obj, u \in Table : r = obj'[o].tables[u]
    BY <1>1, <1>3 DEF Wrote, Referenced
  <2>2. heap'[r] = IF o = w /\ u = t THEN a ELSE heap[obj[o].tables[u]]
    BY <1>5, <2>1
  <2>3. /\ IsArena(heap[obj[o].tables[u]])
        /\ FreeExact(heap[obj[o].tables[u]])
    BY <1>5 DEF IInv, TypeOK
  <2> QED BY <2>2, <2>3 DEF GoodEdit
<1>7. TypeOK'
  BY <1>1, <1>2, <1>3, <1>4, <1>6 DEF TypeOK, Wrote
<1>8. TablesApart'
  BY <1>3, <1>5 DEF IInv, TablesApart
<1>9. IdsBehind'
  <2> SUFFICES ASSUME NEW o \in DOMAIN obj, NEW u \in Table,
                      NEW i \in DOMAIN heap'[obj'[o].tables[u]].slots
               PROVE  heap'[obj'[o].tables[u]].slots[i].id < obj'[o].nextId
    BY <1>3 DEF IdsBehind, ArenaOf
  <2>1. CASE o = w /\ u = t
    BY <1>3, <1>5, <2>1 DEF GoodEdit
  <2>2. CASE o = w /\ u # t
    <3>1. /\ obj[w].nextId \in Nat /\ n >= obj[w].nextId
          /\ heap'[obj'[o].tables[u]] = ArenaOf(w, u)
      BY <1>2, <1>5, <2>2 DEF GoodEdit, Object, ArenaOf
    <3>2. ArenaOf(w, u).slots[i].id \in Nat /\ ArenaOf(w, u).slots[i].id < obj[w].nextId
      BY <3>1, ArenaFacts
    <3> QED BY <1>3, <2>2, <3>1, <3>2
  <2>3. CASE o # w
    BY <1>3, <1>5, <2>3, ArenaFacts DEF ArenaOf
  <2> QED BY <2>1, <2>2, <2>3
<1> QED BY <1>6, <1>7, <1>8, <1>9 DEF IInv

(* Creating, copying, committing and destroying objects leaves every        *)
(* object's tables where they are, and is the abstract operation.           *)

LEMMA SameStoreOps ==
  /\ \A f, k, x : Abstract!Put(f, k, x) = Put(f, k, x)
  /\ Abstract!EmptyArena = EmptyArena
BY Zenon DEF Put, EmptyArena, Abstract!Put, Abstract!EmptyArena

LEMMA EmptyIsGood ==
  /\ IsArena(EmptyArena)
  /\ FreeExact(EmptyArena)
  /\ EmptyArena.slots = << >>
<1>1. EmptyArena.slots = << >> /\ EmptyArena.free = << >>
  BY DEF EmptyArena
<1>2. IsArena(EmptyArena)
  BY DEF EmptyArena, IsArena
<1>3. FreeExact(EmptyArena)
  BY <1>1 DEF FreeExact, DeadSlots
<1> QED BY <1>1, <1>2, <1>3

LEMMA CreateEffect ==
  ASSUME IInv, NEW o \in Owner, NEW f \in Nat, Create(o, f)
  PROVE  /\ IInv'
         /\ Abstract!Create(o, f)
         /\ \A p \in DOMAIN obj : obj'[p] = obj[p] /\ View(p)' = View(p)
<1>1. PICK at \in [Table -> Addr \ DOMAIN heap] :
        /\ \A t, u \in Table : at[t] = at[u] => t = u
        /\ obj' = Put(obj, o, [version |-> 0, nextId |-> f, tables |-> at])
        /\ heap' = [p \in DOMAIN heap \cup {at[t] : t \in Table} |->
                     IF p \in DOMAIN heap THEN heap[p] ELSE EmptyArena]
  BY DEF Create
<1>2. /\ o \notin DOMAIN obj /\ o \in Owner
      /\ obj \in [DOMAIN obj -> Object] /\ DOMAIN obj \subseteq Owner
      /\ DOMAIN heap = Referenced(obj)
  BY DEF Create, IInv, TypeOK
<1>3. /\ DOMAIN obj' = DOMAIN obj \cup {o}
      /\ \A p \in DOMAIN obj : obj'[p] = obj[p]
      /\ obj'[o] = [version |-> 0, nextId |-> f, tables |-> at]
      /\ obj' = [p \in DOMAIN obj' |-> obj'[p]]
  BY <1>1, <1>2 DEF Put
<1>4. /\ DOMAIN heap' = DOMAIN heap \cup {at[t] : t \in Table}
      /\ \A p \in DOMAIN heap : heap'[p] = heap[p]
      /\ \A t \in Table : heap'[at[t]] = EmptyArena
      /\ heap' = [p \in DOMAIN heap' |-> heap'[p]]
  BY <1>1
<1>5. \A p \in DOMAIN obj, t \in Table :
        /\ obj[p].tables[t] \in DOMAIN heap
        /\ heap'[obj'[p].tables[t]] = heap[obj[p].tables[t]]
  BY <1>2, <1>3, <1>4 DEF Referenced
<1>6. \A t \in Table :
        obj'[o].tables[t] = at[t] /\ heap'[obj'[o].tables[t]] = EmptyArena
  BY <1>3, <1>4
<1>7. TypeOK'
  <2>1. obj'[o] \in Object
    BY <1>3 DEF Object
  <2>2. obj' \in [DOMAIN obj' -> Object]
    BY <1>2, <1>3, <2>1
  <2>3. DOMAIN heap' = Referenced(obj')
    BY <1>2, <1>3, <1>4, <1>6 DEF Referenced
  <2>4. \A p \in DOMAIN heap' : IsArena(heap'[p])
    BY <1>4, EmptyIsGood DEF IInv, TypeOK
  <2> QED BY <1>2, <1>3, <1>4, <2>2, <2>3, <2>4 DEF TypeOK
<1>8. TablesApart'
  BY <1>1, <1>3, <1>5, <1>6 DEF IInv, TablesApart
<1>9. IdsBehind'
  <2>1. \A p \in DOMAIN obj, t \in Table : \A i \in DOMAIN heap'[obj'[p].tables[t]].slots :
          heap'[obj'[p].tables[t]].slots[i].id < obj'[p].nextId
    BY <1>3, <1>5 DEF IInv, IdsBehind, ArenaOf
  <2>2. \A t \in Table : DOMAIN heap'[obj'[o].tables[t]].slots = {}
    BY <1>6, EmptyIsGood
  <2> QED BY <1>3, <2>1, <2>2 DEF IdsBehind, ArenaOf
<1>10. \A p \in DOMAIN heap' : FreeExact(heap'[p])
  BY <1>4, EmptyIsGood DEF IInv
<1>11. \A p \in DOMAIN obj : View(p)' = View(p)
  BY <1>3, <1>5 DEF View, ArenaOf
<1>12. View(o)' = [version |-> 0, nextId |-> f, tables |-> [t \in Table |-> EmptyArena]]
  BY <1>3, <1>6 DEF View, ArenaOf
<1>13. Abstract!Create(o, f)
  BY <1>2, <1>3, <1>11, <1>12, SameStoreOps DEF Abstract!Create, Views, Put
<1> QED BY <1>3, <1>7, <1>8, <1>9, <1>10, <1>11, <1>13 DEF IInv

(* The steps that only add objects whose tables are those of o: heap stays. *)
LEMMA ShareIInv ==
  ASSUME IInv, NEW o \in DOMAIN obj, NEW D \in SUBSET Owner, NEW ver \in Nat,
         UNCHANGED heap, DOMAIN obj \subseteq D,
         obj' = [p \in D |-> IF p \in DOMAIN obj \ {o} THEN obj[p]
                             ELSE [version |-> ver, nextId |-> obj[o].nextId,
                                   tables |-> obj[o].tables]]
  PROVE  /\ IInv'
         /\ \A p \in DOMAIN obj \ {o} : View(p)' = View(p)
         /\ \A p \in (D \ DOMAIN obj) \cup {o} :
              View(p)' = [version |-> ver, nextId |-> View(o).nextId,
                          tables |-> View(o).tables]
<1>1. /\ obj \in [DOMAIN obj -> Object] /\ DOMAIN obj \subseteq Owner
      /\ DOMAIN heap = Referenced(obj) /\ heap' = heap
      /\ obj[o].nextId \in Nat /\ obj[o].tables \in [Table -> Addr]
  BY ObjectFields DEF IInv, TypeOK, Object
<1>2. /\ DOMAIN obj' = D
      /\ \A p \in D : obj'[p] =
           IF p \in DOMAIN obj \ {o} THEN obj[p]
           ELSE [version |-> ver, nextId |-> obj[o].nextId, tables |-> obj[o].tables]
  OBVIOUS
<1>3. \A p \in D, t \in Table :
        obj'[p].tables[t] = IF p \in DOMAIN obj THEN obj[p].tables[t] ELSE obj[o].tables[t]
  BY <1>2
<1>4. \A p \in D : obj'[p].nextId = IF p \in DOMAIN obj THEN obj[p].nextId ELSE obj[o].nextId
  BY <1>2
<1>5. TypeOK'
  <2>1. \A p \in D : obj'[p] \in Object
    BY <1>1, <1>2 DEF Object
  <2>2. Referenced(obj') = Referenced(obj)
    BY <1>2, <1>3 DEF Referenced
  <2>3. obj' \in [DOMAIN obj' -> Object]
    BY <1>2, <2>1
  <2> QED BY <1>1, <1>2, <2>2, <2>3 DEF IInv, TypeOK
<1>6. TablesApart'
  BY <1>2, <1>3 DEF IInv, TablesApart
<1>7. IdsBehind'
  <2> SUFFICES ASSUME NEW p \in D, NEW t \in Table,
                      NEW i \in DOMAIN heap[obj'[p].tables[t]].slots
               PROVE  heap[obj'[p].tables[t]].slots[i].id < obj'[p].nextId
    BY <1>1, <1>2 DEF IdsBehind, ArenaOf
  <2>1. PICK r \in DOMAIN obj :
          obj'[p].tables[t] = obj[r].tables[t] /\ obj'[p].nextId = obj[r].nextId
    BY <1>3, <1>4
  <2> QED BY <2>1 DEF IInv, IdsBehind, ArenaOf
<1>8. \A p \in DOMAIN obj \ {o} : View(p)' = View(p)
  BY <1>1, <1>2 DEF View, ArenaOf
<1>9. \A p \in (D \ DOMAIN obj) \cup {o} :
        View(p)' = [version |-> ver, nextId |-> View(o).nextId, tables |-> View(o).tables]
  BY <1>1, <1>2 DEF View, ArenaOf
<1> QED BY <1>1, <1>5, <1>6, <1>7, <1>8, <1>9 DEF IInv

LEMMA CopyEffect ==
  ASSUME IInv, NEW o \in Owner, NEW p \in Owner, Copy(o, p)
  PROVE  /\ IInv'
         /\ Abstract!Copy(o, p)
         /\ \A r \in DOMAIN obj : obj'[r] = obj[r] /\ View(r)' = View(r)
<1> DEFINE D == DOMAIN obj \cup {p}
<1>1. /\ o \in DOMAIN obj /\ p \notin DOMAIN obj /\ UNCHANGED heap
      /\ obj' = Put(obj, p, obj[o])
      /\ obj[o] \in Object /\ DOMAIN obj \subseteq Owner
  BY DEF Copy, IInv, TypeOK
<1>2. obj[o] = [version |-> obj[o].version, nextId |-> obj[o].nextId, tables |-> obj[o].tables]
      /\ obj[o].version \in Nat
  BY <1>1 DEF Object
<1>3. obj' = [r \in D |-> IF r \in DOMAIN obj \ {o} THEN obj[r]
                         ELSE [version |-> obj[o].version, nextId |-> obj[o].nextId,
                               tables |-> obj[o].tables]]
  BY <1>1, <1>2 DEF Put
<1>a. D \in SUBSET Owner /\ DOMAIN obj \subseteq D /\ p \in D \ DOMAIN obj
  BY <1>1
<1> HIDE DEF D
<1>4. /\ IInv'
      /\ \A r \in DOMAIN obj \ {o} : View(r)' = View(r)
      /\ \A r \in {p, o} : View(r)' = [version |-> obj[o].version, nextId |-> View(o).nextId,
                                      tables |-> View(o).tables]
  BY <1>1, <1>2, <1>3, <1>a, ShareIInv
<1>5. View(p)' = View(o) /\ View(o)' = View(o)
  BY <1>4 DEF View
<1>6. Views' = Put(Views, p, Views[o])
  BY <1>1, <1>3, <1>4, <1>5 DEF Views, Put
<1>7. Abstract!Copy(o, p)
  BY <1>1, <1>6, SameStoreOps DEF Abstract!Copy, Views
<1>8. \A r \in DOMAIN obj : obj'[r] = obj[r] /\ View(r)' = View(r)
  BY <1>1, <1>4, <1>5 DEF Put
<1> QED BY <1>4, <1>7, <1>8

LEMMA CommitEffect ==
  ASSUME IInv, NEW w \in Work, NEW s \in Snap, Commit(w, s)
  PROVE  /\ IInv'
         /\ Abstract!Commit(w, s)
         /\ \A r \in DOMAIN obj : /\ obj'[r].tables = obj[r].tables
                                 /\ obj'[r].nextId = obj[r].nextId
         /\ \A r \in DOMAIN obj \ {w} : View(r)' = View(r)
<1> DEFINE D   == DOMAIN obj \cup {s}
           ver == obj[w].version + 1
<1>1. /\ w \in DOMAIN obj /\ s \notin DOMAIN obj /\ UNCHANGED heap
      /\ obj' = Put(Put(obj, w, [obj[w] EXCEPT !.version = @ + 1]), s,
                    [obj[w] EXCEPT !.version = @ + 1])
      /\ obj[w] \in Object /\ DOMAIN obj \subseteq Owner
  BY DEF Commit, IInv, TypeOK
<1>2. [obj[w] EXCEPT !.version = @ + 1]
        = [version |-> ver, nextId |-> obj[w].nextId, tables |-> obj[w].tables]
  BY <1>1 DEF Object
<1>3. obj' = [r \in D |-> IF r \in DOMAIN obj \ {w} THEN obj[r]
                         ELSE [version |-> ver, nextId |-> obj[w].nextId,
                               tables |-> obj[w].tables]]
  BY <1>1, <1>2 DEF Put
<1>4. /\ D \in SUBSET Owner /\ DOMAIN obj \subseteq D /\ s \in D \ DOMAIN obj
      /\ ver \in Nat
  BY <1>1 DEF Owner, Object
<1> HIDE DEF D, ver
<1>5. /\ IInv'
      /\ \A r \in DOMAIN obj \ {w} : View(r)' = View(r)
      /\ \A r \in {s, w} : View(r)' = [version |-> ver, nextId |-> View(w).nextId,
                                      tables |-> View(w).tables]
  BY <1>1, <1>3, <1>4, ShareIInv
<1>6. [Views[w] EXCEPT !.version = @ + 1]
        = [version |-> ver, nextId |-> View(w).nextId, tables |-> View(w).tables]
  BY <1>1 DEF Views, View, ver
<1>7. Views' = Put(Put(Views, w, [Views[w] EXCEPT !.version = @ + 1]), s,
                   [Views[w] EXCEPT !.version = @ + 1])
  BY <1>1, <1>3, <1>5, <1>6 DEF Views, Put, D
<1>8. Abstract!Commit(w, s)
  BY <1>1, <1>7, SameStoreOps DEF Abstract!Commit, Views
<1>9. \A r \in DOMAIN obj : /\ obj'[r].tables = obj[r].tables
                            /\ obj'[r].nextId = obj[r].nextId
  BY <1>3, <1>4
<1> QED BY <1>5, <1>8, <1>9

LEMMA DestroyEffect ==
  ASSUME IInv, NEW o \in Owner, Destroy(o)
  PROVE  /\ IInv'
         /\ Abstract!Destroy(o)
         /\ \A r \in DOMAIN obj' : r \in DOMAIN obj /\ obj'[r] = obj[r] /\ View(r)' = View(r)
<1>1. /\ o \in DOMAIN obj
      /\ DOMAIN obj' = DOMAIN obj \ {o}
      /\ obj' = [r \in DOMAIN obj' |-> obj'[r]]
      /\ \A r \in DOMAIN obj' : r \in DOMAIN obj /\ obj'[r] = obj[r]
  BY DEF Destroy
<1>2. /\ DOMAIN heap' = Referenced(obj')
      /\ heap' = [p \in DOMAIN heap' |-> heap'[p]]
      /\ \A p \in DOMAIN heap' : heap'[p] = heap[p]
  BY DEF Destroy, Reclaim
<1>3. /\ obj \in [DOMAIN obj -> Object] /\ DOMAIN obj \subseteq Owner
      /\ DOMAIN heap = Referenced(obj)
  BY DEF IInv, TypeOK
<1>4. DOMAIN heap' \subseteq DOMAIN heap
  BY <1>1, <1>2, <1>3 DEF Referenced
<1>5. \A r \in DOMAIN obj', t \in Table : heap'[obj'[r].tables[t]] = heap[obj[r].tables[t]]
  BY <1>1, <1>2 DEF Referenced
<1>6. TypeOK'
  BY <1>1, <1>2, <1>3, <1>4 DEF IInv, TypeOK
<1>7. TablesApart'
  BY <1>1 DEF IInv, TablesApart
<1>8. IdsBehind'
  BY <1>1, <1>5 DEF IInv, IdsBehind, ArenaOf
<1>9. \A p \in DOMAIN heap' : FreeExact(heap'[p])
  BY <1>2, <1>4 DEF IInv
<1>10. \A r \in DOMAIN obj' : View(r)' = View(r)
  BY <1>1, <1>5 DEF View, ArenaOf
<1>11. Abstract!Destroy(o)
  BY <1>1, <1>10 DEF Abstract!Destroy, Views
<1> QED BY <1>1, <1>6, <1>7, <1>8, <1>9, <1>10, <1>11 DEF IInv

-----------------------------------------------------------------------------
LEMMA InitIInv == Init => IInv /\ Abstract!Init
<1> SUFFICES ASSUME Init PROVE IInv /\ Abstract!Init
  OBVIOUS
<1>1. DOMAIN obj = {} /\ DOMAIN heap = {} /\ Referenced(obj) = {}
  BY DEF Init, Referenced
<1>2. TypeOK
  BY <1>1 DEF Init, TypeOK
<1>3. TablesApart /\ IdsBehind
  BY <1>1 DEF TablesApart, IdsBehind
<1>4. Abstract!Init
  BY <1>1 DEF Abstract!Init, Views
<1> QED BY <1>1, <1>2, <1>3, <1>4 DEF IInv

(* What is true of every step. *)
StepIsGood ==
  /\ IInv'
  /\ Abstract!Next \/ UNCHANGED Views
  /\ OneViewChanges
  /\ SharedTablesMove
  /\ NeverBack

LEMMA AllocatorKept ==
  ASSUME IInv, \A o \in DOMAIN obj \cap DOMAIN obj' : obj'[o].nextId = obj[o].nextId
  PROVE  NeverBack
<1>1. \A o \in DOMAIN obj : obj[o].nextId \in Nat
  BY DEF IInv, TypeOK, Object
<1> QED BY <1>1 DEF NeverBack

LEMMA EditIsGood ==
  ASSUME IInv, NEW w \in Work, NEW t \in Table, EditWorkspace(w, t)
  PROVE  StepIsGood
<1>1. PICK n \in Nat : w \in DOMAIN obj /\ \E a : GoodEdit(w, t, n, a) /\ Write(w, t, n, a)
  BY EditStep
<1>2. PICK a : GoodEdit(w, t, n, a) /\ Write(w, t, n, a)
  BY <1>1
<1>3. IInv' /\ \A o \in DOMAIN obj \ {w} : View(o)' = View(o)
  BY <1>1, <1>2, WriteIInv, WriteViews
<1>4. Abstract!Next \/ UNCHANGED Views
  <2>1. w \in Work \cap DOMAIN Views
    BY <1>1 DEF Views
  <2> QED BY <2>1, EditStep DEF Abstract!Next
<1>5. OneViewChanges
  BY <1>3 DEF OneViewChanges
<1>6. SharedTablesMove
  <2>1. PICK q \in Addr : Wrote(w, t, n, a, q)
    BY <1>1, <1>2, WriteEffect
  <2>2. /\ \A o \in DOMAIN obj, u \in Table :
             o # w \/ u # t => obj'[o].tables[u] = obj[o].tables[u]
        /\ obj'[w].tables[t] = q
    BY <1>1, <2>1, ObjectFields DEF IInv, Wrote, Moved
  <2>3. obj[w].tables[t] # q => obj[w].tables[t] \in Referenced(obj')
    BY <2>1 DEF Wrote
  <2> QED BY <2>2, <2>3 DEF SharedTablesMove
<1>7. NeverBack
  <2>1. PICK q \in Addr : Wrote(w, t, n, a, q)
    BY <1>1, <1>2, WriteEffect
  <2>2. /\ \A o \in DOMAIN obj \ {w} : obj'[o] = obj[o]
        /\ obj'[w].nextId = n
    BY <1>1, <2>1, ObjectFields DEF IInv, Wrote, Moved
  <2>3. \A o \in DOMAIN obj : obj[o].nextId \in Nat
    BY DEF IInv, TypeOK, Object
  <2> QED BY <1>2, <2>2, <2>3 DEF GoodEdit, NeverBack
<1> QED BY <1>3, <1>4, <1>5, <1>6, <1>7 DEF StepIsGood

LEMMA NextIsGood == IInv /\ [Next]_vars => StepIsGood
<1> SUFFICES ASSUME IInv, [Next]_vars PROVE StepIsGood
  OBVIOUS
<1>1. CASE UNCHANGED vars
  <2>1. IInv' /\ UNCHANGED Views
    BY <1>1 DEF vars, IInv, TypeOK, TablesApart, IdsBehind, ArenaOf, Referenced,
                Views, View
  <2>2. OneViewChanges /\ SharedTablesMove
    BY <1>1 DEF vars, OneViewChanges, SharedTablesMove, View, ArenaOf
  <2>3. NeverBack
    BY <1>1, AllocatorKept DEF vars
  <2> QED BY <2>1, <2>2, <2>3 DEF StepIsGood
<1>2. ASSUME NEW o \in Owner, NEW f \in Nat, Create(o, f)
      PROVE  /\ IInv' /\ Abstract!Create(o, f)
             /\ OneViewChanges /\ SharedTablesMove /\ NeverBack
  BY <1>2, CreateEffect, AllocatorKept DEF OneViewChanges, SharedTablesMove
<1>3. CASE \E w \in Work : Create(w, 1)
  BY <1>2, <1>3 DEF Owner, StepIsGood, Abstract!Next
<1>4. CASE \E s \in Snap : Create(s, NullId)
  BY <1>2, <1>4 DEF Owner, StepIsGood, Abstract!Next, NullId, Abstract!NullId
<1>5. ASSUME NEW o \in Owner, NEW p \in Owner, Copy(o, p)
      PROVE  /\ IInv' /\ Abstract!Copy(o, p)
             /\ OneViewChanges /\ SharedTablesMove /\ NeverBack
  BY <1>5, CopyEffect, AllocatorKept DEF OneViewChanges, SharedTablesMove
<1>6. CASE \E o \in Snap, p \in Owner : Copy(o, p)
  BY <1>5, <1>6 DEF Owner, StepIsGood, Abstract!Next
<1>7. CASE \E o, p \in Work : Copy(o, p)
  BY <1>5, <1>7 DEF Owner, StepIsGood, Abstract!Next
<1>8. CASE \E w \in Work, s \in Snap : Commit(w, s)
  <2>1. PICK w \in Work, s \in Snap : Commit(w, s)
    BY <1>8
  <2>2. /\ IInv' /\ Abstract!Commit(w, s)
        /\ OneViewChanges /\ SharedTablesMove /\ NeverBack
    BY <2>1, CommitEffect, AllocatorKept DEF OneViewChanges, SharedTablesMove
  <2> QED BY <2>2 DEF StepIsGood, Abstract!Next
<1>9. CASE \E o \in Owner : Destroy(o)
  <2>1. PICK o \in Owner : Destroy(o)
    BY <1>9
  <2>2. /\ IInv' /\ Abstract!Destroy(o)
        /\ OneViewChanges /\ SharedTablesMove /\ NeverBack
    BY <2>1, DestroyEffect, AllocatorKept DEF OneViewChanges, SharedTablesMove
  <2> QED BY <2>2 DEF StepIsGood, Abstract!Next, Owner
<1>10. CASE \E w \in Work, t \in Table : EditWorkspace(w, t)
  BY <1>10, EditIsGood
<1> QED BY <1>1, <1>3, <1>4, <1>6, <1>7, <1>8, <1>9, <1>10 DEF Next

LEMMA AlwaysIInv == Spec => []IInv
<1>1. IInv /\ [Next]_vars => IInv'
  BY NextIsGood DEF StepIsGood
<1>2. Init => IInv
  BY InitIInv
<1> QED BY <1>1, <1>2, PTL DEF Spec

-----------------------------------------------------------------------------
(* Objects refer to arenas that exist, and no arena outlives its last       *)
(* reference (cow_table.hpp, the shared_ptr of CowTable).                   *)
THEOREM CowTypeOK == Spec => []TypeOK
<1>1. IInv => TypeOK
  BY DEF IInv
<1> QED BY <1>1, AlwaysIInv, PTL

(* The allocator is past every id the tables sharing it hold, and never     *)
(* goes back: it hands out no id they have held, in whatever order ids were *)
(* restored (workspace.hpp, insert_with_id()).                              *)
THEOREM CowAllocatorAhead == Spec => AllocatorAhead
<1>1. IInv => IdsBehind
  BY DEF IInv
<1>2. IInv /\ IdsBehind' /\ [Next]_vars => [IdsBehind' /\ NeverBack]_vars
  BY NextIsGood DEF StepIsGood
<1> QED BY <1>1, <1>2, AlwaysIInv, PTL DEF Spec, AllocatorAhead

(* A snapshot never changes, and editing one workspace changes no other     *)
(* object (architecture.md, Snapshots and workspaces).                      *)
THEOREM CowEditsStayPrivate == Spec => EditsStayPrivate
<1>1. IInv /\ [Next]_vars => [OneViewChanges]_vars
  BY NextIsGood DEF StepIsGood
<1> QED BY <1>1, AlwaysIInv, PTL DEF Spec, EditsStayPrivate

(* Only shared tables are ever cloned (cow_table.hpp, write()).             *)
THEOREM CowClonesOnlyShared == Spec => ClonesOnlyShared
<1>1. IInv /\ [Next]_vars => [SharedTablesMove]_vars
  BY NextIsGood DEF StepIsGood
<1> QED BY <1>1, AlwaysIInv, PTL DEF Spec, ClonesOnlyShared

(* Copy-on-write cannot be observed: the store is the one in which every    *)
(* object has tables of its own.                                            *)
THEOREM CowImplementsSnapshotStore == Spec => ImplementsSnapshotStore
<1>1. Init => Abstract!Init
  BY InitIInv
<1>2. IInv /\ [Next]_vars => [Abstract!Next]_Views
  BY NextIsGood DEF StepIsGood
<1> QED BY <1>1, <1>2, AlwaysIInv, PTL DEF Spec, ImplementsSnapshotStore, Abstract!Spec
=============================================================================
