----------------------------- MODULE CAbiProofs ------------------------------
(* The C interface for any set of handles, threads, files and names: its    *)
(* type, the validity of the names a caller keeps, and what a call may      *)
(* change.  The inductive invariant says how handles lead to tables: each   *)
(* table that exists is referred to by some handle and is a sound arena, a  *)
(* name kept points into a table of a snapshot that is not freed, and a     *)
(* buffer holds well-formed entities.  Each call then has to be shown to    *)
(* leave the tables of the other handles where and as they are.             *)
EXTENDS CAbi, ArenaOpsProofs, FiniteSetTheorems, FunctionTheorems, TLAPS

-----------------------------------------------------------------------------
(* The layers and their kinds.                                              *)

LEMMA KindNames ==
  /\ Layer = {"geometry", "connectivity", "stackup"}
  /\ Kinds["geometry"] = {"via"}
  /\ Kinds["connectivity"] = {"net", "pin"}
  /\ Kinds["stackup"] = {"material", "layer"}
  /\ Kind = {"via", "net", "pin", "material", "layer"}
<1>1. Layer = {"geometry", "connectivity", "stackup"}
  BY DEF Layer, Kinds
<1>2. /\ Kinds["geometry"] = {"via"}
      /\ Kinds["connectivity"] = {"net", "pin"}
      /\ Kinds["stackup"] = {"material", "layer"}
  BY DEF Kinds
<1>3. Kind = {"via", "net", "pin", "material", "layer"}
  BY <1>1, <1>2 DEF Kind
<1> QED BY <1>1, <1>2, <1>3

LEMMA KindOfOneLayer ==
  \A l \in Layer : \A k \in Kinds[l] : k \in Kind /\ LayerOf(k) = l
<1> SUFFICES ASSUME NEW l \in Layer, NEW k \in Kinds[l]
             PROVE  k \in Kind /\ LayerOf(k) = l
  OBVIOUS
<1>1. \A m \in Layer : k \in Kinds[m] => m = l
  BY KindNames
<1> QED BY <1>1 DEF LayerOf, Kind

LEMMA LayerOfKind ==
  \A k \in Kind : LayerOf(k) \in Layer /\ k \in Kinds[LayerOf(k)]
BY DEF LayerOf, Kind

LEMMA RanksDiffer ==
  \A j, k \in Kind : Rank[j] \in 1 .. 5 /\ (Rank[j] = Rank[k] => j = k)
BY KindNames DEF Rank
-----------------------------------------------------------------------------
(* Loaded tables. *)

(* no id twice *)
Distinct(entries) ==
  \A i, j \in DOMAIN entries : entries[i].id = entries[j].id => i = j

(* Restored as its recursion computes it. *)
LEMMA RestoredByCounting ==
  ASSUME NEW entries \in Seq(Entity)
  PROVE  \E f : /\ Restored(entries) = f[Len(entries)]
               /\ f[0] = EmptyArena
               /\ \A n \in 1 .. Len(entries) :
                    f[n] = Insert(f[n - 1], entries[n].value, entries[n].id)
<1> DEFINE N == Len(entries)
           Step(f, n) == IF n = 0 THEN EmptyArena
                         ELSE Insert(f[n - 1], entries[n].value, entries[n].id)
           Upto(m) == \E f : f = [n \in 0 .. m |-> Step(f, n)]
           after[n \in 0 .. N] ==
             IF n = 0 THEN EmptyArena
             ELSE Insert(after[n - 1], entries[n].value, entries[n].id)
<1>1. N \in Nat
  OBVIOUS
<1>2. Upto(N)
  <2> DEFINE S == {m \in 0 .. N : Upto(m)}
  <2>1. Upto(0)
    <3>1. [n \in 0 .. 0 |-> EmptyArena]
            = [n \in 0 .. 0 |-> Step([m \in 0 .. 0 |-> EmptyArena], n)]
      OBVIOUS
    <3> QED BY <3>1
  <2>2. ASSUME NEW m \in 0 .. N - 1, Upto(m) PROVE Upto(m + 1)
    <3>1. PICK f : f = [n \in 0 .. m |-> Step(f, n)]
      BY <2>2
    <3> DEFINE g == [n \in 0 .. m + 1 |-> IF n = m + 1 THEN Step(f, n) ELSE f[n]]
    <3>2. ASSUME NEW n \in 0 .. m + 1 PROVE g[n] = Step(g, n)
      <4>1. CASE n = 0
        BY <4>1, <3>1
      <4>2. CASE n # 0
        <5>1. n - 1 \in 0 .. m /\ n - 1 # m + 1
          BY <4>2
        <5>2. g[n - 1] = f[n - 1]
          BY <5>1
        <5>3. g[n] = Step(f, n)
          BY <3>1
        <5> QED BY <5>2, <5>3
      <4> QED BY <4>1, <4>2
    <3> HIDE DEF Step
    <3>3. g = [n \in 0 .. m + 1 |-> Step(g, n)]
      BY <3>2
    <3> QED BY <3>3
  <2> HIDE DEF Upto
  <2>3. 0 \in S
    BY <2>1, <1>1
  <2>4. \A m \in 0 .. N - 1 : m \in S => m + 1 \in S
    BY <2>2, <1>1
  <2>5. N \in S
    BY <2>3, <2>4, <1>1, CountUp
  <2> QED BY <2>5
<1>3. after = CHOOSE f : f = [n \in 0 .. N |-> Step(f, n)]
  BY DEF after
<1>4. Restored(entries) = after[N]
  BY DEF Restored, after
<1> HIDE DEF after
<1>5. after = [n \in 0 .. N |-> Step(after, n)]
  BY <1>2, <1>3
<1>6. after[0] = EmptyArena
  BY <1>1, <1>5
<1>7. ASSUME NEW n \in 1 .. N
      PROVE  after[n] = Insert(after[n - 1], entries[n].value, entries[n].id)
  <2>1. n \in 0 .. N /\ n # 0
    BY <1>1
  <2> QED BY <1>5, <2>1
<1> QED BY <1>4, <1>6, <1>7

(* The table a loaded board gets is a sound arena. *)
LEMMA RestoredSound ==
  ASSUME NEW entries \in Seq(Entity)
  PROVE  Sound(Restored(entries))
<1> DEFINE N == Len(entries)
<1>1. N \in Nat
  OBVIOUS
<1>2. PICK f : /\ Restored(entries) = f[N]
               /\ f[0] = EmptyArena
               /\ \A n \in 1 .. N : f[n] = Insert(f[n - 1], entries[n].value, entries[n].id)
  BY RestoredByCounting
<1> DEFINE S == {m \in 0 .. N : Sound(f[m])}
<1>3. 0 \in S
  BY <1>1, <1>2, EmptySound
<1>4. ASSUME NEW m \in 0 .. N - 1, m \in S PROVE m + 1 \in S
  <2>1. m + 1 \in 1 .. N /\ m + 1 \in 0 .. N /\ (m + 1) - 1 = m
    BY <1>1
  <2>2. entries[m + 1] \in Entity
    BY <2>1
  <2>3. f[m + 1] = Insert(f[m], entries[m + 1].value, entries[m + 1].id)
    BY <1>2, <2>1
  <2> QED BY <1>4, <2>1, <2>2, <2>3, InsertSound DEF Entity
<1>5. N \in S
  BY <1>1, <1>3, <1>4, CountUp
<1> QED BY <1>2, <1>5

(* It holds the ids of the buffer, each once if the buffer does.            *)
LEMMA RestoredIds ==
  ASSUME NEW entries \in Seq(Entity), Distinct(entries)
  PROVE  LET a == Restored(entries)
         IN  /\ IdsDiffer(a) /\ GensNonNull(a)
             /\ \A i \in LiveSlots(a) : \E j \in DOMAIN entries : a.slots[i].id = entries[j].id
<1> DEFINE N == Len(entries)
           From(a, m) == \A i \in LiveSlots(a) : \E j \in 1 .. m : a.slots[i].id = entries[j].id
<1>1. N \in Nat /\ DOMAIN entries = 1 .. N
  OBVIOUS
<1>2. PICK f : /\ Restored(entries) = f[N]
               /\ f[0] = EmptyArena
               /\ \A n \in 1 .. N : f[n] = Insert(f[n - 1], entries[n].value, entries[n].id)
  BY RestoredByCounting
<1> DEFINE S == {m \in 0 .. N : /\ Sound(f[m]) /\ IdsDiffer(f[m]) /\ GensNonNull(f[m])
                                /\ From(f[m], m)}
<1>3. 0 \in S
  <2>1. LiveSlots(EmptyArena) = {}
    BY DEF LiveSlots, EmptyArena
  <2> QED BY <1>1, <1>2, <2>1, EmptySound DEF IdsDiffer, GensNonNull
<1>4. ASSUME NEW m \in 0 .. N - 1, m \in S PROVE m + 1 \in S
  <2> DEFINE a == f[m]
             id == entries[m + 1].id
             b == Insert(a, entries[m + 1].value, id)
  <2>1. m + 1 \in 1 .. N /\ m + 1 \in 0 .. N /\ (m + 1) - 1 = m /\ 1 .. m + 1 = (1 .. m) \cup {m + 1}
        /\ 1 .. m \subseteq 1 .. N /\ m + 1 \notin 1 .. m
    BY <1>1
  <2>2. entries[m + 1] \in Entity
    BY <2>1
  <2>3. f[m + 1] = b
    BY <1>2, <2>1
  <2>4. Sound(a) /\ IdsDiffer(a) /\ GensNonNull(a) /\ From(a, m)
    BY <1>4
  <2>5. id \in Nat /\ entries[m + 1].value \in Value
    BY <2>2 DEF Entity
  <2>6. \A i \in LiveSlots(a) : a.slots[i].id # id
    BY <1>1, <2>1, <2>4 DEF Distinct
  <2>7. /\ Sound(b) /\ IdsDiffer(b) /\ GensNonNull(b)
        /\ \A j \in LiveSlots(b) :
             b.slots[j].id = id \/ \E i \in LiveSlots(a) : b.slots[j].id = a.slots[i].id
    BY <2>4, <2>5, <2>6, InsertSound, InsertIdsDiffer
  <2> HIDE DEF a, b
  <2>8. From(b, m + 1)
    BY <2>1, <2>4, <2>7
  <2> QED BY <2>1, <2>3, <2>7, <2>8
<1>5. N \in S
  <2> HIDE DEF S
  <2>1. \A m \in 0 .. N - 1 : m \in S => m + 1 \in S
    BY <1>4
  <2> QED BY <1>1, <1>3, <2>1, CountUp
<1> QED BY <1>1, <1>2, <1>5

(* The ids of a table have a bound, so the allocator a buffer leaves is a   *)
(* number.                                                                  *)
LEMMA IdsBounded ==
  ASSUME NEW entries \in Seq(Entity)
  PROVE  \E n \in Nat : \A i \in DOMAIN entries : entries[i].id \in 0 .. n
<1> DEFINE N == Len(entries)
           S == {m \in 0 .. N : \E n \in Nat : \A i \in 1 .. m : entries[i].id \in 0 .. n}
<1>1. N \in Nat /\ DOMAIN entries = 1 .. N
  OBVIOUS
<1>2. 0 \in S
  BY <1>1
<1>3. ASSUME NEW m \in 0 .. N - 1, m \in S PROVE m + 1 \in S
  <2>1. PICK n \in Nat : \A i \in 1 .. m : entries[i].id \in 0 .. n
    BY <1>3
  <2>2. m + 1 \in 0 .. N /\ m + 1 \in 1 .. N /\ 1 .. m + 1 = (1 .. m) \cup {m + 1}
    BY <1>1
  <2>3. entries[m + 1].id \in Nat
    <3>1. entries[m + 1] \in Entity
      BY <1>1, <2>2
    <3> QED BY <3>1 DEF Entity
  <2>4. PICK x \in Nat : x = n + entries[m + 1].id
    BY <2>3
  <2>5. \A i \in 1 .. m + 1 : entries[i].id \in 0 .. x
    BY <2>1, <2>2, <2>3, <2>4
  <2> QED BY <2>2, <2>5
<1>4. N \in S
  <2>1. \A m \in 0 .. N - 1 : m \in S => m + 1 \in S
    BY <1>3
  <2> HIDE DEF S
  <2> QED BY <1>1, <1>2, <2>1, CountUp
<1> QED BY <1>1, <1>4

LEMMA NextIdIsNumber ==
  ASSUME NEW content, \A k \in Kind : content[k] \in Seq(Entity), NEW l \in Layer
  PROVE  /\ NextIdAfter(content, l) \in Nat
         /\ \A k \in Kinds[l] : \A i \in DOMAIN content[k] :
              content[k][i].id < NextIdAfter(content, l)
<1> DEFINE used == {0} \cup UNION {{content[k][i].id : i \in DOMAIN content[k]} : k \in Kinds[l]}
<1>1. PICK j \in Kind, k \in Kind : Kinds[l] = {j, k}
  BY KindNames
<1>2. PICK m \in Nat : \A i \in DOMAIN content[j] : content[j][i].id \in 0 .. m
  BY IdsBounded
<1>3. PICK n \in Nat : \A i \in DOMAIN content[k] : content[k][i].id \in 0 .. n
  BY IdsBounded
<1>4. used \subseteq 0 .. m + n
  <2>1. ASSUME NEW x \in used PROVE x \in 0 .. m + n
    <3>1. CASE x = 0
      BY <3>1
    <3>2. CASE x # 0
      <4>1. PICK y \in Kinds[l] : x \in {content[y][i].id : i \in DOMAIN content[y]}
        BY <3>2
      <4>2. PICK i \in DOMAIN content[y] : x = content[y][i].id
        BY <4>1
      <4> QED BY <1>1, <1>2, <1>3, <4>2
    <3> QED BY <3>1, <3>2
  <2> HIDE DEF used
  <2> QED BY <2>1
<1>5. 0 \in used
  OBVIOUS
<1> DEFINE greatest == CHOOSE x \in used : \A y \in used : y <= x
<1>6. NextIdAfter(content, l) = 1 + greatest
  BY DEF NextIdAfter
<1> HIDE DEF used
<1>7. \E x \in used : \A y \in used : y <= x
  <2>1. m + n \in Nat /\ used \in SUBSET (0 .. m + n) /\ used # {}
    BY <1>4, <1>5
  <2> QED BY <2>1, GreatestNumber
<1>8. greatest \in used /\ \A y \in used : y <= greatest
  BY <1>7
<1>9. \A y \in Kinds[l] : \A i \in DOMAIN content[y] : content[y][i].id \in used
  BY DEF used
<1> HIDE DEF greatest
<1>10. greatest \in Nat
  BY <1>4, <1>8
<1>11. \A y \in Kinds[l] : \A i \in DOMAIN content[y] : content[y][i].id < 1 + greatest
  <2>1. \A x \in used : x \in Nat /\ x <= greatest
    BY <1>4, <1>8
  <2>2. \A x \in used : x < 1 + greatest
    BY <1>10, <2>1
  <2> QED BY <1>9, <2>2
<1> QED BY <1>6, <1>10, <1>11

-----------------------------------------------------------------------------
(* Addresses.                                                               *)

LEMMA TopIsGreatest ==
  ASSUME NEW h, h = [p \in DOMAIN h |-> h[p]], NEW n \in Nat, DOMAIN h \subseteq 1 .. n
  PROVE  Top(h) \in Nat /\ \A p \in DOMAIN h : p <= Top(h)
<1>1. CASE h = << >>
  BY <1>1 DEF Top
<1>2. CASE h # << >>
  <2>1. DOMAIN h # {}
    <3>1. [p \in {} |-> h[p]] = << >>
      OBVIOUS
    <3> QED BY <1>2, <3>1
  <2>2. DOMAIN h \in SUBSET (0 .. n)
    OBVIOUS
  <2>3. \E p \in DOMAIN h : \A q \in DOMAIN h : q <= p
    BY <2>1, <2>2, GreatestNumber
  <2>4. Top(h) = CHOOSE p \in DOMAIN h : \A q \in DOMAIN h : q <= p
    BY <1>2 DEF Top
  <2>5. Top(h) \in DOMAIN h /\ \A q \in DOMAIN h : q <= Top(h)
    BY <2>3, <2>4
  <2>6. DOMAIN h \subseteq Nat
    OBVIOUS
  <2> QED BY <2>5, <2>6
<1> QED BY <1>1, <1>2

LEMMA TableIsReferred ==
  ASSUME NEW y, NEW l \in DOMAIN y, NEW k \in Kinds[l]
  PROVE  y[l].tables[k] \in TablesOf(y)
BY DEF TablesOf

LEMMA ReferredTable ==
  ASSUME NEW y, NEW p \in TablesOf(y)
  PROVE  \E l \in DOMAIN y : \E k \in Kinds[l] : p = y[l].tables[k]
<1>1. PICK T \in {{y[l].tables[k] : k \in Kinds[l]} : l \in DOMAIN y} : p \in T
  BY DEF TablesOf
<1>2. PICK l \in DOMAIN y : T = {y[l].tables[k] : k \in Kinds[l]}
  BY <1>1
<1> QED BY <1>1, <1>2

-----------------------------------------------------------------------------
(* The inductive invariant.                                                 *)

(* a layer: an allocator, and a table of its own for each kind *)
LayerOK(y, l) ==
  /\ y = [nextId |-> y.nextId, tables |-> y.tables]
  /\ y.nextId \in Nat
  /\ DOMAIN y.tables = Kinds[l]
  /\ \A j, k \in Kinds[l] : y.tables[j] = y.tables[k] => j = k

(* the layers behind handle o *)
ObjectOK(o, y) ==
  /\ o \in Board \cup Snap \cup Work
  /\ o \in Board => DOMAIN y = Layer
  /\ o \in Work => DOMAIN y = {"connectivity"}
  /\ o \in Snap => \E l \in Layer : DOMAIN y = {l}
  /\ \A l \in DOMAIN y : l \in Layer /\ LayerOK(y[l], l)

ObjOK == \A o \in DOMAIN obj : ObjectOK(o, obj[o])

HeapOK ==
  /\ heap = [p \in DOMAIN heap |-> heap[p]]
  /\ DOMAIN heap = Referenced(obj)
  /\ \E n \in Nat : DOMAIN heap \subseteq 1 .. n
  /\ \A p \in DOMAIN heap : Sound(heap[p])

(* a name kept points into a table of a snapshot that is not freed *)
NamesOK ==
  \A n \in borrowed :
    /\ n.owner \in Snap \cap DOMAIN obj
    /\ n.addr \in TablesOf(obj[n.owner])
    /\ n.slot \in DOMAIN heap[n.addr].slots
    /\ heap[n.addr].slots[n.slot].value = n.text

BufferOK ==
  \A f \in buffer :
    f.status = OK /\ \A k \in Kind : f.content[k] \in Seq(Entity)

CallOK ==
  /\ DOMAIN lists \subseteq List
  /\ errors \in [Thread -> Status]
  /\ answer \in Status

IInv == ObjOK /\ HeapOK /\ NamesOK /\ BufferOK /\ CallOK

(* the step CallsContained asks every call to be *)
Contained ==
  LET kept == DOMAIN obj \cap DOMAIN obj' IN
  /\ \A o \in kept \ Work : Content(o)' = Content(o)
  /\ answer' = OK => errors' = errors
  /\ answer' # OK =>
       /\ \E t \in Thread : errors' = [errors EXCEPT ![t] = answer']
       /\ DOMAIN obj' = DOMAIN obj /\ UNCHANGED <<lists, buffer, borrowed>>
       /\ \A o \in kept : \A k \in KindsOf(o) : Known(o, k)' = Known(o, k)

(* a call that neither moves what is behind o nor writes to it *)
LeavesAlone(o) ==
  obj'[o] = obj[o] /\ \A p \in TablesOf(obj[o]) : heap'[p] = heap[p]

(* where the arena of one kind of an object stands *)
LEMMA ArenaBehind ==
  IInv => \A o \in DOMAIN obj : \A l \in DOMAIN obj[o] : \A k \in Kinds[l] :
            /\ l \in Layer /\ k \in Kind /\ LayerOf(k) = l
            /\ k \in KindsOf(o)
            /\ obj[o][l].tables[k] \in TablesOf(obj[o])
            /\ obj[o][l].tables[k] \in DOMAIN heap
            /\ ArenaOf(o, k) = heap[obj[o][l].tables[k]]
            /\ Sound(ArenaOf(o, k))
<1> SUFFICES ASSUME IInv, NEW o \in DOMAIN obj, NEW l \in DOMAIN obj[o], NEW k \in Kinds[l]
             PROVE  /\ l \in Layer /\ k \in Kind /\ LayerOf(k) = l
                    /\ k \in KindsOf(o)
                    /\ obj[o][l].tables[k] \in TablesOf(obj[o])
                    /\ obj[o][l].tables[k] \in DOMAIN heap
                    /\ ArenaOf(o, k) = heap[obj[o][l].tables[k]]
                    /\ Sound(ArenaOf(o, k))
  OBVIOUS
<1>1. l \in Layer
  BY DEF IInv, ObjOK, ObjectOK
<1>2. k \in Kind /\ LayerOf(k) = l
  BY <1>1, KindOfOneLayer
<1>3. k \in KindsOf(o)
  BY DEF KindsOf
<1>4. obj[o][l].tables[k] \in TablesOf(obj[o])
  BY TableIsReferred
<1>5. obj[o][l].tables[k] \in DOMAIN heap
  BY <1>4 DEF IInv, HeapOK, Referenced
<1>6. ArenaOf(o, k) = heap[obj[o][l].tables[k]]
  BY <1>2 DEF ArenaOf
<1>7. Sound(ArenaOf(o, k))
  BY <1>5, <1>6 DEF IInv, HeapOK
<1> QED BY <1>1, <1>2, <1>3, <1>4, <1>5, <1>6, <1>7

LEMMA KindBehind ==
  ASSUME NEW o, NEW k \in KindsOf(o)
  PROVE  \E l \in DOMAIN obj[o] : k \in Kinds[l]
BY DEF KindsOf

(* What is left alone shows what it showed.                                 *)
LEMMA LeftAloneShowsTheSame ==
  IInv => \A o \in DOMAIN obj :
            LeavesAlone(o) =>
              /\ Content(o)' = Content(o)
              /\ \A k \in KindsOf(o) : Known(o, k)' = Known(o, k)
<1> SUFFICES ASSUME IInv, NEW o \in DOMAIN obj, LeavesAlone(o)
             PROVE  /\ Content(o)' = Content(o)
                    /\ \A k \in KindsOf(o) : Known(o, k)' = Known(o, k)
  OBVIOUS
<1>1. KindsOf(o)' = KindsOf(o)
  BY DEF KindsOf, LeavesAlone
<1>2. ASSUME NEW k \in KindsOf(o) PROVE ArenaOf(o, k)' = ArenaOf(o, k)
  <2>1. PICK l \in DOMAIN obj[o] : k \in Kinds[l]
    BY KindBehind
  <2>2. /\ obj[o][l].tables[k] \in TablesOf(obj[o])
        /\ ArenaOf(o, k) = heap[obj[o][l].tables[k]]
        /\ LayerOf(k) = l
    BY <2>1, ArenaBehind
  <2>3. ArenaOf(o, k)' = heap'[obj'[o][LayerOf(k)].tables[k]]
    BY DEF ArenaOf
  <2> QED BY <2>2, <2>3 DEF LeavesAlone
<1>3. Content(o)' = Content(o)
  BY <1>1, <1>2 DEF Content
<1>4. ASSUME NEW k \in KindsOf(o) PROVE Known(o, k)' = Known(o, k)
  BY <1>2 DEF Known
<1> QED BY <1>3, <1>4

LEMMA ContainedStep ==
  ASSUME IInv,
         \A o \in DOMAIN obj \cap DOMAIN obj' : LeavesAlone(o),
         answer' = OK => errors' = errors,
         answer' # OK => /\ \E t \in Thread : errors' = [errors EXCEPT ![t] = answer']
                         /\ DOMAIN obj' = DOMAIN obj
                         /\ UNCHANGED <<lists, buffer, borrowed>>
  PROVE  Contained
<1>1. \A o \in DOMAIN obj \cap DOMAIN obj' :
        Content(o)' = Content(o) /\ \A k \in KindsOf(o) : Known(o, k)' = Known(o, k)
  BY LeftAloneShowsTheSame
<1> QED BY <1>1 DEF Contained

(* A name still reads the same when its snapshot is left alone.             *)
LEMMA NamesKept ==
  IInv /\ borrowed' \subseteq borrowed
       /\ (\A n \in borrowed' : n.owner \in DOMAIN obj' /\ LeavesAlone(n.owner))
    => NamesOK'
<1> SUFFICES ASSUME IInv, borrowed' \subseteq borrowed,
                    \A n \in borrowed' : n.owner \in DOMAIN obj' /\ LeavesAlone(n.owner),
                    NEW n \in borrowed'
             PROVE  /\ n.owner \in Snap \cap DOMAIN obj'
                    /\ n.addr \in TablesOf(obj'[n.owner])
                    /\ n.slot \in DOMAIN heap'[n.addr].slots
                    /\ heap'[n.addr].slots[n.slot].value = n.text
  BY DEF NamesOK
<1>1. /\ n.owner \in Snap \cap DOMAIN obj
      /\ n.addr \in TablesOf(obj[n.owner])
      /\ n.slot \in DOMAIN heap[n.addr].slots
      /\ heap[n.addr].slots[n.slot].value = n.text
  BY DEF IInv, NamesOK
<1>2. n.owner \in DOMAIN obj' /\ obj'[n.owner] = obj[n.owner] /\ heap'[n.addr] = heap[n.addr]
  BY <1>1 DEF LeavesAlone
<1> QED BY <1>1, <1>2

-----------------------------------------------------------------------------
(* Calls that change no object.                                             *)

LEMMA StatusNames ==
  /\ {OK, INVALID, NOT_FOUND, CORRUPT, UNSUPPORTED, IO, UNKNOWN} = Status
  /\ INVALID # OK /\ NOT_FOUND # OK /\ UNKNOWN # OK
BY DEF Status, OK, INVALID, NOT_FOUND, CORRUPT, UNSUPPORTED, IO, UNKNOWN

LEMMA ReplyTyped ==
  ASSUME IInv, NEW t \in Thread, NEW status \in Status, Reply(t, status)
  PROVE  /\ answer' = status /\ answer' \in Status /\ errors' \in [Thread -> Status]
         /\ answer' = OK => errors' = errors
         /\ answer' # OK => errors' = [errors EXCEPT ![t] = answer']
<1>1. answer' = status /\ errors' = IF status = OK THEN errors ELSE [errors EXCEPT ![t] = status]
  BY DEF Reply
<1>2. errors \in [Thread -> Status]
  BY DEF IInv, CallOK
<1> QED BY <1>1, <1>2

(* A call that leaves every handle, every table and every name as they are. *)
LEMMA NothingMoves ==
  ASSUME IInv, UNCHANGED <<obj, heap, borrowed>>
  PROVE  /\ ObjOK' /\ HeapOK' /\ NamesOK'
         /\ \A o \in DOMAIN obj \cap DOMAIN obj' : LeavesAlone(o)
<1>1. ObjOK'
  BY DEF IInv, ObjOK
<1>2. HeapOK'
  BY DEF IInv, HeapOK, Referenced
<1>3. NamesOK'
  BY DEF IInv, NamesOK
<1> QED BY <1>1, <1>2, <1>3 DEF LeavesAlone

LEMMA AnswerSound ==
  ASSUME IInv, NEW t \in Thread, NEW status \in Status, Answer(t, status)
  PROVE  IInv' /\ Contained
<1>1. Reply(t, status) /\ UNCHANGED <<obj, heap, lists, buffer, borrowed>>
  BY DEF Answer, state
<1>2. /\ answer' \in Status /\ errors' \in [Thread -> Status]
      /\ answer' = OK => errors' = errors
      /\ answer' # OK => errors' = [errors EXCEPT ![t] = answer']
  BY <1>1, ReplyTyped
<1>3. /\ ObjOK' /\ HeapOK' /\ NamesOK'
      /\ \A o \in DOMAIN obj \cap DOMAIN obj' : LeavesAlone(o)
  BY <1>1, NothingMoves
<1>4. BufferOK' /\ CallOK'
  BY <1>1, <1>2 DEF IInv, BufferOK, CallOK
<1>5. Contained
  BY <1>1, <1>2, <1>3, ContainedStep
<1> QED BY <1>3, <1>4, <1>5 DEF IInv

LEMMA FoundTyped == \A h : Found(h) \in Status
BY StatusNames DEF Found

(* A snapshot read through layer l is live and has that layer. *)
LEMMA SnapshotRead ==
  ASSUME IInv, NEW l \in Layer, NEW k \in Kinds[l], NEW s \in Snapshots(k)
  PROVE  s \in Snap \cap DOMAIN obj /\ l \in DOMAIN obj[s] /\ LayerOf(k) = l
BY KindOfOneLayer DEF Snapshots

LEMMA LookupSound ==
  ASSUME IInv, NEW t \in Thread, NEW s, NEW k, Lookup(t, s, k)
  PROVE  IInv' /\ Contained
<1>1. PICK status \in Status : Answer(t, status)
  <2>1. CASE NullArgument(t)
    BY <2>1, StatusNames DEF NullArgument
  <2>2. CASE Answer(t, OK)
    BY <2>2, StatusNames
  <2>3. CASE \E i \in Positions : Answer(t, Found(HandleAt(ArenaOf(s, k), i)))
    BY <2>3, FoundTyped
  <2>4. CASE \E id \in Ids : Answer(t, Found(Find(ArenaOf(s, k), id)))
    BY <2>4, FoundTyped
  <2> QED BY <2>1, <2>2, <2>3, <2>4 DEF Lookup
<1> QED BY <1>1, AnswerSound

LEMMA ReadFieldSound ==
  ASSUME IInv, NEW t \in Thread, NEW s, NEW k, ReadField(t, s, k)
  PROVE  IInv' /\ Contained
<1>1. PICK status \in Status : Answer(t, status)
  BY StatusNames DEF ReadField
<1> QED BY <1>1, AnswerSound

(* The name a getter hands out is that of a slot in a table of its snapshot. *)
LEMMA ReadNameSound ==
  ASSUME IInv, NEW t \in Thread, NEW l \in Layer, NEW k \in Kinds[l], NEW s \in Snapshots(k),
         ReadName(t, s, k)
  PROVE  IInv' /\ Contained
<1>1. s \in Snap \cap DOMAIN obj /\ l \in DOMAIN obj[s] /\ LayerOf(k) = l
  BY SnapshotRead
<1>2. PICK h \in Handles :
        \/ /\ ~Located(ArenaOf(s, k), h)
           /\ Answer(t, NOT_FOUND)
        \/ /\ Located(ArenaOf(s, k), h)
           /\ borrowed' = {[owner |-> s, kind |-> k, slot |-> h.index,
                            addr  |-> obj[s][LayerOf(k)].tables[k],
                            text  |-> TryGet(ArenaOf(s, k), h)]}
           /\ Reply(t, OK)
           /\ UNCHANGED <<obj, heap, lists, buffer>>
  BY DEF ReadName
<1>3. CASE Answer(t, NOT_FOUND)
  BY <1>3, AnswerSound, StatusNames
<1>4. CASE /\ Located(ArenaOf(s, k), h)
           /\ borrowed' = {[owner |-> s, kind |-> k, slot |-> h.index,
                            addr  |-> obj[s][LayerOf(k)].tables[k],
                            text  |-> TryGet(ArenaOf(s, k), h)]}
           /\ Reply(t, OK)
           /\ UNCHANGED <<obj, heap, lists, buffer>>
  <2> DEFINE p == obj[s][l].tables[k]
             n == [owner |-> s, kind |-> k, slot |-> h.index, addr |-> p,
                   text |-> TryGet(ArenaOf(s, k), h)]
  <2>1. borrowed' = {n} /\ UNCHANGED <<obj, heap, lists, buffer>> /\ Located(ArenaOf(s, k), h)
    BY <1>1, <1>4
  <2>2. p \in TablesOf(obj[s]) /\ ArenaOf(s, k) = heap[p]
    BY <1>1, ArenaBehind
  <2>3. /\ n.owner = s /\ n.addr = p /\ n.slot = h.index
        /\ n.text = TryGet(ArenaOf(s, k), h)
    OBVIOUS
  <2>4. h.index \in DOMAIN heap[p].slots /\ n.text = heap[p].slots[h.index].value
    BY <2>1, <2>2, <2>3 DEF Located, TryGet
  <2> HIDE DEF n, p
  <2>5. NamesOK'
    <3> SUFFICES ASSUME NEW m \in borrowed'
                 PROVE  /\ m.owner \in Snap \cap DOMAIN obj'
                        /\ m.addr \in TablesOf(obj'[m.owner])
                        /\ m.slot \in DOMAIN heap'[m.addr].slots
                        /\ heap'[m.addr].slots[m.slot].value = m.text
      BY DEF NamesOK
    <3>1. m = n /\ obj' = obj /\ heap' = heap
      BY <2>1
    <3> QED BY <1>1, <2>2, <2>3, <2>4, <3>1
  <2>6. ObjOK' /\ HeapOK'
    BY <2>1 DEF IInv, ObjOK, HeapOK, Referenced
  <2>7. answer' = OK /\ errors' = errors /\ errors' \in [Thread -> Status]
    BY <1>4, StatusNames DEF Reply, IInv, CallOK
  <2>8. BufferOK' /\ CallOK'
    BY <2>1, <2>7, StatusNames DEF IInv, BufferOK, CallOK
  <2>9. Contained
    BY <2>1, <2>7, ContainedStep DEF LeavesAlone
  <2> QED BY <2>5, <2>6, <2>8, <2>9 DEF IInv
<1> QED BY <1>2, <1>3, <1>4

LEMMA DiagnosticsSound ==
  ASSUME IInv, NEW t \in Thread, NEW d \in List, DiagnosticsCalls(t, d)
  PROVE  IInv' /\ Contained
<1>1. CASE Validate(t, d)
  <2>1. UNCHANGED <<obj, heap, buffer, borrowed>> /\ answer' = OK /\ errors' = errors
    BY <1>1 DEF Validate, Reply
  <2>2. DOMAIN lists' = DOMAIN lists \cup {d}
    BY <1>1 DEF Validate, Put
  <2>3. BufferOK' /\ CallOK'
    BY <2>1, <2>2, StatusNames DEF IInv, BufferOK, CallOK
  <2>4. /\ ObjOK' /\ HeapOK' /\ NamesOK'
        /\ \A o \in DOMAIN obj \cap DOMAIN obj' : LeavesAlone(o)
    BY <2>1, NothingMoves
  <2>5. Contained
    BY <2>1, <2>4, ContainedStep
  <2> QED BY <2>3, <2>4, <2>5 DEF IInv
<1>2. CASE DiagnosticsAt(t, d)
  <2>1. PICK status \in Status : Answer(t, status)
    BY <1>2, StatusNames DEF DiagnosticsAt
  <2> QED BY <2>1, AnswerSound
<1>3. CASE DiagnosticsFree(d)
  <2>1. UNCHANGED <<obj, heap, buffer, borrowed>> /\ answer' = OK /\ errors' = errors
    BY <1>3 DEF DiagnosticsFree
  <2>2. DOMAIN lists' \subseteq DOMAIN lists
    BY <1>3 DEF DiagnosticsFree
  <2>3. BufferOK' /\ CallOK'
    BY <2>1, <2>2, StatusNames DEF IInv, BufferOK, CallOK
  <2>4. /\ ObjOK' /\ HeapOK' /\ NamesOK'
        /\ \A o \in DOMAIN obj \cap DOMAIN obj' : LeavesAlone(o)
    BY <2>1, NothingMoves
  <2>5. Contained
    BY <2>1, <2>4, ContainedStep
  <2> QED BY <2>3, <2>4, <2>5 DEF IInv
<1> QED BY <1>1, <1>2, <1>3 DEF DiagnosticsCalls

LEMMA ReadCallSound ==
  ASSUME IInv, NEW t \in Thread, ReadCall(t)
  PROVE  IInv' /\ Contained
<1>1. ASSUME NEW s \in Snapshots("net"), NetCalls(t, s) \/ PinCalls(t, s)
      PROVE  IInv' /\ Contained
  <2>1. "connectivity" \in Layer /\ "net" \in Kinds["connectivity"]
    BY KindNames
  <2>2. CASE ReadName(t, s, "net")
    BY <2>1, <2>2, ReadNameSound
  <2>3. CASE Lookup(t, s, "net") \/ Lookup(t, s, "pin")
    BY <2>3, LookupSound
  <2>4. CASE ReadField(t, s, "pin")
    BY <2>4, ReadFieldSound
  <2> QED BY <1>1, <2>2, <2>3, <2>4 DEF NetCalls, PinCalls
<1>2. ASSUME NEW s \in Snapshots("via"), ViaCalls(t, s)
      PROVE  IInv' /\ Contained
  BY <1>2, LookupSound, ReadFieldSound DEF ViaCalls
<1>3. ASSUME NEW s \in Snapshots("layer"), MaterialCalls(t, s) \/ LayerCalls(t, s)
      PROVE  IInv' /\ Contained
  <2>1. /\ "stackup" \in Layer /\ "layer" \in Kinds["stackup"] /\ "material" \in Kinds["stackup"]
    BY KindNames
  <2>2. s \in Snapshots("material")
    BY <2>1, KindOfOneLayer DEF Snapshots
  <2>3. CASE ReadName(t, s, "material") \/ ReadName(t, s, "layer")
    BY <2>1, <2>2, <2>3, ReadNameSound
  <2>4. CASE Lookup(t, s, "material") \/ Lookup(t, s, "layer")
    BY <2>4, LookupSound
  <2>5. CASE ReadField(t, s, "material") \/ ReadField(t, s, "layer")
    BY <2>5, ReadFieldSound
  <2> QED BY <1>3, <2>3, <2>4, <2>5 DEF MaterialCalls, LayerCalls
<1>4. ASSUME NEW s \in Snap, NEW d \in List,
             \/ GeometryDiagnostics(t, s, d)
             \/ ConnectivityDiagnostics(t, s, d)
             \/ StackupDiagnostics(t, s, d)
      PROVE  IInv' /\ Contained
  BY <1>4, DiagnosticsSound
     DEF GeometryDiagnostics, ConnectivityDiagnostics, StackupDiagnostics
<1> QED BY <1>1, <1>2, <1>3, <1>4 DEF ReadCall

-----------------------------------------------------------------------------
(* Buffers.                                                                 *)

LEMMA ContentTyped ==
  IInv => \A b \in Board \cap DOMAIN obj : \A k \in Kind : Content(b)[k] \in Seq(Entity)
<1> SUFFICES ASSUME IInv, NEW b \in Board \cap DOMAIN obj, NEW k \in Kind
             PROVE  Content(b)[k] \in Seq(Entity)
  OBVIOUS
<1>1. DOMAIN obj[b] = Layer
  BY DEF IInv, ObjOK, ObjectOK
<1>2. PICK l \in DOMAIN obj[b] : k \in Kinds[l]
  BY <1>1, LayerOfKind
<1>3. k \in KindsOf(b) /\ Sound(ArenaOf(b, k))
  BY <1>2, ArenaBehind
<1> DEFINE e == Entries(ArenaOf(b, k))
           f == [i \in DOMAIN e |-> [id |-> e[i].id, value |-> e[i].value]]
<1>4. Content(b)[k] = f
  BY <1>3 DEF Content
<1>5. e \in Seq(Slot) /\ \A i \in DOMAIN e : e[i].value \in Value /\ e[i].id \in Nat
  BY <1>3, EntriesTyped DEF Sound
<1> HIDE DEF e
<1>6. \A i \in DOMAIN e : [id |-> e[i].id, value |-> e[i].value] \in Entity
  BY <1>5 DEF Entity
<1>7. DOMAIN e = 1 .. Len(e) /\ Len(e) \in Nat
  BY <1>5
<1>8. f \in Seq(Entity)
  BY <1>6, <1>7
<1> QED BY <1>4, <1>8

LEMMA BufferCallSound ==
  ASSUME IInv, NEW t \in Thread,
         (\E b \in Board : SaveBytes(t, b) \/ FormatVersion(t, b)) \/ BytesFree
  PROVE  IInv' /\ Contained
<1>1. ASSUME NEW b \in Board, SaveBytes(t, b) PROVE IInv' /\ Contained
  <2>1. /\ b \in Board \cap DOMAIN obj
        /\ buffer' = {[status |-> OK, content |-> Content(b)]}
        /\ UNCHANGED <<obj, heap, lists, borrowed>>
    BY <1>1 DEF SaveBytes
  <2>2. answer' = OK /\ errors' = errors
    BY <1>1 DEF SaveBytes, Reply
  <2>3. \A k \in Kind : Content(b)[k] \in Seq(Entity)
    BY <2>1, ContentTyped
  <2>4. BufferOK'
    BY <2>1, <2>3 DEF BufferOK
  <2>5. CallOK'
    BY <2>1, <2>2, StatusNames DEF IInv, CallOK
  <2>6. /\ ObjOK' /\ HeapOK' /\ NamesOK'
        /\ \A o \in DOMAIN obj \cap DOMAIN obj' : LeavesAlone(o)
    BY <2>1, NothingMoves
  <2>7. Contained
    BY <2>1, <2>2, <2>6, ContainedStep
  <2> QED BY <2>4, <2>5, <2>6, <2>7 DEF IInv
<1>2. ASSUME NEW b \in Board, FormatVersion(t, b) PROVE IInv' /\ Contained
  BY <1>2, AnswerSound, StatusNames DEF FormatVersion
<1>3. CASE BytesFree
  <2>1. /\ buffer' = {} /\ answer' = OK
        /\ UNCHANGED <<obj, heap, lists, borrowed, errors>>
    BY <1>3 DEF BytesFree
  <2>2. BufferOK' /\ CallOK'
    BY <2>1, StatusNames DEF IInv, BufferOK, CallOK
  <2>3. /\ ObjOK' /\ HeapOK' /\ NamesOK'
        /\ \A o \in DOMAIN obj \cap DOMAIN obj' : LeavesAlone(o)
    BY <2>1, NothingMoves
  <2>4. Contained
    BY <2>1, <2>3, ContainedStep
  <2> QED BY <2>2, <2>3, <2>4 DEF IInv
<1> QED BY <1>1, <1>2, <1>3

-----------------------------------------------------------------------------
(* Calls that make or free an object.                                       *)

LEMMA ReferredBySome ==
  ASSUME NEW ob, NEW p \in Referenced(ob)
  PROVE  \E o \in DOMAIN ob : p \in TablesOf(ob[o])
BY DEF Referenced

LEMMA Added ==
  ASSUME IInv, NEW o, o \notin DOMAIN obj, NEW y, ObjectOK(o, y), obj' = Put(obj, o, y)
  PROVE  /\ DOMAIN obj' = DOMAIN obj \cup {o}
         /\ obj'[o] = y
         /\ \A x \in DOMAIN obj : obj'[x] = obj[x]
         /\ ObjOK'
         /\ Referenced(obj') = Referenced(obj) \cup TablesOf(y)
<1>1. /\ DOMAIN obj' = DOMAIN obj \cup {o}
      /\ obj'[o] = y
      /\ \A x \in DOMAIN obj : obj'[x] = obj[x]
  BY DEF Put
<1>2. ObjOK'
  BY <1>1 DEF IInv, ObjOK
<1>3. Referenced(obj') = Referenced(obj) \cup TablesOf(y)
  <2>1. ASSUME NEW p \in Referenced(obj') PROVE p \in Referenced(obj) \cup TablesOf(y)
    <3>1. PICK x \in DOMAIN obj' : p \in TablesOf(obj'[x])
      BY <2>1, ReferredBySome
    <3> QED BY <1>1, <3>1 DEF Referenced
  <2>2. ASSUME NEW p \in Referenced(obj) PROVE p \in Referenced(obj')
    <3>1. PICK x \in DOMAIN obj : p \in TablesOf(obj[x])
      BY <2>2, ReferredBySome
    <3>2. x \in DOMAIN obj' /\ p \in TablesOf(obj'[x])
      BY <1>1, <3>1
    <3> QED BY <3>2 DEF Referenced
  <2>3. ASSUME NEW p \in TablesOf(y) PROVE p \in Referenced(obj')
    BY <1>1, <2>3 DEF Referenced
  <2> QED BY <2>1, <2>2, <2>3
<1> QED BY <1>1, <1>2, <1>3

(* A new handle onto tables that exist, or onto new ones besides.           *)
LEMMA AddedSound ==
  ASSUME IInv, NEW o, o \notin DOMAIN obj, NEW y, ObjectOK(o, y), obj' = Put(obj, o, y),
         \A p \in DOMAIN heap : p \in DOMAIN heap' /\ heap'[p] = heap[p],
         HeapOK', answer' = OK, UNCHANGED <<lists, buffer, borrowed, errors>>
  PROVE  IInv' /\ Contained
<1>1. /\ DOMAIN obj' = DOMAIN obj \cup {o}
      /\ \A x \in DOMAIN obj : obj'[x] = obj[x]
      /\ ObjOK'
  BY Added
<1>2. ASSUME NEW x \in DOMAIN obj PROVE LeavesAlone(x)
  <2>1. TablesOf(obj[x]) \subseteq DOMAIN heap
    BY DEF IInv, HeapOK, Referenced
  <2> QED BY <1>1, <2>1 DEF LeavesAlone
<1>3. NamesOK'
  <2>1. \A n \in borrowed' : n.owner \in DOMAIN obj' /\ LeavesAlone(n.owner)
    BY <1>1, <1>2 DEF IInv, NamesOK
  <2> QED BY <2>1, NamesKept
<1>4. BufferOK' /\ CallOK'
  BY StatusNames DEF IInv, BufferOK, CallOK
<1>5. Contained
  BY <1>2, ContainedStep
<1> QED BY <1>1, <1>3, <1>4, <1>5 DEF IInv

(* A handle that shares the tables of others.                               *)
LEMMA SharingSound ==
  ASSUME IInv, NEW o, o \notin DOMAIN obj, NEW y, ObjectOK(o, y), obj' = Put(obj, o, y),
         TablesOf(y) \subseteq Referenced(obj), NEW t \in Thread, Reply(t, OK),
         UNCHANGED <<heap, lists, buffer, borrowed>>
  PROVE  IInv' /\ Contained
<1>1. Referenced(obj') = Referenced(obj) \cup TablesOf(y)
  BY Added
<1>2. HeapOK'
  BY <1>1 DEF IInv, HeapOK
<1>3. answer' = OK /\ errors' = errors
  BY DEF Reply
<1> QED BY <1>2, <1>3, AddedSound

LEMMA TablesReferred ==
  ASSUME NEW o \in DOMAIN obj
  PROVE  TablesOf(obj[o]) \subseteq Referenced(obj)
BY DEF Referenced

LEMMA BoardLayerSound ==
  ASSUME IInv, NEW t \in Thread, NEW b \in Board, NEW l \in Layer, NEW s \in Snap,
         BoardLayer(t, b, l, s)
  PROVE  IInv' /\ Contained
<1> DEFINE y == [m \in {l} |-> obj[b][m]]
<1>1. /\ b \in Board \cap DOMAIN obj /\ s \notin DOMAIN obj
      /\ obj' = Put(obj, s, y) /\ Reply(t, OK)
      /\ UNCHANGED <<heap, lists, buffer, borrowed>>
  BY DEF BoardLayer
<1>2. DOMAIN obj[b] = Layer /\ LayerOK(obj[b][l], l)
  BY <1>1 DEF IInv, ObjOK, ObjectOK
<1>3. DOMAIN y = {l} /\ y[l] = obj[b][l]
  OBVIOUS
<1> HIDE DEF y
<1>4. ObjectOK(s, y)
  <2>1. s \notin Board /\ s \notin Work
    BY HandlesAssumption
  <2> QED BY <1>2, <1>3, <2>1 DEF ObjectOK
<1>5. TablesOf(y) \subseteq Referenced(obj)
  <2>1. ASSUME NEW p \in TablesOf(y) PROVE p \in Referenced(obj)
    <3>1. PICK m \in DOMAIN y : \E k \in Kinds[m] : p = y[m].tables[k]
      BY ReferredTable
    <3>2. p \in TablesOf(obj[b])
      BY <1>2, <1>3, <3>1, TableIsReferred
    <3> QED BY <1>1, <3>2, TablesReferred
  <2> QED BY <2>1
<1> QED BY <1>1, <1>4, <1>5, SharingSound

LEMMA WithConnectivitySound ==
  ASSUME IInv, NEW t \in Thread, NEW b \in Board, NEW s \in Snap, NEW c \in Board,
         WithConnectivity(t, b, s, c)
  PROVE  IInv' /\ Contained
<1> DEFINE y == [obj[b] EXCEPT !.connectivity = obj[s].connectivity]
<1>1. /\ b \in Board \cap DOMAIN obj /\ s \in Snapshots("net") /\ c \notin DOMAIN obj
      /\ obj' = Put(obj, c, y) /\ Reply(t, OK)
      /\ UNCHANGED <<heap, lists, buffer, borrowed>>
  BY DEF WithConnectivity
<1>2. "connectivity" \in Layer /\ "net" \in Kinds["connectivity"]
  BY KindNames
<1>3. s \in DOMAIN obj /\ "connectivity" \in DOMAIN obj[s]
  BY <1>1, <1>2, SnapshotRead
<1>4. DOMAIN obj[b] = Layer
  BY <1>1 DEF IInv, ObjOK, ObjectOK
<1>5. /\ DOMAIN y = Layer
      /\ y["connectivity"] = obj[s]["connectivity"]
      /\ \A l \in Layer \ {"connectivity"} : y[l] = obj[b][l]
  BY <1>2, <1>4
<1> HIDE DEF y
<1>6. ObjectOK(c, y)
  <2>1. \A l \in Layer : LayerOK(y[l], l)
    BY <1>1, <1>3, <1>4, <1>5 DEF IInv, ObjOK, ObjectOK
  <2>2. c \notin Snap /\ c \notin Work
    BY HandlesAssumption
  <2> QED BY <1>5, <2>1, <2>2 DEF ObjectOK
<1>7. TablesOf(y) \subseteq Referenced(obj)
  <2>1. ASSUME NEW p \in TablesOf(y) PROVE p \in Referenced(obj)
    <3>1. PICK m \in DOMAIN y : \E k \in Kinds[m] : p = y[m].tables[k]
      BY ReferredTable
    <3>2. CASE m = "connectivity"
      <4>1. p \in TablesOf(obj[s])
        BY <1>3, <1>5, <3>1, <3>2, TableIsReferred
      <4> QED BY <1>3, <4>1, TablesReferred
    <3>3. CASE m # "connectivity"
      <4>1. p \in TablesOf(obj[b])
        BY <1>4, <1>5, <3>1, <3>3, TableIsReferred
      <4> QED BY <1>1, <4>1, TablesReferred
    <3> QED BY <3>2, <3>3
  <2> QED BY <2>1
<1> QED BY <1>1, <1>6, <1>7, SharingSound

LEMMA FromSnapshotSound ==
  ASSUME IInv, NEW t \in Thread, NEW w \in Work, NEW s \in Snapshots("net"),
         WorkspaceFromSnapshot(t, s, w)
  PROVE  IInv' /\ Contained
<1>1. /\ w \notin DOMAIN obj /\ obj' = Put(obj, w, obj[s]) /\ Reply(t, OK)
      /\ UNCHANGED <<heap, lists, buffer, borrowed>>
  BY DEF WorkspaceFromSnapshot
<1>2. s \in Snap /\ s \in DOMAIN obj /\ "connectivity" \in DOMAIN obj[s]
  BY KindNames, SnapshotRead
<1>3. ObjectOK(s, obj[s])
  BY <1>2 DEF IInv, ObjOK
<1>4. DOMAIN obj[s] = {"connectivity"}
  <2>1. PICK l \in Layer : DOMAIN obj[s] = {l}
    BY <1>2, <1>3 DEF ObjectOK
  <2>2. l = "connectivity"
    BY <1>2, <2>1
  <2> QED BY <2>1, <2>2
<1>5. ObjectOK(w, obj[s])
  <2>1. w \notin Snap /\ w \notin Board
    BY HandlesAssumption
  <2> QED BY <1>3, <1>4, <2>1 DEF ObjectOK
<1>6. TablesOf(obj[s]) \subseteq Referenced(obj)
  BY <1>2, TablesReferred
<1> QED BY <1>1, <1>5, <1>6, SharingSound

LEMMA CommitSound ==
  ASSUME IInv, NEW t \in Thread, NEW w \in Work, NEW s \in Snap, WorkspaceCommit(t, w, s)
  PROVE  IInv' /\ Contained
<1>1. /\ w \in DOMAIN obj /\ s \notin DOMAIN obj
      /\ obj' = Put(obj, s, obj[w]) /\ Reply(t, OK)
      /\ UNCHANGED <<heap, lists, buffer, borrowed>>
  BY DEF WorkspaceCommit
<1>2. ObjectOK(w, obj[w])
  BY <1>1 DEF IInv, ObjOK
<1>3. DOMAIN obj[w] = {"connectivity"} /\ "connectivity" \in Layer
  BY <1>2, KindNames DEF ObjectOK
<1>4. ObjectOK(s, obj[w])
  <2>1. s \notin Work /\ s \notin Board
    BY HandlesAssumption
  <2> QED BY <1>2, <1>3, <2>1 DEF ObjectOK
<1>5. TablesOf(obj[w]) \subseteq Referenced(obj)
  BY <1>1, TablesReferred
<1> QED BY <1>1, <1>4, <1>5, SharingSound

(* in memory h, the tables of the layers y are the arenas                   *)
Hold(y, h, arenas) ==
  \A l \in DOMAIN y : \A k \in Kinds[l] : h[y[l].tables[k]] = arenas[k]

(* Tables of their own for the layers ls of a new handle.                   *)
LEMMA FreshTables ==
  ASSUME IInv, NEW ls, ls \subseteq Layer, NEW arenas, \A k \in Kind : Sound(arenas[k]),
         NEW y, DOMAIN y = ls, NEW next, \A l \in ls : next[l] \in Nat,
         \A l \in ls : y[l] = Fresh(l, next[l]),
         NEW o, o \notin DOMAIN obj, obj' = Put(obj, o, y), ObjectOK(o, y),
         heap' = Allocated(ls, arenas)
  PROVE  /\ \A p \in DOMAIN heap : p \in DOMAIN heap' /\ heap'[p] = heap[p]
         /\ HeapOK'
         /\ Hold(y, heap', arenas)
<1> DEFINE at(k) == Top(heap) + Rank[k]
           kinds == UNION {Kinds[l] : l \in ls}
           new == {at(k) : k \in kinds}
<1>1. kinds \subseteq Kind
  BY DEF Kind
<1>2. PICK n \in Nat : DOMAIN heap \subseteq 1 .. n
  BY DEF IInv, HeapOK
<1>3. Top(heap) \in Nat /\ \A p \in DOMAIN heap : p <= Top(heap)
  BY <1>2, TopIsGreatest DEF IInv, HeapOK
<1>4. \A j, k \in Kind : at(j) \in Nat /\ at(j) > Top(heap) /\ at(j) <= Top(heap) + 5
                         /\ (at(j) = at(k) => j = k)
  BY <1>3, RanksDiffer
<1>5. heap' = [p \in DOMAIN heap \cup new |->
                 IF p \in DOMAIN heap THEN heap[p]
                 ELSE arenas[CHOOSE k \in kinds : p = at(k)]]
  BY DEF Allocated
<1>6. \A l \in ls : \A k \in Kinds[l] : y[l].tables[k] = at(k)
  BY DEF Fresh
<1>7. TablesOf(y) = new
  <2>1. ASSUME NEW p \in TablesOf(y) PROVE p \in new
    <3>1. PICK l \in DOMAIN y : \E k \in Kinds[l] : p = y[l].tables[k]
      BY ReferredTable
    <3> QED BY <1>6, <3>1
  <2>2. ASSUME NEW k \in kinds PROVE at(k) \in TablesOf(y)
    <3>1. PICK l \in ls : k \in Kinds[l]
      OBVIOUS
    <3>2. y[l].tables[k] \in TablesOf(y)
      BY <3>1, TableIsReferred
    <3> QED BY <1>6, <3>1, <3>2
  <2> QED BY <2>1, <2>2
<1> HIDE DEF at
<1>8. \A p \in DOMAIN heap : p \in DOMAIN heap' /\ heap'[p] = heap[p]
  BY <1>5
<1>9. ASSUME NEW p \in DOMAIN heap' PROVE Sound(heap'[p])
  <2>1. CASE p \in DOMAIN heap
    BY <1>8, <2>1 DEF IInv, HeapOK
  <2>2. CASE p \notin DOMAIN heap
    <3>1. PICK k \in kinds : p = at(k)
      BY <1>5, <2>2
    <3>2. \A j \in kinds : p = at(j) => j = k
      BY <1>1, <1>4, <3>1
    <3>3. (CHOOSE j \in kinds : p = at(j)) = k
      BY <3>1, <3>2
    <3>4. heap'[p] = arenas[k]
      BY <1>5, <2>2, <3>1, <3>3
    <3> QED BY <1>1, <3>4
  <2> QED BY <2>1, <2>2
<1>10. DOMAIN heap' = Referenced(obj')
  BY <1>5, <1>7, Added DEF IInv, HeapOK
<1>11. DOMAIN heap' \subseteq 1 .. Top(heap) + 5 /\ Top(heap) + 5 \in Nat
  <2>1. DOMAIN heap \subseteq 1 .. Top(heap) + 5
    BY <1>2, <1>3
  <2>2. new \subseteq 1 .. Top(heap) + 5
    BY <1>1, <1>3, <1>4
  <2>3. DOMAIN heap' = DOMAIN heap \cup new
    BY <1>5
  <2>4. Top(heap) + 5 \in Nat
    BY <1>3
  <2> HIDE DEF new
  <2>5. DOMAIN heap' \subseteq 1 .. Top(heap) + 5
    BY <2>1, <2>2, <2>3
  <2> QED BY <2>4, <2>5
<1>12. heap' = [p \in DOMAIN heap' |-> heap'[p]]
  BY <1>5
<1>13. HeapOK'
  BY <1>9, <1>10, <1>11, <1>12 DEF HeapOK
<1>14. ASSUME NEW l \in ls, NEW k \in Kinds[l] PROVE heap'[y[l].tables[k]] = arenas[k]
  <2>1. k \in kinds /\ y[l].tables[k] = at(k)
    BY <1>6
  <2>2. at(k) \notin DOMAIN heap
    <3>1. at(k) > Top(heap) /\ at(k) \in Nat
      BY <1>1, <1>4, <2>1
    <3>2. \A p \in DOMAIN heap : p \in Nat /\ p <= Top(heap)
      BY <1>2, <1>3
    <3> QED BY <1>3, <3>1, <3>2
  <2>3. \A j \in kinds : at(k) = at(j) => j = k
    BY <1>1, <1>4, <2>1
  <2>4. (CHOOSE j \in kinds : at(k) = at(j)) = k
    BY <2>1, <2>3
  <2>5. at(k) \in new
    BY <2>1
  <2> HIDE DEF kinds, new
  <2> QED BY <1>5, <2>1, <2>2, <2>4, <2>5
<1> QED BY <1>8, <1>13, <1>14 DEF Hold

(* A layer with fresh tables is one, with whatever allocator. *)
LEMMA FreshLayer ==
  IInv => \A l \in Layer : \A id \in Nat : LayerOK(Fresh(l, id), l)
<1> SUFFICES ASSUME IInv, NEW l \in Layer, NEW id \in Nat
             PROVE  LayerOK(Fresh(l, id), l)
  OBVIOUS
<1>1. Top(heap) \in Nat
  BY TopIsGreatest DEF IInv, HeapOK
<1>2. \A k \in Kinds[l] : k \in Kind
  BY KindOfOneLayer
<1>3. /\ Fresh(l, id) = [nextId |-> Fresh(l, id).nextId, tables |-> Fresh(l, id).tables]
      /\ Fresh(l, id).nextId = id
      /\ DOMAIN Fresh(l, id).tables = Kinds[l]
      /\ \A k \in Kinds[l] : Fresh(l, id).tables[k] = Top(heap) + Rank[k]
  BY DEF Fresh
<1> QED BY <1>1, <1>2, <1>3, RanksDiffer DEF LayerOK

LEMMA FreshSound ==
  ASSUME IInv, NEW t \in Thread, NEW ls, ls \subseteq Layer,
         NEW arenas, \A k \in Kind : Sound(arenas[k]),
         NEW y, DOMAIN y = ls, NEW next, \A l \in ls : next[l] \in Nat,
         \A l \in ls : y[l] = Fresh(l, next[l]),
         NEW o \in Board \cup Work, o \notin DOMAIN obj, obj' = Put(obj, o, y),
         o \in Board => ls = Layer, o \in Work => ls = {"connectivity"},
         heap' = Allocated(ls, arenas), Reply(t, OK), UNCHANGED <<lists, buffer, borrowed>>
  PROVE  IInv' /\ Contained
<1>1. ObjectOK(o, y)
  <2>1. o \notin Snap
    BY HandlesAssumption
  <2>2. \A l \in ls : LayerOK(y[l], l)
    BY FreshLayer
  <2> QED BY <2>1, <2>2 DEF ObjectOK
<1>2. (\A p \in DOMAIN heap : p \in DOMAIN heap' /\ heap'[p] = heap[p]) /\ HeapOK'
  BY <1>1, FreshTables
<1>3. answer' = OK /\ errors' = errors
  BY DEF Reply
<1> QED BY <1>1, <1>2, <1>3, AddedSound

LEMMA LoadSound ==
  ASSUME IInv, NEW t \in Thread, NEW f \in Files \cup buffer, Load(t, f)
  PROVE  IInv' /\ Contained
<1>1. f.status \in Status /\ (f.status = OK => \A k \in Kind : f.content[k] \in Seq(Entity))
  BY FilesAssumption, StatusNames DEF IInv, BufferOK
<1>2. CASE f.status # OK /\ Answer(t, f.status)
  BY <1>1, <1>2, AnswerSound
<1>3. CASE /\ f.status = OK
           /\ \E b \in Board \ DOMAIN obj :
                obj' = Put(obj, b, [l \in Layer |-> Fresh(l, NextIdAfter(f.content, l))])
           /\ heap' = Allocated(Layer, [k \in Kind |-> Restored(f.content[k])])
           /\ Reply(t, OK)
           /\ UNCHANGED <<lists, buffer, borrowed>>
  <2> DEFINE next == [l \in Layer |-> NextIdAfter(f.content, l)]
             y == [l \in Layer |-> Fresh(l, NextIdAfter(f.content, l))]
             arenas == [k \in Kind |-> Restored(f.content[k])]
  <2>1. PICK b \in Board \ DOMAIN obj : obj' = Put(obj, b, y)
    BY <1>3
  <2>2. heap' = Allocated(Layer, arenas) /\ Reply(t, OK) /\ UNCHANGED <<lists, buffer, borrowed>>
    BY <1>3
  <2>3. \A k \in Kind : Sound(arenas[k])
    BY <1>1, <1>3, RestoredSound
  <2>4. \A l \in Layer : next[l] \in Nat
    BY <1>1, <1>3, NextIdIsNumber
  <2>5. DOMAIN y = Layer /\ \A l \in Layer : y[l] = Fresh(l, next[l])
    OBVIOUS
  <2>6. b \notin Work
    BY HandlesAssumption
  <2> HIDE DEF next, y, arenas
  <2> QED BY <2>1, <2>2, <2>3, <2>4, <2>5, <2>6, FreshSound
<1> QED BY <1>2, <1>3 DEF Load

LEMMA CreateSound ==
  ASSUME IInv, NEW t \in Thread, NEW w \in Work, WorkspaceCreate(t, w)
  PROVE  IInv' /\ Contained
<1> DEFINE ls == {"connectivity"}
           next == [l \in ls |-> 1]
           y == [l \in ls |-> Fresh(l, 1)]
           arenas == [k \in Kind |-> EmptyArena]
<1>1. /\ w \notin DOMAIN obj /\ obj' = Put(obj, w, y)
      /\ heap' = Allocated(ls, arenas) /\ Reply(t, OK) /\ UNCHANGED <<lists, buffer, borrowed>>
  BY DEF WorkspaceCreate
<1>2. ls \subseteq Layer
  BY KindNames
<1>3. \A k \in Kind : Sound(arenas[k])
  BY EmptySound
<1>4. DOMAIN y = ls /\ (\A l \in ls : next[l] \in Nat) /\ \A l \in ls : y[l] = Fresh(l, next[l])
  OBVIOUS
<1>5. w \notin Board
  BY HandlesAssumption
<1>6. ls = {"connectivity"}
  OBVIOUS
<1> HIDE DEF ls, next, y, arenas
<1> QED BY <1>1, <1>2, <1>3, <1>4, <1>5, <1>6, FreshSound

(* What is freed takes along only tables nobody else refers to.             *)
LEMMA FreeSound ==
  ASSUME IInv, NEW o, Free(o)
  PROVE  IInv' /\ Contained
<1>1. /\ obj' = [x \in DOMAIN obj \ {o} |-> obj[x]]
      /\ heap' = [p \in Referenced(obj') |-> heap[p]]
      /\ borrowed' = {n \in borrowed : n.owner # o}
      /\ answer' = OK /\ UNCHANGED <<lists, buffer, errors>>
  BY DEF Free
<1>2. DOMAIN obj' = DOMAIN obj \ {o} /\ \A x \in DOMAIN obj' : obj'[x] = obj[x]
  BY <1>1
<1>3. Referenced(obj') \subseteq DOMAIN heap
  <2>1. ASSUME NEW p \in Referenced(obj') PROVE p \in Referenced(obj)
    <3>1. PICK x \in DOMAIN obj' : p \in TablesOf(obj'[x])
      BY <2>1, ReferredBySome
    <3> QED BY <1>2, <3>1, TablesReferred
  <2> QED BY <2>1 DEF IInv, HeapOK
<1>4. DOMAIN heap' = Referenced(obj') /\ \A p \in DOMAIN heap' : heap'[p] = heap[p]
  BY <1>1
<1>5. ObjOK'
  BY <1>2 DEF IInv, ObjOK
<1>6. HeapOK'
  <2>1. heap' = [p \in DOMAIN heap' |-> heap'[p]]
    BY <1>1
  <2>2. PICK n \in Nat : DOMAIN heap \subseteq 1 .. n
    BY DEF IInv, HeapOK
  <2>3. DOMAIN heap' \subseteq 1 .. n
    BY <1>3, <1>4, <2>2
  <2>4. \A p \in DOMAIN heap' : Sound(heap'[p])
    BY <1>3, <1>4 DEF IInv, HeapOK
  <2> QED BY <1>4, <2>1, <2>3, <2>4 DEF HeapOK
<1>7. ASSUME NEW x \in DOMAIN obj' PROVE LeavesAlone(x)
  <2>1. TablesOf(obj'[x]) \subseteq Referenced(obj')
    BY DEF Referenced
  <2> QED BY <1>2, <1>4, <2>1 DEF LeavesAlone
<1>8. NamesOK'
  <2>1. \A n \in borrowed' : n \in borrowed /\ n.owner \in DOMAIN obj'
    BY <1>1, <1>2 DEF IInv, NamesOK
  <2> QED BY <1>7, <2>1, NamesKept
<1>9. BufferOK' /\ CallOK'
  BY <1>1, StatusNames DEF IInv, BufferOK, CallOK
<1>10. Contained
  BY <1>1, <1>7, ContainedStep
<1> QED BY <1>5, <1>6, <1>8, <1>9, <1>10 DEF IInv

LEMMA BoardCallSound ==
  ASSUME IInv, NEW t \in Thread, BoardCall(t)
  PROVE  IInv' /\ Contained
<1>1. CASE LoadFile(t) \/ LoadBytes(t)
  BY <1>1, LoadSound DEF LoadFile, LoadBytes
<1>2. CASE BytesFree \/ \E b \in Board : SaveBytes(t, b) \/ FormatVersion(t, b)
  BY <1>2, BufferCallSound
<1>3. CASE \E b \in Board, l \in Layer, s \in Snap : BoardLayer(t, b, l, s)
  BY <1>3, BoardLayerSound
<1>4. CASE \E b, c \in Board, s \in Snap : WithConnectivity(t, b, s, c)
  BY <1>4, WithConnectivitySound
<1>5. CASE \E o \in Board \cup Snap \cup Work : Free(o)
  BY <1>5, FreeSound
<1> QED BY <1>1, <1>2, <1>3, <1>4, <1>5 DEF BoardCall

-----------------------------------------------------------------------------
(* insert_net().                                                            *)

(* The slot is filled and the index is not: what could be looked up still   *)
(* can, and reads the same.                                                 *)
LEMMA UnindexedEffect ==
  ASSUME NEW a, Sound(a), NEW v \in Value, NEW id \in Nat
  PROVE  LET b == InsertUnindexed(a, v, id)
         IN  /\ Sound(b)
             /\ b.idIndex = a.idIndex
             /\ \A x \in DOMAIN a.idIndex :
                  Find(b, x) = Find(a, x) /\ TryGet(b, Find(b, x)) = TryGet(a, Find(a, x))
<1> DEFINE c == Insert(a, v, id)
           i == TargetSlot(a)
<1>1. IsArena(a) /\ FreeExact(a) /\ IndexSound(a)
  BY DEF Sound
<1>2. /\ IsArena(c)
      /\ DOMAIN c.slots = DOMAIN a.slots \cup {i}
      /\ c.slots[i] = [value |-> v, id |-> id, gen |-> SlotGen(a)]
      /\ \A j \in DOMAIN a.slots \ {i} : c.slots[j] = a.slots[j]
  BY <1>1, InsertEffect
<1>3. FreeExact(c)
  BY <1>1, InsertFreeExact
<1>4. LiveSlots(c) = LiveSlots(a) \cup {i} /\ i \notin LiveSlots(a)
  BY <1>1, InsertLive
<1>5. c = [slots |-> c.slots, free |-> c.free, idIndex |-> c.idIndex]
  BY <1>2 DEF IsArena
<1> DEFINE b == InsertUnindexed(a, v, id)
<1>6. b = [c EXCEPT !.idIndex = a.idIndex]
  BY DEF InsertUnindexed
<1> HIDE DEF c, b, i
<1>7. b = [slots |-> c.slots, free |-> c.free, idIndex |-> a.idIndex]
  BY <1>5, <1>6
<1>8. b.slots = c.slots /\ b.free = c.free /\ b.idIndex = a.idIndex
  BY <1>7
<1>9. IsArena(b)
  <2>1. DOMAIN a.idIndex \subseteq Nat /\ a.idIndex \in [DOMAIN a.idIndex -> DOMAIN c.slots]
    BY <1>1, <1>2 DEF IsArena
  <2> QED BY <1>2, <1>7, <1>8, <2>1 DEF IsArena
<1>10. LiveSlots(b) = LiveSlots(c) /\ DeadSlots(b) = DeadSlots(c)
  BY <1>8 DEF LiveSlots, DeadSlots, IsLive
<1>11. FreeExact(b)
  BY <1>3, <1>8, <1>10 DEF FreeExact
<1>12. ASSUME NEW x \in DOMAIN a.idIndex
       PROVE  /\ a.idIndex[x] \in LiveSlots(a) /\ a.idIndex[x] \in DOMAIN a.slots
              /\ a.idIndex[x] # i /\ a.slots[a.idIndex[x]].id = x
              /\ b.slots[a.idIndex[x]] = a.slots[a.idIndex[x]]
  <2>1. a.idIndex[x] \in LiveSlots(a) /\ a.slots[a.idIndex[x]].id = x
    BY <1>1 DEF IndexSound
  <2>2. a.idIndex[x] \in DOMAIN a.slots
    BY <2>1 DEF LiveSlots
  <2> QED BY <1>2, <1>4, <1>8, <2>1, <2>2
<1>13. IndexSound(b)
  BY <1>4, <1>8, <1>10, <1>12 DEF IndexSound
<1>14. ASSUME NEW x \in DOMAIN a.idIndex
       PROVE  Find(b, x) = Find(a, x) /\ TryGet(b, Find(b, x)) = TryGet(a, Find(a, x))
  <2> DEFINE j == a.idIndex[x]
             h == [index |-> j, gen |-> a.slots[j].gen]
  <2>1. j \in DOMAIN a.slots /\ j \in DOMAIN b.slots /\ b.slots[j] = a.slots[j]
    BY <1>2, <1>8, <1>12
  <2>2. Find(a, x) = h /\ Find(b, x) = h
    BY <1>8, <2>1 DEF Find
  <2>3. h.index = j
    OBVIOUS
  <2> HIDE DEF h, j
  <2>4. IsLive(b, j) <=> IsLive(a, j)
    BY <2>1 DEF IsLive
  <2>5. Located(b, h) <=> Located(a, h)
    BY <2>1, <2>3, <2>4 DEF Located
  <2>6. TryGet(b, h) = TryGet(a, h)
    BY <2>1, <2>3, <2>5 DEF TryGet
  <2> QED BY <2>2, <2>6
<1> QED BY <1>8, <1>9, <1>11, <1>13, <1>14 DEF Sound, b

(* the two tables of a workspace *)
LEMMA WorkspaceTables ==
  IInv => \A w \in Work \cap DOMAIN obj :
            LET y == obj[w]["connectivity"]
            IN  /\ DOMAIN obj[w] = {"connectivity"}
                /\ y = [nextId |-> y.nextId, tables |-> y.tables]
                /\ DOMAIN y.tables = {"net", "pin"}
                /\ y.nextId \in Nat
                /\ NetsOf(w) = y.tables["net"]
                /\ y.tables["net"] # y.tables["pin"]
                /\ KindsOf(w) = {"net", "pin"}
                /\ ArenaOf(w, "net") = heap[y.tables["net"]]
                /\ ArenaOf(w, "pin") = heap[y.tables["pin"]]
                /\ y.tables["net"] \in TablesOf(obj[w])
                /\ y.tables["pin"] \in TablesOf(obj[w])
                /\ y.tables["net"] \in DOMAIN heap
                /\ Sound(ArenaOf(w, "net"))
<1> SUFFICES ASSUME IInv, NEW w \in Work \cap DOMAIN obj
             PROVE  LET y == obj[w]["connectivity"]
                    IN  /\ DOMAIN obj[w] = {"connectivity"}
                        /\ y = [nextId |-> y.nextId, tables |-> y.tables]
                        /\ DOMAIN y.tables = {"net", "pin"}
                        /\ y.nextId \in Nat
                        /\ NetsOf(w) = y.tables["net"]
                        /\ y.tables["net"] # y.tables["pin"]
                        /\ KindsOf(w) = {"net", "pin"}
                        /\ ArenaOf(w, "net") = heap[y.tables["net"]]
                        /\ ArenaOf(w, "pin") = heap[y.tables["pin"]]
                        /\ y.tables["net"] \in TablesOf(obj[w])
                        /\ y.tables["pin"] \in TablesOf(obj[w])
                        /\ y.tables["net"] \in DOMAIN heap
                        /\ Sound(ArenaOf(w, "net"))
  OBVIOUS
<1> DEFINE y == obj[w]["connectivity"]
<1>1. ObjectOK(w, obj[w])
  BY DEF IInv, ObjOK
<1>2. DOMAIN obj[w] = {"connectivity"}
  BY <1>1 DEF ObjectOK
<1>3. LayerOK(y, "connectivity") /\ Kinds["connectivity"] = {"net", "pin"}
  BY <1>1, <1>2, KindNames DEF ObjectOK
<1>4. /\ y = [nextId |-> y.nextId, tables |-> y.tables]
      /\ y.nextId \in Nat
      /\ DOMAIN y.tables = {"net", "pin"}
      /\ y.tables["net"] # y.tables["pin"]
  <2>1. "net" # "pin"
    OBVIOUS
  <2> QED BY <1>3, <2>1 DEF LayerOK
<1>5. KindsOf(w) = {"net", "pin"}
  BY <1>2, <1>3 DEF KindsOf
<1>6. NetsOf(w) = y.tables["net"]
  BY DEF NetsOf
<1>7. /\ ArenaOf(w, "net") = heap[y.tables["net"]]
      /\ ArenaOf(w, "pin") = heap[y.tables["pin"]]
      /\ y.tables["net"] \in TablesOf(obj[w])
      /\ y.tables["pin"] \in TablesOf(obj[w])
      /\ y.tables["net"] \in DOMAIN heap
      /\ Sound(ArenaOf(w, "net"))
  BY <1>2, <1>3, ArenaBehind
<1> QED BY <1>2, <1>4, <1>5, <1>6, <1>7

(* the id is taken; nothing else is touched *)
LEMMA IdTakenEffect ==
  ASSUME IInv, NEW w \in Work \cap DOMAIN obj
  PROVE  LET ob == IdTaken(w)
             y  == obj[w]["connectivity"]
         IN  /\ DOMAIN ob = DOMAIN obj
             /\ \A x \in DOMAIN obj \ {w} : ob[x] = obj[x]
             /\ DOMAIN ob[w] = {"connectivity"}
             /\ ob[w]["connectivity"] = [nextId |-> y.nextId + 1, tables |-> y.tables]
<1> DEFINE y == obj[w]["connectivity"]
           z == [y EXCEPT !.nextId = @ + 1]
           v == [obj[w] EXCEPT !["connectivity"] = z]
           ob == [obj EXCEPT ![w] = v]
<1>1. ob = IdTaken(w)
  BY Zenon DEF IdTaken
<1>2. DOMAIN obj[w] = {"connectivity"} /\ y = [nextId |-> y.nextId, tables |-> y.tables]
  BY WorkspaceTables
<1> HIDE DEF y
<1>3. z = [nextId |-> y.nextId + 1, tables |-> y.tables]
  BY <1>2
<1> HIDE DEF z
<1>4. DOMAIN v = {"connectivity"} /\ v["connectivity"] = z
  BY <1>2
<1> HIDE DEF v
<1>5. DOMAIN ob = DOMAIN obj /\ ob[w] = v /\ \A x \in DOMAIN obj \ {w} : ob[x] = obj[x]
  OBVIOUS
<1> HIDE DEF ob
<1>6. /\ DOMAIN IdTaken(w) = DOMAIN obj
      /\ \A x \in DOMAIN obj \ {w} : IdTaken(w)[x] = obj[x]
      /\ DOMAIN IdTaken(w)[w] = {"connectivity"}
      /\ IdTaken(w)[w]["connectivity"] = [nextId |-> y.nextId + 1, tables |-> y.tables]
  BY <1>1, <1>3, <1>4, <1>5
<1> QED BY <1>6 DEF y

(* What write() leaves behind: the workspace has the new table, every other *)
(* object has what it had, and no table is lost or left over.               *)
Wrote(w, a) ==
  /\ ObjOK'
  /\ HeapOK'
  /\ DOMAIN obj' = DOMAIN obj
  /\ \A o \in DOMAIN obj \ {w} : LeavesAlone(o)
  /\ KindsOf(w)' = {"net", "pin"}
  /\ DOMAIN obj'[w] = {"connectivity"}
  /\ obj'[w]["connectivity"].nextId = obj[w]["connectivity"].nextId + 1
  /\ ArenaOf(w, "net")' = a
  /\ ArenaOf(w, "pin")' = ArenaOf(w, "pin")

LEMMA InPlaceSound ==
  ASSUME IInv, NEW w \in Work \cap DOMAIN obj, NEW a, Sound(a),
         ~Shared(w) \/ a = ArenaOf(w, "net"),
         obj' = IdTaken(w), heap' = [heap EXCEPT ![NetsOf(w)] = a]
  PROVE  Wrote(w, a)
<1> DEFINE y == obj[w]["connectivity"]
           z == [nextId |-> y.nextId + 1, tables |-> y.tables]
           p == y.tables["net"]
           q == y.tables["pin"]
<1>1. /\ DOMAIN obj[w] = {"connectivity"}
      /\ y.nextId \in Nat /\ DOMAIN y.tables = {"net", "pin"}
      /\ NetsOf(w) = p /\ p # q /\ p \in DOMAIN heap
      /\ ArenaOf(w, "net") = heap[p] /\ ArenaOf(w, "pin") = heap[q]
  BY WorkspaceTables
<1>2. /\ DOMAIN obj' = DOMAIN obj
      /\ \A x \in DOMAIN obj \ {w} : obj'[x] = obj[x]
      /\ DOMAIN obj'[w] = {"connectivity"}
      /\ obj'[w]["connectivity"] = z
  BY IdTakenEffect
<1>3. /\ z = [nextId |-> z.nextId, tables |-> z.tables]
      /\ z.nextId \in Nat /\ z.tables = y.tables
  BY <1>1
<1> HIDE DEF z, y
<1>4. \A x \in DOMAIN obj : TablesOf(obj'[x]) = TablesOf(obj[x])
  <2>1. TablesOf(obj'[w]) = TablesOf(obj[w])
    <3>1. \A l \in {"connectivity"} : obj'[w][l].tables = obj[w][l].tables
      BY <1>2, <1>3 DEF y
    <3> QED BY <1>1, <1>2, <3>1 DEF TablesOf
  <2> QED BY <1>2, <2>1
<1>5. Referenced(obj') = Referenced(obj)
  BY <1>2, <1>4 DEF Referenced
<1>6. /\ DOMAIN heap' = DOMAIN heap /\ heap'[p] = a
      /\ \A r \in DOMAIN heap \ {p} : heap'[r] = heap[r]
      /\ heap' = [r \in DOMAIN heap' |-> heap'[r]]
  BY <1>1 DEF IInv, HeapOK
<1>7. HeapOK'
  <2>1. \A r \in DOMAIN heap' : Sound(heap'[r])
    BY <1>6 DEF IInv, HeapOK
  <2> QED BY <1>5, <1>6, <2>1 DEF IInv, HeapOK
<1>8. ObjectOK(w, obj[w]) /\ \A x \in DOMAIN obj : ObjectOK(x, obj[x])
  BY DEF IInv, ObjOK
<1>9. ObjOK'
  <2>1. LayerOK(y, "connectivity")
    BY <1>1, <1>8 DEF ObjectOK, y
  <2>2. LayerOK(z, "connectivity")
    BY <1>3, <2>1 DEF LayerOK
  <2>3. ObjectOK(w, obj'[w])
    <3>1. DOMAIN obj'[w] = DOMAIN obj[w] /\ \A l \in DOMAIN obj'[w] : l \in Layer /\ LayerOK(obj'[w][l], l)
      BY <1>1, <1>2, <2>2, KindNames
    <3> QED BY <1>8, <3>1 DEF ObjectOK
  <2> QED BY <1>2, <1>8, <2>3 DEF ObjOK
<1>10. ASSUME NEW o \in DOMAIN obj \ {w} PROVE LeavesAlone(o)
  <2>1. p \notin TablesOf(obj[o]) \/ a = heap[p]
    BY <1>1 DEF Shared
  <2>2. TablesOf(obj[o]) \subseteq DOMAIN heap
    BY DEF IInv, HeapOK, Referenced
  <2> QED BY <1>2, <1>6, <2>1, <2>2 DEF LeavesAlone
<1>11. KindsOf(w)' = {"net", "pin"}
  BY <1>2, KindNames DEF KindsOf
<1>12. LayerOf("net") = "connectivity" /\ LayerOf("pin") = "connectivity"
  BY KindNames, KindOfOneLayer
<1>13. ArenaOf(w, "net")' = a
  <2>1. ArenaOf(w, "net")' = heap'[obj'[w][LayerOf("net")].tables["net"]]
    BY DEF ArenaOf
  <2> QED BY <1>2, <1>3, <1>6, <1>12, <2>1
<1>14. ArenaOf(w, "pin")' = ArenaOf(w, "pin")
  <2>1. ArenaOf(w, "pin")' = heap'[obj'[w][LayerOf("pin")].tables["pin"]]
    BY DEF ArenaOf
  <2>2. q \in DOMAIN heap
    <3>1. q \in TablesOf(obj[w])
      BY WorkspaceTables DEF y
    <3> QED BY <3>1 DEF IInv, HeapOK, Referenced
  <2> QED BY <1>1, <1>2, <1>3, <1>6, <1>12, <2>1, <2>2
<1>15. obj'[w]["connectivity"].nextId = obj[w]["connectivity"].nextId + 1
  BY <1>2 DEF z, y
<1> QED BY <1>2, <1>7, <1>9, <1>10, <1>11, <1>13, <1>14, <1>15 DEF Wrote

LEMMA ConnectivityTables ==
  ASSUME NEW y, DOMAIN y = {"connectivity"}
  PROVE  TablesOf(y) = {y["connectivity"].tables["net"], y["connectivity"].tables["pin"]}
<1>1. ASSUME NEW p \in TablesOf(y)
      PROVE  p \in {y["connectivity"].tables["net"], y["connectivity"].tables["pin"]}
  <2>1. PICK l \in DOMAIN y : \E k \in Kinds[l] : p = y[l].tables[k]
    BY ReferredTable
  <2> QED BY <2>1, KindNames
<1>2. /\ y["connectivity"].tables["net"] \in TablesOf(y)
      /\ y["connectivity"].tables["pin"] \in TablesOf(y)
  BY KindNames, TableIsReferred
<1> QED BY <1>1, <1>2

LEMMA CloneSound ==
  ASSUME IInv, NEW w \in Work \cap DOMAIN obj, NEW a, Sound(a), Shared(w),
         obj' = [IdTaken(w) EXCEPT ![w].connectivity.tables.net = Top(heap) + 1],
         heap' = Put(heap, Top(heap) + 1, a)
  PROVE  Wrote(w, a)
<1> DEFINE y == obj[w]["connectivity"]
           p == y.tables["net"]
           q == y.tables["pin"]
           r == Top(heap) + 1
           ob == IdTaken(w)
           u == ob[w]["connectivity"]
           tables == [u.tables EXCEPT !["net"] = r]
           z == [u EXCEPT !["tables"] = tables]
           v == [ob[w] EXCEPT !["connectivity"] = z]
<1>1. /\ DOMAIN obj[w] = {"connectivity"}
      /\ y.nextId \in Nat /\ DOMAIN y.tables = {"net", "pin"}
      /\ NetsOf(w) = p /\ p # q /\ p \in DOMAIN heap
      /\ ArenaOf(w, "pin") = heap[q] /\ q \in TablesOf(obj[w])
  BY WorkspaceTables
<1>2. PICK n \in Nat : DOMAIN heap \subseteq 1 .. n
  BY DEF IInv, HeapOK
<1>3. Top(heap) \in Nat /\ \A x \in DOMAIN heap : x <= Top(heap)
  BY <1>2, TopIsGreatest DEF IInv, HeapOK
<1>4. r \in Nat \ {0} /\ r \notin DOMAIN heap
  BY <1>3
<1>5. /\ DOMAIN ob = DOMAIN obj
      /\ \A x \in DOMAIN obj \ {w} : ob[x] = obj[x]
      /\ DOMAIN ob[w] = {"connectivity"}
      /\ u = [nextId |-> y.nextId + 1, tables |-> y.tables]
  BY IdTakenEffect
<1>6. obj' = [ob EXCEPT ![w] = v]
  BY Zenon
<1> HIDE DEF ob, u, r
<1>7. DOMAIN tables = {"net", "pin"} /\ tables["net"] = r /\ tables["pin"] = q
  <2>1. u.tables = y.tables
    BY <1>5
  <2> QED BY <1>1, <2>1
<1> HIDE DEF tables, y, p, q
<1>8. z = [nextId |-> y.nextId + 1, tables |-> tables]
  BY <1>5
<1> HIDE DEF z
<1>9. DOMAIN v = {"connectivity"} /\ v["connectivity"] = z
  BY <1>5
<1> HIDE DEF v
<1>10. /\ DOMAIN obj' = DOMAIN obj
       /\ \A x \in DOMAIN obj \ {w} : obj'[x] = obj[x]
       /\ DOMAIN obj'[w] = {"connectivity"}
       /\ obj'[w]["connectivity"] = z
  <2>1. w \in DOMAIN ob
    BY <1>5
  <2> QED BY <1>5, <1>6, <1>9, <2>1
<1>11. /\ z = [nextId |-> z.nextId, tables |-> z.tables]
       /\ z.nextId \in Nat /\ z.tables = tables
  BY <1>1, <1>8
<1>12. /\ DOMAIN heap' = DOMAIN heap \cup {r} /\ heap'[r] = a
       /\ \A x \in DOMAIN heap : heap'[x] = heap[x]
       /\ heap' = [x \in DOMAIN heap' |-> heap'[x]]
  BY <1>4 DEF Put, r
<1>13. q \in DOMAIN heap /\ q # r
  <2>1. q \in Referenced(obj)
    BY <1>1, TablesReferred
  <2> QED BY <1>4, <2>1 DEF IInv, HeapOK
<1>14. TablesOf(obj[w]) = {p, q}
  BY <1>1, KindNames DEF TablesOf, y, p, q
<1>15. TablesOf(obj'[w]) = {r, q}
  <2>1. TablesOf(obj'[w]) = {obj'[w]["connectivity"].tables["net"],
                             obj'[w]["connectivity"].tables["pin"]}
    BY <1>10, ConnectivityTables
  <2> QED BY <1>7, <1>10, <1>11, <2>1
<1>16. PICK o \in DOMAIN obj \ {w} : p \in TablesOf(obj[o])
  BY <1>1 DEF Shared
<1>17. Referenced(obj') = Referenced(obj) \cup {r}
  <2>1. ASSUME NEW x \in Referenced(obj') PROVE x \in Referenced(obj) \cup {r}
    <3>1. PICK m \in DOMAIN obj' : x \in TablesOf(obj'[m])
      BY <2>1, ReferredBySome
    <3>2. CASE m = w
      BY <1>1, <1>15, <3>1, <3>2, TablesReferred
    <3>3. CASE m # w
      BY <1>10, <3>1, <3>3, TablesReferred
    <3> QED BY <3>2, <3>3
  <2>2. ASSUME NEW x \in Referenced(obj) PROVE x \in Referenced(obj')
    <3>1. PICK m \in DOMAIN obj : x \in TablesOf(obj[m])
      BY <2>2, ReferredBySome
    <3>2. CASE m # w
      BY <1>10, <3>1, <3>2 DEF Referenced
    <3>3. CASE m = w /\ x = q
      BY <1>10, <1>15, <3>3 DEF Referenced
    <3>4. CASE x = p
      BY <1>10, <1>16, <3>4 DEF Referenced
    <3> QED BY <1>14, <3>1, <3>2, <3>3, <3>4
  <2>3. r \in Referenced(obj')
    BY <1>10, <1>15 DEF Referenced
  <2> QED BY <2>1, <2>2, <2>3
<1>18. HeapOK'
  <2>1. \A x \in DOMAIN heap' : Sound(heap'[x])
    BY <1>12 DEF IInv, HeapOK
  <2>2. r \in Nat /\ DOMAIN heap' \subseteq 1 .. r
    <3>1. DOMAIN heap \subseteq 1 .. r
      BY <1>2, <1>3 DEF r
    <3> QED BY <1>4, <1>12, <3>1
  <2>3. DOMAIN heap' = Referenced(obj')
    BY <1>12, <1>17 DEF IInv, HeapOK
  <2> QED BY <1>12, <2>1, <2>2, <2>3 DEF HeapOK
<1>19. ObjectOK(w, obj[w]) /\ \A x \in DOMAIN obj : ObjectOK(x, obj[x])
  BY DEF IInv, ObjOK
<1>20. ObjOK'
  <2>1. LayerOK(z, "connectivity")
    BY <1>7, <1>11, <1>13, KindNames DEF LayerOK
  <2>2. ObjectOK(w, obj'[w])
    <3>1. DOMAIN obj'[w] = DOMAIN obj[w] /\ \A l \in DOMAIN obj'[w] : l \in Layer /\ LayerOK(obj'[w][l], l)
      BY <1>1, <1>10, <2>1, KindNames
    <3> QED BY <1>19, <3>1 DEF ObjectOK
  <2> QED BY <1>10, <1>19, <2>2 DEF ObjOK
<1>21. ASSUME NEW x \in DOMAIN obj \ {w} PROVE LeavesAlone(x)
  <2>1. TablesOf(obj[x]) \subseteq DOMAIN heap
    BY DEF IInv, HeapOK, Referenced
  <2> QED BY <1>10, <1>12, <2>1 DEF LeavesAlone
<1>22. KindsOf(w)' = {"net", "pin"}
  BY <1>10, KindNames DEF KindsOf
<1>23. LayerOf("net") = "connectivity" /\ LayerOf("pin") = "connectivity"
  BY KindNames, KindOfOneLayer
<1>24. ArenaOf(w, "net")' = a
  <2>1. ArenaOf(w, "net")' = heap'[obj'[w][LayerOf("net")].tables["net"]]
    BY DEF ArenaOf
  <2> QED BY <1>7, <1>10, <1>11, <1>12, <1>23, <2>1
<1>25. ArenaOf(w, "pin")' = ArenaOf(w, "pin")
  <2>1. ArenaOf(w, "pin")' = heap'[obj'[w][LayerOf("pin")].tables["pin"]]
    BY DEF ArenaOf
  <2> QED BY <1>1, <1>7, <1>10, <1>11, <1>12, <1>13, <1>23, <2>1
<1>26. obj'[w]["connectivity"].nextId = obj[w]["connectivity"].nextId + 1
  BY <1>8, <1>10 DEF y
<1> QED BY <1>10, <1>18, <1>20, <1>21, <1>22, <1>24, <1>25, <1>26 DEF Wrote

LEMMA WriteNetsSound ==
  ASSUME IInv, NEW w \in Work \cap DOMAIN obj, NEW a, Sound(a), WriteNets(w, a)
  PROVE  Wrote(w, a)
BY InPlaceSound, CloneSound DEF WriteNets

(* a failed insertion may have filled a slot, but shows no more than before *)
ShowsTheSame(a, b) ==
  /\ DOMAIN b.idIndex = DOMAIN a.idIndex
  /\ \A x \in DOMAIN a.idIndex : TryGet(b, Find(b, x)) = TryGet(a, Find(a, x))

LEMMA WroteSound ==
  ASSUME IInv, NEW w \in Work \cap DOMAIN obj, NEW t \in Thread, NEW status \in Status,
         NEW a, Wrote(w, a), Reply(t, status), UNCHANGED <<lists, buffer, borrowed>>,
         status # OK => ShowsTheSame(ArenaOf(w, "net"), a)
  PROVE  IInv' /\ Contained
<1>1. /\ answer' = status /\ answer' \in Status /\ errors' \in [Thread -> Status]
      /\ answer' = OK => errors' = errors
      /\ answer' # OK => errors' = [errors EXCEPT ![t] = answer']
  BY ReplyTyped
<1>2. /\ ObjOK' /\ HeapOK' /\ DOMAIN obj' = DOMAIN obj
      /\ \A o \in DOMAIN obj \ {w} : LeavesAlone(o)
  BY DEF Wrote
<1>3. NamesOK'
  <2>1. \A n \in borrowed' : n.owner \in DOMAIN obj /\ n.owner # w
    BY HandlesAssumption DEF IInv, NamesOK
  <2> QED BY <1>2, <2>1, NamesKept
<1>4. BufferOK' /\ CallOK'
  BY <1>1 DEF IInv, BufferOK, CallOK
<1>5. \A o \in DOMAIN obj \ {w} :
        Content(o)' = Content(o) /\ \A k \in KindsOf(o) : Known(o, k)' = Known(o, k)
  BY <1>2, LeftAloneShowsTheSame
<1>6. ASSUME status # OK, NEW k \in KindsOf(w) PROVE Known(w, k)' = Known(w, k)
  <2>1. KindsOf(w) = {"net", "pin"}
    BY WorkspaceTables
  <2>2. CASE k = "net"
    <3>1. ArenaOf(w, "net")' = a
      BY DEF Wrote
    <3>2. Known(w, "net")' = [x \in DOMAIN a.idIndex |-> TryGet(a, Find(a, x))]
      BY <3>1 DEF Known
    <3> QED BY <1>6, <2>2, <3>2 DEF Known, ShowsTheSame
  <2>3. CASE k = "pin"
    <3>1. ArenaOf(w, "pin")' = ArenaOf(w, "pin")
      BY DEF Wrote
    <3> QED BY <2>3, <3>1 DEF Known
  <2> QED BY <2>1, <2>2, <2>3
<1>7. Contained
  <2>1. \A o \in (DOMAIN obj \cap DOMAIN obj') \ Work : Content(o)' = Content(o)
    BY <1>5
  <2>2. answer' # OK => \A o \in DOMAIN obj : \A k \in KindsOf(o) : Known(o, k)' = Known(o, k)
    BY <1>1, <1>5, <1>6
  <2> QED BY <1>1, <1>2, <2>1, <2>2 DEF Contained
<1> QED BY <1>2, <1>3, <1>4, <1>7 DEF IInv

LEMMA InsertNetSound ==
  ASSUME IInv, NEW t \in Thread, NEW w \in Work, NEW v \in Names, InsertNet(t, w, v)
  PROVE  IInv' /\ Contained
<1> DEFINE nets == ArenaOf(w, "net")
           id   == obj[w].connectivity.nextId
<1>1. /\ w \in Work \cap DOMAIN obj
      /\ \/ WriteNets(w, Insert(nets, v, id)) /\ Reply(t, OK)
         \/ WriteNets(w, InsertUnindexed(nets, v, id)) /\ Reply(t, UNKNOWN)
         \/ WriteNets(w, nets) /\ Reply(t, UNKNOWN)
         \/ Shared(w) /\ obj' = IdTaken(w) /\ UNCHANGED heap /\ Reply(t, UNKNOWN)
      /\ UNCHANGED <<lists, buffer, borrowed>>
  BY DEF InsertNet
<1>2. v \in Value
  BY ArgumentsAssumption
<1>3. /\ obj[w].connectivity.nextId \in Nat /\ Sound(ArenaOf(w, "net"))
      /\ NetsOf(w) \in DOMAIN heap /\ ArenaOf(w, "net") = heap[NetsOf(w)]
  BY <1>1, WorkspaceTables
<1>4. id \in Nat /\ Sound(nets) /\ nets = ArenaOf(w, "net")
  BY <1>3
<1> HIDE DEF nets, id
<1>5. ShowsTheSame(nets, nets)
  BY DEF ShowsTheSame
<1>6. CASE WriteNets(w, Insert(nets, v, id)) /\ Reply(t, OK)
  <2>1. Sound(Insert(nets, v, id))
    BY <1>2, <1>4, InsertSound
  <2>2. Wrote(w, Insert(nets, v, id))
    BY <1>1, <1>6, <2>1, WriteNetsSound
  <2> QED BY <1>1, <1>6, <2>2, WroteSound, StatusNames
<1>7. CASE WriteNets(w, InsertUnindexed(nets, v, id)) /\ Reply(t, UNKNOWN)
  <2> DEFINE b == InsertUnindexed(nets, v, id)
  <2>1. Sound(b) /\ b.idIndex = nets.idIndex
          /\ \A x \in DOMAIN nets.idIndex : TryGet(b, Find(b, x)) = TryGet(nets, Find(nets, x))
    BY <1>2, <1>4, UnindexedEffect
  <2> HIDE DEF b
  <2>2. ShowsTheSame(nets, b)
    BY <2>1 DEF ShowsTheSame
  <2>3. Wrote(w, b)
    BY <1>1, <1>7, <2>1, WriteNetsSound DEF b
  <2> QED BY <1>1, <1>4, <1>7, <2>2, <2>3, WroteSound, StatusNames
<1>8. CASE WriteNets(w, nets) /\ Reply(t, UNKNOWN)
  <2>1. Wrote(w, nets)
    BY <1>1, <1>4, <1>8, WriteNetsSound
  <2> QED BY <1>1, <1>4, <1>5, <1>8, <2>1, WroteSound, StatusNames
<1>9. CASE Shared(w) /\ obj' = IdTaken(w) /\ UNCHANGED heap /\ Reply(t, UNKNOWN)
  <2>1. heap' = [heap EXCEPT ![NetsOf(w)] = nets]
    BY <1>3, <1>4, <1>9 DEF IInv, HeapOK
  <2>2. Wrote(w, nets)
    BY <1>1, <1>4, <1>9, <2>1, InPlaceSound
  <2> QED BY <1>1, <1>4, <1>5, <1>9, <2>2, WroteSound, StatusNames
<1> QED BY <1>1, <1>6, <1>7, <1>8, <1>9

LEMMA WorkspaceCallSound ==
  ASSUME IInv, NEW t \in Thread, WorkspaceCall(t)
  PROVE  IInv' /\ Contained
BY CreateSound, FromSnapshotSound, InsertNetSound, CommitSound DEF WorkspaceCall

-----------------------------------------------------------------------------
(* Every step.                                                              *)

LEMMA InitSound == Init => IInv
<1> SUFFICES ASSUME Init PROVE IInv
  OBVIOUS
<1>1. /\ obj = << >> /\ heap = << >> /\ lists = << >> /\ buffer = {} /\ borrowed = {}
      /\ errors = [t \in Thread |-> OK] /\ answer = OK
  BY DEF Init
<1>2. DOMAIN << >> = {}
  OBVIOUS
<1>3. ObjOK /\ NamesOK /\ BufferOK
  BY <1>1, <1>2 DEF ObjOK, NamesOK, BufferOK
<1>4. HeapOK
  <2>1. Referenced(obj) = {}
    BY <1>1, <1>2 DEF Referenced
  <2>2. heap = [p \in DOMAIN heap |-> heap[p]]
    BY <1>1
  <2>3. DOMAIN heap \subseteq 1 .. 0 /\ 0 \in Nat
    BY <1>1, <1>2
  <2> QED BY <1>1, <1>2, <2>1, <2>2, <2>3 DEF HeapOK
<1>5. CallOK
  BY <1>1, <1>2, StatusNames DEF CallOK
<1> QED BY <1>3, <1>4, <1>5 DEF IInv

LEMMA StepSound == IInv /\ Next => IInv' /\ Contained
<1> SUFFICES ASSUME IInv, Next PROVE IInv' /\ Contained
  OBVIOUS
<1>1. PICK t \in Thread :
        BoardCall(t) \/ ReadCall(t) \/ WorkspaceCall(t) \/ NullArgument(t) \/ Throws(t)
  BY DEF Next
<1>2. CASE BoardCall(t)
  BY <1>2, BoardCallSound
<1>3. CASE ReadCall(t)
  BY <1>3, ReadCallSound
<1>4. CASE WorkspaceCall(t)
  BY <1>4, WorkspaceCallSound
<1>5. CASE NullArgument(t) \/ Throws(t)
  BY <1>5, AnswerSound, StatusNames DEF NullArgument, Throws
<1> QED BY <1>1, <1>2, <1>3, <1>4, <1>5

LEMMA StutterSound == IInv /\ UNCHANGED vars => IInv'
<1> SUFFICES ASSUME IInv, UNCHANGED vars PROVE IInv'
  OBVIOUS
<1>1. UNCHANGED <<obj, heap, lists, buffer, borrowed, errors, answer>>
  BY DEF vars
<1>2. ObjOK' /\ HeapOK' /\ NamesOK'
  BY <1>1, NothingMoves
<1>3. BufferOK' /\ CallOK'
  BY <1>1 DEF IInv, BufferOK, CallOK
<1> QED BY <1>2, <1>3 DEF IInv

LEMMA Invariance == Spec => []IInv
<1>1. IInv /\ [Next]_vars => IInv'
  BY StepSound, StutterSound
<1> QED BY InitSound, <1>1, PTL DEF Spec

(* Handles lead to the layers of their type, and the tables in memory are   *)
(* those some handle refers to: nothing leaks and nothing dangles.          *)
THEOREM TypeCorrect == Spec => []TypeOK
<1>1. IInv => TypeOK
  <2> SUFFICES ASSUME IInv PROVE TypeOK
    OBVIOUS
  <2>1. DOMAIN obj \subseteq Board \cup Snap \cup Work
    BY DEF IInv, ObjOK, ObjectOK
  <2>2. ASSUME NEW o \in DOMAIN obj
        PROVE  /\ DOMAIN obj[o] = LayersOf(o)
               /\ \E l \in Layer : o \in Board \/ DOMAIN obj[o] = {l}
               /\ \A l \in DOMAIN obj[o] : obj[o][l].nextId \in Nat
    <3>1. ObjectOK(o, obj[o])
      BY DEF IInv, ObjOK
    <3>2. DOMAIN obj[o] = LayersOf(o)
      BY <3>1 DEF ObjectOK, LayersOf
    <3>3. \E l \in Layer : o \in Board \/ DOMAIN obj[o] = {l}
      BY <3>1, KindNames DEF ObjectOK
    <3>4. \A l \in DOMAIN obj[o] : obj[o][l].nextId \in Nat
      BY <3>1 DEF ObjectOK, LayerOK
    <3> QED BY <3>2, <3>3, <3>4
  <2>3. DOMAIN heap = Referenced(obj) /\ \A p \in DOMAIN heap : IsArena(heap[p])
    BY DEF IInv, HeapOK, Sound
  <2>4. DOMAIN lists \subseteq List /\ errors \in [Thread -> Status] /\ answer \in Status
    BY DEF IInv, CallOK
  <2> QED BY <2>1, <2>2, <2>3, <2>4 DEF TypeOK
<1> QED BY <1>1, Invariance, PTL

(* pcbir.h: a name handed out is valid for exactly its snapshot's lifetime, *)
(* whatever is committed, saved, inserted or freed meanwhile.               *)
THEOREM NamesAreValid == Spec => []NamesStayValid
<1>1. IInv => NamesStayValid
  <2> SUFFICES ASSUME IInv, NEW n \in borrowed
               PROVE  /\ n.addr \in DOMAIN heap
                      /\ n.slot \in DOMAIN heap[n.addr].slots
                      /\ heap[n.addr].slots[n.slot].value = n.text
    BY DEF NamesStayValid
  <2>1. n.owner \in DOMAIN obj /\ n.addr \in TablesOf(obj[n.owner])
    BY DEF IInv, NamesOK
  <2>2. n.addr \in DOMAIN heap
    BY <2>1, TablesReferred DEF IInv, HeapOK
  <2> QED BY <2>2 DEF IInv, NamesOK
<1> QED BY <1>1, Invariance, PTL

(* pcbir.h: a snapshot is immutable, a failed call changes nothing a handle *)
(* leads to, and only a failed call sets the last error, of one thread.     *)
THEOREM CallsAreContained == Spec => CallsContained
<1>1. IInv /\ [Next]_vars => [Contained]_vars
  BY StepSound
<1>2. [Contained]_vars <=>
        [LET kept == DOMAIN obj \cap DOMAIN obj' IN
         /\ \A o \in kept \ Work : Content(o)' = Content(o)
         /\ answer' = OK => errors' = errors
         /\ answer' # OK =>
              /\ \E t \in Thread : errors' = [errors EXCEPT ![t] = answer']
              /\ DOMAIN obj' = DOMAIN obj /\ UNCHANGED <<lists, buffer, borrowed>>
              /\ \A o \in kept : \A k \in KindsOf(o) : Known(o, k)' = Known(o, k)]_vars
  BY DEF Contained
<1>3. Spec => [][Contained]_vars
  BY <1>1, Invariance, PTL DEF Spec
<1> QED BY <1>2, <1>3, PTL DEF CallsContained

-----------------------------------------------------------------------------
(* Positions and ids.  What find() and for_each() say of a table agrees     *)
(* when no two live slots have one id.  The allocator keeps it so: it is    *)
(* past every id of the tables it is used with, whichever handle shares     *)
(* them; loading keeps it so for buffers in which no table repeats an id.   *)

Tidy(a, n) ==
  /\ IdsDiffer(a) /\ GensNonNull(a)
  /\ \A i \in LiveSlots(a) : a.slots[i].id < n

IdsOK ==
  \A o \in DOMAIN obj : \A l \in DOMAIN obj[o] : \A k \in Kinds[l] :
    Tidy(heap[obj[o][l].tables[k]], obj[o][l].nextId)

SavedOK == \A f \in buffer : \A k \in Kind : Distinct(f.content[k])

(* No table of a file repeats an id: true of the files this library writes, *)
(* and checked by nothing that reads one.                                   *)
FilesDistinct ==
  \A f \in Files : f.status = OK => \A k \in Kind : Distinct(f.content[k])

LEMMA EmptyTidy == \A n : Tidy(EmptyArena, n)
<1>1. LiveSlots(EmptyArena) = {}
  BY DEF LiveSlots, EmptyArena
<1> QED BY <1>1 DEF Tidy, IdsDiffer, GensNonNull

(* Every layer is one there was, with the tables it had.                    *)
LEMMA SharedIds ==
  ASSUME IdsOK,
         \A o \in DOMAIN obj' : \A l \in DOMAIN obj'[o] :
           \E x \in DOMAIN obj : l \in DOMAIN obj[x] /\ obj'[o][l] = obj[x][l],
         \A p \in Referenced(obj') : heap'[p] = heap[p]
  PROVE  IdsOK'
<1> SUFFICES ASSUME NEW o \in DOMAIN obj', NEW l \in DOMAIN obj'[o], NEW k \in Kinds[l]
             PROVE  Tidy(heap'[obj'[o][l].tables[k]], obj'[o][l].nextId)
  BY DEF IdsOK
<1>1. PICK x \in DOMAIN obj : l \in DOMAIN obj[x] /\ obj'[o][l] = obj[x][l]
  OBVIOUS
<1>2. obj'[o][l].tables[k] \in Referenced(obj')
  BY TableIsReferred DEF Referenced
<1>3. Tidy(heap[obj[x][l].tables[k]], obj[x][l].nextId)
  BY <1>1 DEF IdsOK
<1> QED BY <1>1, <1>2, <1>3

(* A handle more, onto layers there were.                                   *)
LEMMA SharingIds ==
  ASSUME IdsOK, NEW o, NEW y, obj' = Put(obj, o, y), UNCHANGED heap,
         \A l \in DOMAIN y : \E x \in DOMAIN obj : l \in DOMAIN obj[x] /\ y[l] = obj[x][l]
  PROVE  IdsOK'
<1>1. /\ DOMAIN obj' = DOMAIN obj \cup {o} /\ obj'[o] = y
      /\ \A x \in DOMAIN obj \ {o} : obj'[x] = obj[x]
  BY DEF Put
<1> QED BY <1>1, SharedIds

(* A handle more, with tables of its own.                                   *)
LEMMA FreshIds ==
  ASSUME IInv, IdsOK, NEW ls, ls \subseteq Layer,
         NEW arenas, \A k \in Kind : Sound(arenas[k]),
         NEW y, DOMAIN y = ls, NEW next, \A l \in ls : next[l] \in Nat,
         \A l \in ls : y[l] = Fresh(l, next[l]),
         \A l \in ls : \A k \in Kinds[l] : Tidy(arenas[k], next[l]),
         NEW o, o \notin DOMAIN obj, obj' = Put(obj, o, y), ObjectOK(o, y),
         heap' = Allocated(ls, arenas)
  PROVE  IdsOK'
<1>1. /\ \A p \in DOMAIN heap : heap'[p] = heap[p]
      /\ \A l \in ls : \A k \in Kinds[l] : heap'[y[l].tables[k]] = arenas[k]
  <2>1. \A p \in DOMAIN heap : p \in DOMAIN heap' /\ heap'[p] = heap[p]
    BY FreshTables
  <2>2. Hold(y, heap', arenas)
    BY FreshTables
  <2> QED BY <2>1, <2>2 DEF Hold
<1>2. /\ DOMAIN obj' = DOMAIN obj \cup {o} /\ obj'[o] = y
      /\ \A x \in DOMAIN obj : obj'[x] = obj[x]
  BY Added
<1>3. ASSUME NEW x \in DOMAIN obj, NEW l \in DOMAIN obj[x], NEW k \in Kinds[l]
      PROVE  Tidy(heap'[obj'[x][l].tables[k]], obj'[x][l].nextId)
  <2>1. obj[x][l].tables[k] \in DOMAIN heap
    BY ArenaBehind
  <2> QED BY <1>1, <1>2, <2>1 DEF IdsOK
<1>4. ASSUME NEW l \in DOMAIN y, NEW k \in Kinds[l]
      PROVE  Tidy(heap'[y[l].tables[k]], y[l].nextId)
  <2>1. y[l].nextId = next[l]
    BY DEF Fresh
  <2> QED BY <1>1, <2>1
<1> QED BY <1>2, <1>3, <1>4 DEF IdsOK

LEMMA LoadIds ==
  ASSUME FilesDistinct, IInv, IdsOK, SavedOK, NEW t \in Thread, NEW f \in Files \cup buffer,
         Load(t, f)
  PROVE  IdsOK' /\ SavedOK'
<1>1. /\ f.status \in Status
      /\ f.status = OK => \A k \in Kind : f.content[k] \in Seq(Entity) /\ Distinct(f.content[k])
  BY FilesAssumption, StatusNames DEF FilesDistinct, SavedOK, IInv, BufferOK
<1>2. CASE f.status # OK /\ Answer(t, f.status)
  <2>1. UNCHANGED <<obj, heap, buffer>>
    BY <1>2 DEF Answer, state
  <2>2. IdsOK'
    BY <2>1, SharedIds
  <2> QED BY <2>1, <2>2 DEF SavedOK
<1>3. CASE /\ f.status = OK
           /\ \E b \in Board \ DOMAIN obj :
                obj' = Put(obj, b, [l \in Layer |-> Fresh(l, NextIdAfter(f.content, l))])
           /\ heap' = Allocated(Layer, [k \in Kind |-> Restored(f.content[k])])
           /\ Reply(t, OK)
           /\ UNCHANGED <<lists, buffer, borrowed>>
  <2> DEFINE next == [l \in Layer |-> NextIdAfter(f.content, l)]
             y == [l \in Layer |-> Fresh(l, NextIdAfter(f.content, l))]
             arenas == [k \in Kind |-> Restored(f.content[k])]
  <2>1. PICK b \in Board \ DOMAIN obj : obj' = Put(obj, b, y)
    BY <1>3
  <2>2. heap' = Allocated(Layer, arenas)
    BY <1>3
  <2>3. \A k \in Kind : Sound(arenas[k])
    BY <1>1, <1>3, RestoredSound
  <2>4. \A l \in Layer : next[l] \in Nat
    BY <1>1, <1>3, NextIdIsNumber
  <2>5. DOMAIN y = Layer /\ \A l \in Layer : y[l] = Fresh(l, next[l])
    OBVIOUS
  <2>6. ASSUME NEW l \in Layer, NEW k \in Kinds[l] PROVE Tidy(arenas[k], next[l])
    <3> DEFINE e == f.content[k]
               a == Restored(e)
               n == NextIdAfter(f.content, l)
    <3>1. k \in Kind /\ e \in Seq(Entity) /\ Distinct(e)
      BY <1>1, <1>3, KindOfOneLayer
    <3>2. arenas[k] = a /\ next[l] = n
      BY <3>1
    <3>3. /\ IdsDiffer(a) /\ GensNonNull(a)
          /\ \A i \in LiveSlots(a) : \E j \in DOMAIN e : a.slots[i].id = e[j].id
      BY <3>1, RestoredIds
    <3>4. \A j \in DOMAIN e : e[j].id < n
      BY <1>1, <1>3, NextIdIsNumber
    <3> HIDE DEF arenas, next, a, e, n
    <3> QED BY <3>2, <3>3, <3>4 DEF Tidy
  <2>7. ObjectOK(b, y)
    <3>1. b \notin Work /\ b \notin Snap
      BY HandlesAssumption
    <3>2. \A l \in Layer : LayerOK(y[l], l)
      BY <2>4, <2>5, FreshLayer
    <3> HIDE DEF y
    <3> QED BY <2>5, <3>1, <3>2 DEF ObjectOK
  <2> HIDE DEF next, y, arenas
  <2>8. IdsOK'
    BY <2>1, <2>2, <2>3, <2>4, <2>5, <2>6, <2>7, FreshIds
  <2> QED BY <1>3, <2>8 DEF SavedOK
<1> QED BY <1>2, <1>3 DEF Load

LEMMA CreateIds ==
  ASSUME IInv, IdsOK, NEW t \in Thread, NEW w \in Work, WorkspaceCreate(t, w)
  PROVE  IdsOK'
<1> DEFINE ls == {"connectivity"}
           next == [l \in ls |-> 1]
           y == [l \in ls |-> Fresh(l, 1)]
           arenas == [k \in Kind |-> EmptyArena]
<1>1. w \notin DOMAIN obj /\ obj' = Put(obj, w, y) /\ heap' = Allocated(ls, arenas)
  BY DEF WorkspaceCreate
<1>2. ls \subseteq Layer
  BY KindNames
<1>3. \A k \in Kind : Sound(arenas[k]) /\ \A n : Tidy(arenas[k], n)
  BY EmptySound, EmptyTidy
<1>4. DOMAIN y = ls /\ (\A l \in ls : next[l] \in Nat) /\ \A l \in ls : y[l] = Fresh(l, next[l])
  OBVIOUS
<1>5. ObjectOK(w, y)
  <2>1. w \notin Board /\ w \notin Snap
    BY HandlesAssumption
  <2>2. LayerOK(y["connectivity"], "connectivity")
    BY <1>2, FreshLayer
  <2>3. DOMAIN y = {"connectivity"}
    OBVIOUS
  <2> HIDE DEF y
  <2> QED BY <2>1, <2>2, <2>3, KindNames DEF ObjectOK
<1>6. \A l \in ls : \A k \in Kinds[l] : Tidy(arenas[k], next[l])
  BY <1>2, <1>3, KindOfOneLayer
<1> HIDE DEF ls, next, y, arenas
<1> QED BY <1>1, <1>2, <1>3, <1>4, <1>5, <1>6, FreshIds

(* An insertion under the allocator's next id, in any of its outcomes.      *)
LEMMA WroteIds ==
  ASSUME IInv, IdsOK, NEW w \in Work \cap DOMAIN obj, NEW a, Wrote(w, a),
         Tidy(a, obj[w]["connectivity"].nextId + 1)
  PROVE  IdsOK'
<1> DEFINE n == obj[w]["connectivity"].nextId
<1>1. /\ DOMAIN obj' = DOMAIN obj
      /\ \A o \in DOMAIN obj \ {w} : LeavesAlone(o)
      /\ DOMAIN obj'[w] = {"connectivity"}
      /\ obj'[w]["connectivity"].nextId = n + 1
      /\ ArenaOf(w, "net")' = a
      /\ ArenaOf(w, "pin")' = ArenaOf(w, "pin")
  BY DEF Wrote
<1>2. ASSUME NEW o \in DOMAIN obj \ {w}, NEW l \in DOMAIN obj[o], NEW k \in Kinds[l]
      PROVE  Tidy(heap'[obj'[o][l].tables[k]], obj'[o][l].nextId)
  <2>1. obj'[o] = obj[o] /\ heap'[obj[o][l].tables[k]] = heap[obj[o][l].tables[k]]
    BY <1>1, ArenaBehind DEF LeavesAlone
  <2> QED BY <2>1 DEF IdsOK
<1>3. /\ DOMAIN obj[w] = {"connectivity"} /\ n \in Nat
      /\ ArenaOf(w, "pin") = heap[obj[w]["connectivity"].tables["pin"]]
  BY WorkspaceTables
<1>4. Kinds["connectivity"] = {"net", "pin"} /\ LayerOf("net") = "connectivity"
        /\ LayerOf("pin") = "connectivity"
  BY KindNames, KindOfOneLayer
<1>5. Tidy(ArenaOf(w, "pin"), n + 1)
  <2>1. Tidy(ArenaOf(w, "pin"), n)
    BY <1>3, <1>4 DEF IdsOK
  <2>2. Sound(ArenaOf(w, "pin"))
    BY <1>3, <1>4, ArenaBehind
  <2>3. ASSUME NEW i \in LiveSlots(ArenaOf(w, "pin"))
        PROVE  ArenaOf(w, "pin").slots[i].id < n + 1
    <3>1. ArenaOf(w, "pin").slots[i].id \in Nat
      BY <2>2, SlotFields DEF Sound, LiveSlots
    <3>2. ArenaOf(w, "pin").slots[i].id < n
      BY <2>1 DEF Tidy
    <3> QED BY <1>3, <3>1, <3>2
  <2> QED BY <2>1, <2>3 DEF Tidy
<1>6. \A k \in {"net", "pin"} :
        ArenaOf(w, k)' = heap'[obj'[w]["connectivity"].tables[k]]
  BY <1>4 DEF ArenaOf
<1>7. \A k \in {"net", "pin"} :
        Tidy(heap'[obj'[w]["connectivity"].tables[k]], obj'[w]["connectivity"].nextId)
  BY <1>1, <1>5, <1>6
<1> HIDE DEF n
<1> QED BY <1>1, <1>2, <1>4, <1>7 DEF IdsOK, LeavesAlone

LEMMA InsertNetIds ==
  ASSUME IInv, IdsOK, NEW t \in Thread, NEW w \in Work, NEW v \in Names, InsertNet(t, w, v)
  PROVE  IdsOK'
<1> DEFINE nets == ArenaOf(w, "net")
           id   == obj[w].connectivity.nextId
<1>1. /\ w \in Work \cap DOMAIN obj
      /\ \/ WriteNets(w, Insert(nets, v, id))
         \/ WriteNets(w, InsertUnindexed(nets, v, id))
         \/ WriteNets(w, nets)
         \/ Shared(w) /\ obj' = IdTaken(w) /\ UNCHANGED heap
  BY DEF InsertNet
<1>2. v \in Value
  BY ArgumentsAssumption
<1>3. /\ id \in Nat /\ Sound(nets) /\ DOMAIN obj[w] = {"connectivity"}
      /\ nets = heap[obj[w]["connectivity"].tables["net"]]
      /\ NetsOf(w) \in DOMAIN heap /\ nets = heap[NetsOf(w)]
  BY <1>1, WorkspaceTables
<1>4. Tidy(nets, id)
  <2>1. "net" \in Kinds["connectivity"]
    BY KindNames
  <2> QED BY <1>1, <1>3, <2>1 DEF IdsOK
<1>5. id = obj[w]["connectivity"].nextId /\ nets = ArenaOf(w, "net")
  OBVIOUS
<1> HIDE DEF nets, id
<1>6. \A i \in LiveSlots(nets) : nets.slots[i].id \in Nat /\ nets.slots[i].id < id
  BY <1>3, <1>4, SlotFields DEF Sound, LiveSlots, Tidy
<1>7. Tidy(nets, id + 1)
  BY <1>3, <1>4, <1>6 DEF Tidy
<1>8. Sound(Insert(nets, v, id)) /\ Tidy(Insert(nets, v, id), id + 1)
  <2> DEFINE b == Insert(nets, v, id)
  <2>1. /\ Sound(b) /\ IdsDiffer(b) /\ GensNonNull(b)
        /\ \A j \in LiveSlots(b) :
             b.slots[j].id = id \/ \E i \in LiveSlots(nets) : b.slots[j].id = nets.slots[i].id
    BY <1>2, <1>3, <1>4, <1>6, InsertSound, InsertIdsDiffer DEF Tidy
  <2> HIDE DEF b
  <2>2. \A j \in LiveSlots(b) : b.slots[j].id < id + 1
    BY <1>3, <1>6, <2>1
  <2>3. Sound(b) /\ Tidy(b, id + 1)
    BY <2>1, <2>2 DEF Tidy
  <2> QED BY <2>3 DEF b
<1>9. Sound(InsertUnindexed(nets, v, id)) /\ Tidy(InsertUnindexed(nets, v, id), id + 1)
  <2> DEFINE b == Insert(nets, v, id)
             u == InsertUnindexed(nets, v, id)
  <2>1. Sound(u)
    BY <1>2, <1>3, UnindexedEffect
  <2>2. b = [slots |-> b.slots, free |-> b.free, idIndex |-> b.idIndex]
    BY <1>8 DEF Sound, IsArena
  <2>3. u = [b EXCEPT !.idIndex = nets.idIndex]
    BY DEF InsertUnindexed
  <2> HIDE DEF b, u
  <2>4. u.slots = b.slots
    BY <2>2, <2>3
  <2>5. LiveSlots(u) = LiveSlots(b)
    BY <2>4 DEF LiveSlots, IsLive
  <2>6. Tidy(b, id + 1)
    BY <1>8 DEF b
  <2>7. Tidy(u, id + 1)
    BY <2>4, <2>5, <2>6 DEF Tidy, IdsDiffer, GensNonNull
  <2> QED BY <2>1, <2>7 DEF u
<1>10. \A a : Sound(a) /\ Tidy(a, id + 1) /\ WriteNets(w, a) => IdsOK'
  BY <1>1, <1>5, WriteNetsSound, WroteIds
<1>11. CASE Shared(w) /\ obj' = IdTaken(w) /\ UNCHANGED heap
  <2>1. heap' = [heap EXCEPT ![NetsOf(w)] = nets]
    BY <1>3, <1>11 DEF IInv, HeapOK
  <2>2. Wrote(w, nets)
    BY <1>1, <1>3, <1>5, <1>11, <2>1, InPlaceSound
  <2> QED BY <1>1, <1>5, <1>7, <2>2, WroteIds
<1> QED BY <1>1, <1>3, <1>7, <1>8, <1>9, <1>10, <1>11

LEMMA EntriesDistinct ==
  ASSUME NEW a, IsArena(a), IdsDiffer(a)
  PROVE  Distinct(Entries(a))
<1> DEFINE e == Entries(a)
<1>1. PICK pos : Lists(a, Len(a.slots), e, pos)
  BY EntriesAreLiveSlots
<1> HIDE DEF e
<1>2. e \in Seq(Slot) /\ DOMAIN e = 1 .. Len(e)
  BY <1>1 DEF Lists
<1>3. ASSUME NEW i \in DOMAIN e, NEW j \in DOMAIN e, e[i].id = e[j].id PROVE i = j
  <2>1. /\ pos[i] \in LiveSlots(a) /\ e[i] = a.slots[pos[i]]
        /\ pos[j] \in LiveSlots(a) /\ e[j] = a.slots[pos[j]]
    BY <1>1, <1>2 DEF Lists
  <2>2. pos[i] = pos[j]
    BY <1>3, <2>1 DEF IdsDiffer
  <2> QED BY <1>1, <1>2, <2>2 DEF Lists
<1>4. Distinct(e)
  BY <1>3 DEF Distinct
<1> QED BY <1>4 DEF e

LEMMA SaveIds ==
  ASSUME IInv, IdsOK, NEW t \in Thread, NEW b \in Board, SaveBytes(t, b)
  PROVE  IdsOK' /\ SavedOK'
<1>1. /\ b \in Board \cap DOMAIN obj
      /\ buffer' = {[status |-> OK, content |-> Content(b)]}
      /\ UNCHANGED <<obj, heap>>
  BY DEF SaveBytes
<1>2. ASSUME NEW k \in Kind PROVE Distinct(Content(b)[k])
  <2>1. DOMAIN obj[b] = Layer
    BY <1>1 DEF IInv, ObjOK, ObjectOK
  <2>2. PICK l \in DOMAIN obj[b] : k \in Kinds[l]
    BY <2>1, LayerOfKind
  <2>3. /\ k \in KindsOf(b) /\ Sound(ArenaOf(b, k))
        /\ ArenaOf(b, k) = heap[obj[b][l].tables[k]]
    BY <1>1, <2>2, ArenaBehind
  <2>4. Tidy(ArenaOf(b, k), obj[b][l].nextId)
    BY <1>1, <2>2, <2>3 DEF IdsOK
  <2> DEFINE e == Entries(ArenaOf(b, k))
  <2>5. Content(b)[k] = [i \in DOMAIN e |-> [id |-> e[i].id, value |-> e[i].value]]
    BY <2>3 DEF Content
  <2>6. Distinct(e)
    BY <2>3, <2>4, EntriesDistinct DEF Tidy, Sound
  <2> HIDE DEF e
  <2> QED BY <2>5, <2>6 DEF Distinct
<1>3. SavedOK'
  BY <1>1, <1>2 DEF SavedOK
<1>4. IdsOK'
  BY <1>1, SharedIds
<1> QED BY <1>3, <1>4

LEMMA NothingMovesIds ==
  ASSUME IdsOK, SavedOK, UNCHANGED <<obj, heap, buffer>>
  PROVE  IdsOK' /\ SavedOK'
BY SharedIds DEF SavedOK

(* A handle made with no table of its own has the layers of others.         *)
LEMMA SharingCallIds ==
  ASSUME IInv, IdsOK, NEW t \in Thread,
         \/ \E b \in Board, l \in Layer, s \in Snap : BoardLayer(t, b, l, s)
         \/ \E b, c \in Board, s \in Snap : WithConnectivity(t, b, s, c)
         \/ \E w \in Work, s \in Snapshots("net") : WorkspaceFromSnapshot(t, s, w)
         \/ \E w \in Work, s \in Snap : WorkspaceCommit(t, w, s)
  PROVE  IdsOK' /\ UNCHANGED buffer
<1>1. ASSUME NEW b \in Board, NEW l \in Layer, NEW s \in Snap, BoardLayer(t, b, l, s)
      PROVE  IdsOK' /\ UNCHANGED buffer
  <2> DEFINE y == [m \in {l} |-> obj[b][m]]
  <2>1. b \in DOMAIN obj /\ obj' = Put(obj, s, y) /\ UNCHANGED <<heap, buffer>>
    BY <1>1 DEF BoardLayer
  <2>2. l \in DOMAIN obj[b]
    BY <2>1 DEF IInv, ObjOK, ObjectOK
  <2>3. DOMAIN y = {l} /\ y[l] = obj[b][l]
    OBVIOUS
  <2> HIDE DEF y
  <2>4. \A m \in DOMAIN y : \E x \in DOMAIN obj : m \in DOMAIN obj[x] /\ y[m] = obj[x][m]
    BY <2>1, <2>2, <2>3
  <2> QED BY <2>1, <2>4, SharingIds
<1>2. ASSUME NEW b \in Board, NEW c \in Board, NEW s \in Snap, WithConnectivity(t, b, s, c)
      PROVE  IdsOK' /\ UNCHANGED buffer
  <2> DEFINE y == [obj[b] EXCEPT !.connectivity = obj[s].connectivity]
  <2>1. /\ b \in Board \cap DOMAIN obj /\ s \in Snapshots("net")
        /\ obj' = Put(obj, c, y) /\ UNCHANGED <<heap, buffer>>
    BY <1>2 DEF WithConnectivity
  <2>2. "connectivity" \in Layer /\ "net" \in Kinds["connectivity"]
    BY KindNames
  <2>3. s \in DOMAIN obj /\ "connectivity" \in DOMAIN obj[s]
    BY <2>1, <2>2, SnapshotRead
  <2>4. DOMAIN obj[b] = Layer
    BY <2>1 DEF IInv, ObjOK, ObjectOK
  <2>5. /\ DOMAIN y = Layer
        /\ y["connectivity"] = obj[s]["connectivity"]
        /\ \A l \in Layer \ {"connectivity"} : y[l] = obj[b][l]
    BY <2>2, <2>4
  <2> HIDE DEF y
  <2>6. \A m \in DOMAIN y : \E x \in DOMAIN obj : m \in DOMAIN obj[x] /\ y[m] = obj[x][m]
    BY <2>1, <2>3, <2>4, <2>5
  <2> QED BY <2>1, <2>6, SharingIds
<1>3. ASSUME NEW w \in Work, NEW s \in Snapshots("net"), WorkspaceFromSnapshot(t, s, w)
      PROVE  IdsOK' /\ UNCHANGED buffer
  <2>1. obj' = Put(obj, w, obj[s]) /\ UNCHANGED <<heap, buffer>>
    BY <1>3 DEF WorkspaceFromSnapshot
  <2>2. s \in DOMAIN obj
    BY DEF Snapshots
  <2> QED BY <2>1, <2>2, SharingIds
<1>4. ASSUME NEW w \in Work, NEW s \in Snap, WorkspaceCommit(t, w, s)
      PROVE  IdsOK' /\ UNCHANGED buffer
  <2>1. w \in DOMAIN obj /\ obj' = Put(obj, s, obj[w]) /\ UNCHANGED <<heap, buffer>>
    BY <1>4 DEF WorkspaceCommit
  <2> QED BY <2>1, SharingIds
<1> QED BY <1>1, <1>2, <1>3, <1>4

LEMMA FreeIds ==
  ASSUME IdsOK, NEW o, Free(o)
  PROVE  IdsOK' /\ UNCHANGED buffer
<1>1. /\ obj' = [x \in DOMAIN obj \ {o} |-> obj[x]]
      /\ heap' = [p \in Referenced(obj') |-> heap[p]]
      /\ UNCHANGED buffer
  BY DEF Free
<1>2. DOMAIN obj' \subseteq DOMAIN obj /\ \A x \in DOMAIN obj' : obj'[x] = obj[x]
  BY <1>1
<1>3. \A p \in Referenced(obj') : heap'[p] = heap[p]
  BY <1>1
<1> QED BY <1>1, <1>2, <1>3, SharedIds

(* Read calls give out what is there and change no table.                   *)
LEMMA ReadCallMovesNothing ==
  ASSUME NEW t \in Thread, ReadCall(t) \/ NullArgument(t) \/ Throws(t)
  PROVE  UNCHANGED <<obj, heap, buffer>>
<1>1. \A status : Answer(t, status) => UNCHANGED <<obj, heap, buffer>>
  BY DEF Answer, state
<1>2. \A s, k : Lookup(t, s, k) => UNCHANGED <<obj, heap, buffer>>
  BY <1>1 DEF Lookup, NullArgument
<1>3. \A s, k : ReadField(t, s, k) => UNCHANGED <<obj, heap, buffer>>
  BY <1>1 DEF ReadField
<1>4. \A s, k : ReadName(t, s, k) => UNCHANGED <<obj, heap, buffer>>
  BY <1>1 DEF ReadName
<1>5. \A d : DiagnosticsCalls(t, d) => UNCHANGED <<obj, heap, buffer>>
  BY <1>1 DEF DiagnosticsCalls, Validate, DiagnosticsAt, DiagnosticsFree
<1>6. CASE NullArgument(t) \/ Throws(t)
  BY <1>1, <1>6 DEF NullArgument, Throws
<1>7. CASE \E s \in Snapshots("net") : NetCalls(t, s) \/ PinCalls(t, s)
  BY <1>2, <1>3, <1>4, <1>7 DEF NetCalls, PinCalls
<1>8. CASE \E s \in Snapshots("via") : ViaCalls(t, s)
  BY <1>2, <1>3, <1>4, <1>8 DEF ViaCalls
<1>9. CASE \E s \in Snapshots("layer") : MaterialCalls(t, s) \/ LayerCalls(t, s)
  BY <1>2, <1>3, <1>4, <1>9 DEF MaterialCalls, LayerCalls
<1>10. CASE \E s \in Snap, d \in List : \/ GeometryDiagnostics(t, s, d)
                                        \/ ConnectivityDiagnostics(t, s, d)
                                        \/ StackupDiagnostics(t, s, d)
  BY <1>5, <1>10 DEF GeometryDiagnostics, ConnectivityDiagnostics, StackupDiagnostics
<1> QED BY <1>6, <1>7, <1>8, <1>9, <1>10 DEF ReadCall

(* Every call keeps the ids of a table apart, and below the allocator.      *)
LEMMA StepIds ==
  ASSUME FilesDistinct, IInv, IdsOK, SavedOK, Next
  PROVE  IdsOK' /\ SavedOK'
<1>1. PICK t \in Thread :
        BoardCall(t) \/ ReadCall(t) \/ WorkspaceCall(t) \/ NullArgument(t) \/ Throws(t)
  BY DEF Next
<1>2. CASE ReadCall(t) \/ NullArgument(t) \/ Throws(t)
  BY <1>2, ReadCallMovesNothing, NothingMovesIds
<1>3. CASE LoadFile(t) \/ LoadBytes(t)
  <2>1. PICK f \in Files \cup buffer : Load(t, f)
    BY <1>3 DEF LoadFile, LoadBytes
  <2> QED BY <2>1, LoadIds
<1>4. CASE BytesFree
  <2>1. buffer' = {} /\ UNCHANGED <<obj, heap>>
    BY <1>4 DEF BytesFree
  <2> QED BY <2>1, SharedIds DEF SavedOK
<1>5. ASSUME NEW b \in Board, SaveBytes(t, b) PROVE IdsOK' /\ SavedOK'
  BY <1>5, SaveIds
<1>6. ASSUME NEW b \in Board, FormatVersion(t, b) PROVE IdsOK' /\ SavedOK'
  BY <1>6, NothingMovesIds DEF FormatVersion, Answer, state
<1>7. CASE \/ \E b \in Board, l \in Layer, s \in Snap : BoardLayer(t, b, l, s)
           \/ \E b, c \in Board, s \in Snap : WithConnectivity(t, b, s, c)
           \/ \E w \in Work, s \in Snapshots("net") : WorkspaceFromSnapshot(t, s, w)
           \/ \E w \in Work, s \in Snap : WorkspaceCommit(t, w, s)
  BY <1>7, SharingCallIds DEF SavedOK
<1>8. CASE \E o \in Board \cup Snap \cup Work : Free(o)
  BY <1>8, FreeIds DEF SavedOK
<1>9. ASSUME NEW w \in Work, WorkspaceCreate(t, w) PROVE IdsOK' /\ SavedOK'
  BY <1>9, CreateIds DEF WorkspaceCreate, SavedOK
<1>10. ASSUME NEW w \in Work, NEW v \in Names, InsertNet(t, w, v) PROVE IdsOK' /\ SavedOK'
  BY <1>10, InsertNetIds DEF InsertNet, SavedOK
<1>11. CASE BoardCall(t)
  BY <1>3, <1>4, <1>5, <1>6, <1>7, <1>8, <1>11 DEF BoardCall
<1>12. CASE WorkspaceCall(t)
  BY <1>7, <1>9, <1>10, <1>12 DEF WorkspaceCall
<1> QED BY <1>1, <1>2, <1>11, <1>12

LEMMA IdsInvariance == FilesDistinct /\ Spec => [](IInv /\ IdsOK /\ SavedOK)
<1> DEFINE J == FilesDistinct /\ IInv /\ IdsOK /\ SavedOK
<1>1. FilesDistinct /\ Init => J
  <2> SUFFICES ASSUME FilesDistinct, Init PROVE J
    OBVIOUS
  <2>1. obj = << >> /\ buffer = {} /\ DOMAIN << >> = {}
    BY DEF Init
  <2> QED BY <2>1, InitSound DEF IdsOK, SavedOK
<1>2. J /\ [Next]_vars => J'
  <2> SUFFICES ASSUME J, [Next]_vars PROVE J'
    OBVIOUS
  <2>1. FilesDistinct'
    BY DEF FilesDistinct
  <2>2. CASE Next
    BY <2>1, <2>2, StepSound, StepIds
  <2>3. CASE UNCHANGED vars
    <3>1. UNCHANGED <<obj, heap, buffer>>
      BY <2>3 DEF vars
    <3> QED BY <2>1, <2>3, <3>1, StutterSound, NothingMovesIds
  <2> QED BY <2>2, <2>3
<1>3. J => IInv /\ IdsOK /\ SavedOK
  OBVIOUS
<1> HIDE DEF J
<1>4. FilesDistinct /\ Spec => []J
  BY <1>1, <1>2, PTL DEF Spec
<1> QED BY <1>3, <1>4, PTL

-----------------------------------------------------------------------------
(* What a table whose ids differ answers, position by position.             *)

LEMMA HandleOfPosition ==
  ASSUME NEW a, Sound(a), IdsDiffer(a), GensNonNull(a), NEW i \in 0 .. Len(Entries(a)) - 1
  PROVE  LET id == Entries(a)[i + 1].id
             h  == HandleAt(a, i)
         IN  /\ id \in DOMAIN a.idIndex <=> h # NullHandle
             /\ id \in DOMAIN a.idIndex => IdOf(a, h) = id /\ Find(a, id) = h
<1> DEFINE id == Entries(a)[i + 1].id
           h == HandleAt(a, i)
<1>1. Entries(a) \in Seq(Slot) /\ Len(Entries(a)) \in Nat
  BY EntriesTyped DEF Sound
<1>2. h = Find(a, id)
  BY <1>1 DEF HandleAt
<1> HIDE DEF id, h
<1>3. CASE id \in DOMAIN a.idIndex
  <2>1. h = [index |-> a.idIndex[id], gen |-> a.slots[a.idIndex[id]].gen]
    BY <1>2, <1>3 DEF Find
  <2>2. /\ a.idIndex[id] \in LiveSlots(a) /\ a.slots[a.idIndex[id]].id = id
        /\ a.slots[a.idIndex[id]].gen # 0
    BY <1>3 DEF Sound, IndexSound, GensNonNull
  <2>3. a.idIndex[id] \in Nat \ {0}
    BY <2>2, SlotFields DEF Sound, LiveSlots
  <2>4. h # NullHandle
    BY <2>1, <2>3 DEF NullHandle
  <2>5. Located(a, h)
    BY <2>1, <2>2 DEF Located, LiveSlots
  <2>6. IdOf(a, h) = a.slots[h.index].id
    BY <2>5 DEF IdOf
  <2>7. IdOf(a, h) = id
    BY <2>1, <2>2, <2>6
  <2> QED BY <1>2, <1>3, <2>4, <2>7 DEF id, h
<1>4. CASE id \notin DOMAIN a.idIndex
  BY <1>2, <1>4 DEF Find, id, h
<1> QED BY <1>3, <1>4 DEF id, h

LEMMA PositionsOfTable ==
  ASSUME NEW a, Sound(a), IdsDiffer(a), GensNonNull(a)
  PROVE  LET answered == {i \in 0 .. Len(Entries(a)) - 1 : HandleAt(a, i) # NullHandle}
         IN  /\ Cardinality(answered) = Size(a)
             /\ \A i \in answered :
                  /\ IdOf(a, HandleAt(a, i)) = Entries(a)[i + 1].id
                  /\ Find(a, IdOf(a, HandleAt(a, i))) = HandleAt(a, i)
             /\ \A i \in Positions \ answered : HandleAt(a, i) = NullHandle
<1> DEFINE e == Entries(a)
           answered == {i \in 0 .. Len(e) - 1 : HandleAt(a, i) # NullHandle}
<1>1. PICK pos : Lists(a, Len(a.slots), e, pos)
  BY EntriesAreLiveSlots DEF Sound
<1>2. /\ e \in Seq(Slot) /\ Len(e) \in Nat
      /\ pos \in [1 .. Len(e) -> LiveSlots(a) \cap (1 .. Len(a.slots))]
      /\ \A j \in 1 .. Len(e) : e[j] = a.slots[pos[j]]
      /\ \A i \in LiveSlots(a) \cap (1 .. Len(a.slots)) : \E j \in 1 .. Len(e) : pos[j] = i
      /\ \A j, k \in 1 .. Len(e) : pos[j] = pos[k] => j = k
  <2> HIDE DEF e
  <2> QED BY <1>1 DEF Lists
<1>3. \A i \in answered : /\ i \in 0 .. Len(e) - 1
                          /\ i + 1 \in 1 .. Len(e)
                          /\ e[i + 1].id \in DOMAIN a.idIndex
                          /\ IdOf(a, HandleAt(a, i)) = e[i + 1].id
                          /\ Find(a, e[i + 1].id) = HandleAt(a, i)
  <2> SUFFICES ASSUME NEW i \in 0 .. Len(e) - 1, HandleAt(a, i) # NullHandle
               PROVE  /\ i + 1 \in 1 .. Len(e)
                      /\ e[i + 1].id \in DOMAIN a.idIndex
                      /\ IdOf(a, HandleAt(a, i)) = e[i + 1].id
                      /\ Find(a, e[i + 1].id) = HandleAt(a, i)
    OBVIOUS
  <2>1. i + 1 \in 1 .. Len(e)
    BY <1>2
  <2> QED BY <2>1, HandleOfPosition
<1>4. \A i \in 0 .. Len(e) - 1 : e[i + 1].id \in DOMAIN a.idIndex => i \in answered
  BY HandleOfPosition
<1>5. \A i \in Positions \ answered : HandleAt(a, i) = NullHandle
  <2> SUFFICES ASSUME NEW i \in Positions, i \notin answered, i < Len(e)
               PROVE  HandleAt(a, i) = NullHandle
    BY DEF HandleAt
  <2>1. i \in 0 .. Len(e) - 1
    BY <1>2, ArgumentsAssumption
  <2> QED BY <2>1
<1> HIDE DEF answered, e
<1> DEFINE f == [i \in answered |-> e[i + 1].id]
<1>6. f \in Bijection(answered, DOMAIN a.idIndex)
  <2>1. f \in [answered -> DOMAIN a.idIndex]
    BY <1>3
  <2>2. ASSUME NEW i \in answered, NEW j \in answered, f[i] = f[j] PROVE i = j
    <3>1. e[i + 1].id = e[j + 1].id /\ i + 1 \in 1 .. Len(e) /\ j + 1 \in 1 .. Len(e)
      BY <1>3, <2>2
    <3>2. pos[i + 1] = pos[j + 1]
      BY <1>2, <3>1 DEF IdsDiffer
    <3>3. i + 1 = j + 1
      BY <1>2, <3>1, <3>2
    <3> QED BY <1>3, <3>3
  <2>3. ASSUME NEW id \in DOMAIN a.idIndex PROVE \E i \in answered : f[i] = id
    <3>1. a.idIndex[id] \in LiveSlots(a) /\ a.slots[a.idIndex[id]].id = id
      BY DEF Sound, IndexSound
    <3>2. a.idIndex[id] \in 1 .. Len(a.slots)
      BY <3>1 DEF Sound, IsArena, LiveSlots
    <3>3. PICK j \in 1 .. Len(e) : pos[j] = a.idIndex[id]
      BY <1>2, <3>1, <3>2
    <3>4. PICK i \in 0 .. Len(e) - 1 : i + 1 = j
      <4>1. j - 1 \in 0 .. Len(e) - 1 /\ (j - 1) + 1 = j
        BY <1>2
      <4> QED BY <4>1
    <3>5. e[i + 1].id = id
      BY <1>2, <3>1, <3>3, <3>4
    <3>6. i \in answered
      BY <1>4, <3>5
    <3> QED BY <3>5, <3>6
  <2> HIDE DEF f
  <2> QED BY <2>1, <2>2, <2>3, Fun_IsBij
<1>7. IsFiniteSet(answered)
  <2>1. answered \subseteq 0 .. Len(e) - 1
    BY DEF answered
  <2>2. IsFiniteSet(0 .. Len(e) - 1)
    BY <1>2, FS_Interval
  <2> QED BY <2>1, <2>2, FS_Subset
<1>8. Cardinality(answered) = Size(a)
  <2> HIDE DEF f
  <2>1. ExistsBijection(answered, DOMAIN a.idIndex)
    BY <1>6 DEF ExistsBijection
  <2> QED BY <1>7, <2>1, FS_Bijection DEF Size
<1>9. \A i \in answered :
        /\ IdOf(a, HandleAt(a, i)) = e[i + 1].id
        /\ Find(a, IdOf(a, HandleAt(a, i))) = HandleAt(a, i)
  BY <1>3
<1> QED BY <1>5, <1>8, <1>9 DEF e, answered

(* Whoever walks a snapshot by position is given each entity it can look up *)
(* once, under its own id, and the count is the number of answers: of any   *)
(* files in which no table repeats an id, whatever the calls and wherever   *)
(* an insertion ran out of memory.                                          *)
THEOREM PositionsAreSound == FilesDistinct /\ Spec => []PositionsSound
<1>1. IInv /\ IdsOK /\ SavedOK => PositionsSound
  <2> SUFFICES ASSUME IInv, IdsOK, NEW k \in Kind, NEW s \in Snapshots(k)
               PROVE  LET a        == ArenaOf(s, k)
                          answered == {i \in 0 .. Len(Entries(a)) - 1 :
                                         HandleAt(a, i) # NullHandle}
                      IN  /\ Cardinality(answered) = Size(a)
                          /\ \A i \in answered :
                               /\ IdOf(a, HandleAt(a, i)) = Entries(a)[i + 1].id
                               /\ Find(a, IdOf(a, HandleAt(a, i))) = HandleAt(a, i)
                          /\ \A i \in Positions \ answered : HandleAt(a, i) = NullHandle
    BY DEF PositionsSound
  <2>1. LayerOf(k) \in Layer /\ k \in Kinds[LayerOf(k)]
    BY LayerOfKind
  <2>2. s \in DOMAIN obj /\ LayerOf(k) \in DOMAIN obj[s]
    BY <2>1, SnapshotRead
  <2>3. Sound(ArenaOf(s, k)) /\ ArenaOf(s, k) = heap[obj[s][LayerOf(k)].tables[k]]
    BY <2>1, <2>2, ArenaBehind
  <2>4. IdsDiffer(ArenaOf(s, k)) /\ GensNonNull(ArenaOf(s, k))
    BY <2>1, <2>2, <2>3 DEF IdsOK, Tidy
  <2> QED BY <2>3, <2>4, PositionsOfTable
<1> QED BY <1>1, IdsInvariance, PTL
=============================================================================
