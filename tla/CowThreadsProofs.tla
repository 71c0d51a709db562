--------------------------- MODULE CowThreadsProofs --------------------------
(***************************************************************************)
(* For any number of threads, snapshots, workspaces, tables and addresses: *)
(* the use counts are exact, an arena edited in place is nobody else's, and *)
(* readers see the store of SnapshotStore.  The argument follows the       *)
(* references: every step adds one, drops one, exchanges two, or moves all *)
(* those of an object to a thread or back, and no step of another thread   *)
(* gives an arena that write() found unshared a second reference, because  *)
(* only its workspace's user could copy it (OneUser, Sole).                *)
(***************************************************************************)
EXTENDS CowThreads, ArenaOpsProofs, FiniteSetTheorems

(* x's table t refers to the arena at p: x is an object, or a thread that   *)
(* holds the reference itself.                                              *)
Ref(x, t, p) ==
  /\ t \in Table
  /\ \/ x \in DOMAIN obj /\ obj[x].tables[t] = p
     \/ x \in Thread /\ t \in DOMAIN task[x].held /\ task[x].held[t] = p

StoreOK ==
  /\ DOMAIN obj \subseteq Owner
  /\ obj \in [DOMAIN obj -> Object]
  /\ DOMAIN heap \subseteq Addr
  /\ heap = [p \in DOMAIN heap |-> heap[p]]
  /\ \A p \in DOMAIN heap : IsArena(heap[p]) /\ FreeExact(heap[p])
  /\ count \in [DOMAIN heap -> Nat \ {0}]
  /\ task = [th \in Thread |-> task[th]]

(* A thread that reads, or a step of write(), has one object and one table. *)
At(k, o, t) == k.on = {o} /\ k.to = {} /\ k.at = {t}

Reading(k)  == k.op = "read" /\ k.held = Nothing
               /\ \E s \in Snap \cap DOMAIN obj, t \in Table : At(k, s, t)
Writing(k)  == k.op \in {"check", "clone", "edit"} /\ k.held = Nothing
               /\ \E w \in Work \cap DOMAIN obj, t \in Table : At(k, w, t)
Swapping(k) == k.op \in {"swap", "drop"}
               /\ \E w \in Work \cap DOMAIN obj, t \in Table :
                    At(k, w, t) /\ DOMAIN k.held = {t}
Copying(k)  == k.op = "copy" /\ k.at = {}
               /\ \E o \in DOMAIN obj, p \in Owner \ DOMAIN obj :
                    /\ k.on = {o} /\ k.to = {p}
                    /\ \A t \in DOMAIN k.held : k.held[t] = obj[o].tables[t]
Destroying(k) == k.op = "destroy" /\ k.on = {} /\ k.to = {} /\ k.at = {}

TaskOK(k) ==
  /\ k = Task(k.op, k.on, k.to, k.at, k.held)
  /\ k.held = [t \in DOMAIN k.held |-> k.held[t]]
  /\ DOMAIN k.held \subseteq Table
  /\ k = Idle \/ Reading(k) \/ Writing(k) \/ Swapping(k) \/ Copying(k) \/ Destroying(k)

(* A workspace, and an object that is being made, is used by one thread.    *)
OneUser ==
  \A th, other \in Thread : \A o \in task[th].on \cup task[th].to :
    /\ o \in task[other].on \cup task[other].to
    /\ o \in Work \/ o \in task[th].to
    => th = other

(* No reference dangles. *)
NoDangling ==
  /\ \A o \in DOMAIN obj, t \in Table : obj[o].tables[t] \in DOMAIN heap
  /\ \A th \in Thread : \A t \in DOMAIN task[th].held : task[th].held[t] \in DOMAIN heap

(* Tables of different types never share an arena. *)
TablesApart ==
  \A x, y \in Owner \cup Thread, t, u \in Table, p \in DOMAIN heap :
    Ref(x, t, p) /\ Ref(y, u, p) => t = u

Counted ==
  \A p \in DOMAIN heap :
    IsFiniteSet(References(p)) /\ count[p] = Cardinality(References(p))

(* Once write() has seen a count of 1, or has put its clone in place, its   *)
(* workspace's is the only reference; before that, the clone is the         *)
(* thread's alone and still equal to the arena it was made from.            *)
Sole(th) ==
  \A w \in task[th].on, t \in task[th].at :
    /\ task[th].op \in {"edit", "drop"} =>
         \A x \in Owner \cup Thread, u \in Table :
           Ref(x, u, obj[w].tables[t]) => x = w
    /\ task[th].op = "swap" =>
         /\ heap[task[th].held[t]] = heap[obj[w].tables[t]]
         /\ \A x \in Owner \cup Thread, u \in Table :
              Ref(x, u, task[th].held[t]) => x = th

IInv ==
  /\ StoreOK
  /\ \A th \in Thread : TaskOK(task[th])
  /\ OneUser
  /\ NoDangling
  /\ TablesApart
  /\ Counted
  /\ \A th \in Thread : Sole(th)

-----------------------------------------------------------------------------
(* Sets of references and their sizes.                                      *)

LEMMA SwapElement ==
  ASSUME NEW S, IsFiniteSet(S), NEW x \in S, NEW y, y \notin S
  PROVE  LET R == (S \ {x}) \cup {y}
         IN  IsFiniteSet(R) /\ Cardinality(R) = Cardinality(S)
<1>1. /\ IsFiniteSet(S \ {x})
      /\ Cardinality(S \ {x}) = Cardinality(S) - 1
  BY FS_RemoveElement
<1>2. /\ IsFiniteSet((S \ {x}) \cup {y})
      /\ Cardinality((S \ {x}) \cup {y}) = Cardinality(S \ {x}) + 1
  BY <1>1, FS_AddElement
<1>3. Cardinality(S) \in Nat
  BY FS_CardinalityType
<1> QED BY <1>1, <1>2, <1>3

LEMMA OnlyElement ==
  ASSUME NEW S, IsFiniteSet(S), Cardinality(S) = 1, NEW x \in S
  PROVE  S = {x}
<1>1. IsFiniteSet(S \ {x}) /\ Cardinality(S \ {x}) = 0
  BY FS_RemoveElement
<1>2. S \ {x} = {}
  BY <1>1, FS_EmptySet
<1> QED BY <1>2

(* References(p) is the set of the pairs for which Ref holds. *)
RefsPaired ==
  \A p : /\ \A x, t : <<x, t>> \in References(p) <=> Ref(x, t, p)
         /\ \A r \in References(p) : \E x, t : r = <<x, t>>

LEMMA RefsArePairs == RefsPaired
BY DEF RefsPaired, References, Ref

LEMMA RefsArePairsNext == RefsPaired'
BY RefsArePairs, PTL

LEMMA RefFacts ==
  ASSUME IInv
  PROVE  \A x, t, p :
           Ref(x, t, p) =>
             /\ x \in Owner \cup Thread
             /\ t \in Table
             /\ p \in DOMAIN heap
             /\ \A q : Ref(x, t, q) => p = q
             /\ \A y, u : Ref(y, u, p) => t = u
<1>1. ASSUME NEW x, NEW t, NEW p, Ref(x, t, p)
      PROVE  /\ x \in Owner \cup Thread
             /\ t \in Table
             /\ p \in DOMAIN heap
             /\ \A q : Ref(x, t, q) => p = q
  BY <1>1, ThreadAssumption DEF IInv, StoreOK, NoDangling, Ref, Owner
<1>2. \A x, y, t, u, p : Ref(x, t, p) /\ Ref(y, u, p) => t = u
  <2>1. TablesApart
    BY DEF IInv
  <2> QED BY <1>1, <2>1 DEF TablesApart
<1> QED BY <1>1, <1>2

(* What a thread is doing says which objects it uses. *)
LEMMA TaskKinds ==
  ASSUME StoreOK, NEW k, TaskOK(k)
  PROVE  /\ k.op \in {"idle", "read", "check", "clone", "swap", "drop",
                      "edit", "copy", "destroy"}
         /\ k.on \cup k.to \subseteq Owner
         /\ k.on \subseteq DOMAIN obj
         /\ k.to \cap DOMAIN obj = {}
         /\ k.at \subseteq Table
         /\ k.op = "idle" => k = Idle
         /\ k.op = "read" => Reading(k)
         /\ k.op \in {"check", "clone", "edit"} => Writing(k)
         /\ k.op \in {"swap", "drop"} => Swapping(k)
         /\ k.op = "copy" => Copying(k)
         /\ k.op = "destroy" => Destroying(k)
<1>1. CASE k = Idle
  BY <1>1 DEF Idle
<1>2. CASE Reading(k)
  BY <1>2 DEF Reading, At, StoreOK, Owner
<1>3. CASE Writing(k)
  BY <1>3 DEF Writing, At, StoreOK, Owner
<1>4. CASE Swapping(k)
  BY <1>4 DEF Swapping, At, StoreOK, Owner
<1>5. CASE Copying(k)
  BY <1>5 DEF Copying, StoreOK
<1>6. CASE Destroying(k)
  BY <1>6 DEF Destroying
<1> QED BY <1>1, <1>2, <1>3, <1>4, <1>5, <1>6 DEF TaskOK

(* The same reference twice is one reference. *)
LEMMA SameRefs ==
  ASSUME NEW p, NEW q, \A x, t : Ref(x, t, p)' <=> Ref(x, t, q)
  PROVE  References(p)' = References(q)
<1>1. ASSUME NEW r PROVE r \in References(p)' <=> r \in References(q)
  BY RefsArePairs, RefsArePairsNext DEF RefsPaired
<1> QED BY <1>1

-----------------------------------------------------------------------------
(* What every step of a thread leaves alone.                                *)

Uses(th) == task[th].on \cup task[th].to

(* The objects other threads use stay, and stay on their arenas. *)
OthersKept(th) ==
  \A other \in Thread \ {th} : \A o \in Uses(other) :
    /\ o \in DOMAIN obj' <=> o \in DOMAIN obj
    /\ o \in DOMAIN obj => obj'[o].tables = obj[o].tables

(* A reference th has made leads to a new arena, or to one that th, or an  *)
(* object no other thread writes to, already referred to at that table.     *)
RefsFromOwn(th) ==
  \A x, t, p :
    Ref(x, t, p)' =>
      \/ Ref(x, t, p)
      \/ p \notin DOMAIN heap
      \/ \E y : /\ Ref(y, t, p)
                /\ \/ y = th
                   \/ /\ y \in Owner
                      /\ \A other \in Thread \ {th} :
                           y \notin Work \/ y \notin task[other].on

(* An arena keeps its content while something th does not use refers to it. *)
HeapKept(th) ==
  \A y, t, p :
    /\ Ref(y, t, p)
    /\ Ref(y, t, p)'
    /\ y \notin task[th].on
    => p \in DOMAIN heap' /\ heap'[p] = heap[p]

LEMMA TaskFacts ==
  ASSUME StoreOK, NEW th \in Thread, NEW k, Go(th, k)
  PROVE  /\ task' = [x \in Thread |-> task'[x]]
         /\ task'[th] = k
         /\ \A other \in Thread \ {th} : task'[other] = task[other]
BY DEF StoreOK, Go

LEMMA TasksKept ==
  ASSUME \A x \in Thread : TaskOK(task[x]),
         NEW th \in Thread,
         \A other \in Thread \ {th} : task'[other] = task[other],
         OthersKept(th), TaskOK(task[th])'
  PROVE  \A x \in Thread : TaskOK(task[x])'
<1> SUFFICES ASSUME NEW x \in Thread \ {th}
             PROVE  TaskOK(task[x])'
  OBVIOUS
<1> DEFINE k == task[x]
<1>1. TaskOK(k) /\ k' = k
  OBVIOUS
<1>2. \A o \in k.on \cup k.to :
        /\ o \in DOMAIN obj' <=> o \in DOMAIN obj
        /\ o \in DOMAIN obj => obj'[o].tables = obj[o].tables
  BY DEF OthersKept, Uses
<1> HIDE DEF k
<1>3. Reading(k) => Reading(k)'
  BY <1>1, <1>2 DEF Reading, At
<1>4. Writing(k) => Writing(k)'
  BY <1>1, <1>2 DEF Writing, At
<1>5. Swapping(k) => Swapping(k)'
  BY <1>1, <1>2 DEF Swapping, At
<1>6. Copying(k) => Copying(k)'
  BY <1>1, <1>2 DEF Copying
<1>7. Destroying(k) => Destroying(k)'
  BY <1>1 DEF Destroying
<1>8. TaskOK(k)'
  BY <1>1, <1>3, <1>4, <1>5, <1>6, <1>7 DEF TaskOK
<1> QED BY <1>8 DEF k

(* A step that takes no object, or only objects nobody else may be using.   *)
LEMMA OneUserKept ==
  ASSUME OneUser, NEW th \in Thread,
         \A other \in Thread \ {th} : task'[other] = task[other],
         Uses(th)' \subseteq Uses(th), task'[th].to \subseteq task[th].to
  PROVE  OneUser'
BY DEF OneUser, Uses

LEMMA OneUserTaken ==
  ASSUME OneUser, NEW th \in Thread,
         \A other \in Thread \ {th} : task'[other] = task[other],
         \A other \in Thread \ {th} : \A o \in Uses(th)' \cap Uses(other) :
            o \notin Work /\ o \notin task'[th].to /\ o \notin task[other].to
  PROVE  OneUser'
BY DEF OneUser, Uses

(* No step of another thread ends an arena's being unshared. *)
LEMMA SoleKept ==
  ASSUME IInv, NEW th \in Thread,
         \A other \in Thread \ {th} : task'[other] = task[other],
         OthersKept(th), RefsFromOwn(th), HeapKept(th), Sole(th)'
  PROVE  \A x \in Thread : Sole(x)'
<1> SUFFICES ASSUME NEW x \in Thread \ {th}
             PROVE  Sole(x)'
  OBVIOUS
<1>1. /\ StoreOK /\ OneUser /\ NoDangling /\ Sole(x)
      /\ TaskOK(task[x]) /\ TaskOK(task[th])
      /\ task'[x] = task[x]
      /\ \A y, u, p : Ref(y, u, p) => y \in Owner \cup Thread /\ u \in Table
  BY RefFacts DEF IInv
<1> SUFFICES ASSUME NEW w \in task[x].on, NEW t \in task[x].at,
                    task[x].op \in {"edit", "drop", "swap"}
             PROVE  /\ task[x].op \in {"edit", "drop"} =>
                         \A y \in Owner \cup Thread, u \in Table :
                           Ref(y, u, obj[w].tables[t])' => y = w
                    /\ task[x].op = "swap" =>
                         /\ heap'[task[x].held[t]] = heap'[obj'[w].tables[t]]
                         /\ \A y \in Owner \cup Thread, u \in Table :
                              Ref(y, u, task[x].held[t])' => y = x
  BY <1>1 DEF Sole
<1>2. /\ w \in Work /\ w \in DOMAIN obj /\ w \in DOMAIN obj' /\ t \in Table
      /\ task[x].op \in {"swap", "drop"} => DOMAIN task[x].held = {t}
      /\ obj'[w].tables = obj[w].tables
  <2>1. Writing(task[x]) \/ Swapping(task[x])
    BY <1>1, TaskKinds
  <2> QED BY <2>1, <1>1 DEF Writing, Swapping, At, OthersKept, Uses
<1>3. w \notin task[th].on
  BY <1>1, <1>2 DEF OneUser
<1>4. PICK p : p = obj[w].tables[t] /\ p = obj'[w].tables[t]
  BY <1>2
<1>5. PICK q : q = task[x].held[t] /\ q = task'[x].held[t]
  BY <1>1
<1>6. Ref(w, t, p) /\ Ref(w, t, p)' /\ p \in DOMAIN heap
  BY <1>1, <1>2, <1>4 DEF Ref, NoDangling
<1>7. w \in Owner /\ w \notin Thread /\ x \notin Owner
  BY <1>2, ThreadAssumption DEF Owner
<1>8. ASSUME task[x].op \in {"edit", "drop"}
      PROVE  \A y, u : Ref(y, u, p)' => y = w
  <2>1. \A z, v : Ref(z, v, p) => z = w
    <3>1. \A z \in Owner \cup Thread, v \in Table :
            Ref(z, v, obj[w].tables[t]) => z = w
      BY <1>1, <1>8 DEF Sole
    <3> QED BY <3>1, <1>1, <1>4
  <2>2. w # th /\ w \in Work /\ w \in task[x].on
    BY <1>2, <1>7
  <2> QED BY <2>1, <2>2, <1>6 DEF RefsFromOwn
<1>9. ASSUME task[x].op = "swap"
      PROVE  /\ heap'[q] = heap'[p]
             /\ \A y, u : Ref(y, u, q)' => y = x
  <2>1. Ref(x, t, q) /\ Ref(x, t, q)' /\ q \in DOMAIN heap
    BY <1>1, <1>2, <1>5, <1>9 DEF Ref, NoDangling
  <2>2. x \notin task[th].on
    <3>1. task[th].on \subseteq Owner
      BY <1>1, TaskKinds
    <3> QED BY <3>1, <1>7
  <2>3. heap'[q] = heap[q] /\ heap'[p] = heap[p]
    BY <2>1, <2>2, <1>3, <1>6 DEF HeapKept
  <2>4. heap[q] = heap[p]
    BY <1>1, <1>4, <1>5, <1>9 DEF Sole
  <2>5. \A z, v : Ref(z, v, q) => z = x
    BY <1>1, <1>5, <1>9 DEF Sole
  <2>6. ASSUME NEW y, NEW u, Ref(y, u, q)' PROVE y = x
    BY <2>1, <2>5, <2>6, <1>7 DEF RefsFromOwn
  <2> QED BY <2>3, <2>4, <2>6
<1> QED BY <1>4, <1>5, <1>8, <1>9 DEF Ref

-----------------------------------------------------------------------------
(* What a step does to the references, and what becomes of the counts.      *)

RefsOK == NoDangling /\ TablesApart /\ Counted

HeldInTable == \A th \in Thread : DOMAIN task[th].held \subseteq Table

LEMMA RefsOKNext ==
  ASSUME IInv, HeldInTable',
         \A x, t, p : Ref(x, t, p)' => p \in DOMAIN heap',
         \A x, t, p : Ref(x, t, p)' => p \notin DOMAIN heap \/ \E y : Ref(y, t, p),
         \A x, y, t, u, p :
           Ref(x, t, p)' /\ Ref(y, u, p)' => p \in DOMAIN heap \/ t = u,
         Counted'
  PROVE  RefsOK'
<1>1. NoDangling'
  BY DEF NoDangling, HeldInTable, Ref
<1>2. ASSUME NEW x, NEW y, NEW t, NEW u, NEW p, Ref(x, t, p)', Ref(y, u, p)'
      PROVE  t = u
  BY <1>2, RefFacts
<1>3. TablesApart'
  BY <1>2 DEF TablesApart
<1> QED BY <1>1, <1>3 DEF RefsOK

LEMMA RefsKept ==
  ASSUME IInv, HeldInTable',
         \A x, t, p : Ref(x, t, p)' <=> Ref(x, t, p),
         DOMAIN heap' = DOMAIN heap, UNCHANGED count
  PROVE  RefsOK'
<1>1. \A p : References(p)' = References(p)
  BY SameRefs
<1>2. Counted'
  BY <1>1 DEF IInv, Counted
<1> QED BY <1>2, RefFacts, RefsOKNext

(* A reference is copied to x, which had none at that table. *)
LEMMA RefsAdded ==
  ASSUME IInv, HeldInTable', NEW x, NEW y, NEW t, NEW p,
         Ref(y, t, p), \A q : ~Ref(x, t, q),
         \A z, u, q : Ref(z, u, q)' <=> Ref(z, u, q) \/ (z = x /\ u = t /\ q = p),
         Acquire(p)
  PROVE  RefsOK'
<1>1. p \in DOMAIN heap /\ StoreOK /\ Counted
  BY RefFacts DEF IInv
<1>2. /\ DOMAIN heap' = DOMAIN heap
      /\ count'[p] = count[p] + 1
      /\ \A q \in DOMAIN heap \ {p} : count'[q] = count[q]
  BY <1>1 DEF Acquire, StoreOK
<1>3. \A q : q # p => References(q)' = References(q)
  BY SameRefs
<1>4. References(p)' = References(p) \cup {<<x, t>>} /\ <<x, t>> \notin References(p)
  <2>1. ASSUME NEW r
        PROVE  r \in References(p)' <=> r \in References(p) \/ r = <<x, t>>
    BY RefsArePairs, RefsArePairsNext DEF RefsPaired
  <2> QED BY <2>1, RefsArePairs DEF RefsPaired
<1>5. IsFiniteSet(References(p)) /\ count[p] = Cardinality(References(p))
  BY <1>1 DEF Counted
<1>6. IsFiniteSet(References(p)') /\ count'[p] = Cardinality(References(p)')
  BY <1>2, <1>4, <1>5, FS_AddElement
<1>7. Counted'
  BY <1>1, <1>2, <1>3, <1>6 DEF Counted
<1> QED BY <1>1, <1>2, <1>7, RefFacts, RefsOKNext

(* A new arena gets its first reference. *)
LEMMA RefsFresh ==
  ASSUME IInv, HeldInTable', NEW x, NEW t, NEW p, NEW a, p \notin DOMAIN heap,
         \A z, u, q : Ref(z, u, q)' <=> Ref(z, u, q) \/ (z = x /\ u = t /\ q = p),
         heap' = Put(heap, p, a), count' = Put(count, p, 1)
  PROVE  RefsOK'
<1>1. StoreOK /\ Counted
  BY DEF IInv
<1>2. /\ DOMAIN heap' = DOMAIN heap \cup {p}
      /\ count'[p] = 1
      /\ \A q \in DOMAIN heap : count'[q] = count[q]
  BY <1>1 DEF Put, StoreOK
<1>3. \A q : q # p => References(q)' = References(q)
  BY SameRefs
<1>4. References(p)' = {<<x, t>>}
  <2>1. \A z, u : ~Ref(z, u, p)
    BY RefFacts
  <2>2. ASSUME NEW r PROVE r \in References(p)' <=> r = <<x, t>>
    BY <2>1, RefsArePairsNext DEF RefsPaired
  <2> QED BY <2>2
<1>5. IsFiniteSet(References(p)') /\ Cardinality(References(p)') = 1
  BY <1>4, FS_Singleton
<1>6. Counted'
  BY <1>1, <1>2, <1>3, <1>5 DEF Counted
<1> QED BY <1>2, <1>6, RefFacts, RefsOKNext

(* A reference is dropped, and its arena with it when it was the last.      *)
LEMMA RefsDropped ==
  ASSUME IInv, HeldInTable', NEW x, NEW t, NEW p, Ref(x, t, p),
         \A z, u, q : Ref(z, u, q)' <=> Ref(z, u, q) /\ ~(z = x /\ u = t),
         Release(p)
  PROVE  RefsOK'
<1>1. p \in DOMAIN heap /\ StoreOK /\ Counted
  BY RefFacts DEF IInv
<1>2. \A q : q # p => References(q)' = References(q)
  <2>1. \A q : q # p => ~Ref(x, t, q)
    BY RefFacts
  <2> QED BY <2>1, SameRefs
<1>3. References(p)' = References(p) \ {<<x, t>>} /\ <<x, t>> \in References(p)
  <2>1. ASSUME NEW r
        PROVE  r \in References(p)' <=> r \in References(p) /\ r # <<x, t>>
    BY RefsArePairs, RefsArePairsNext DEF RefsPaired
  <2> QED BY <2>1, RefsArePairs DEF RefsPaired
<1>4. IsFiniteSet(References(p)) /\ count[p] = Cardinality(References(p))
  BY <1>1 DEF Counted
<1>5. IsFiniteSet(References(p)') /\ Cardinality(References(p)') = count[p] - 1
  BY <1>3, <1>4, FS_RemoveElement
<1>6. CASE LastReference(p)
  <2>1. /\ DOMAIN heap' = DOMAIN heap \ {p}
        /\ \A q \in DOMAIN heap' : count'[q] = count[q]
    BY <1>1, <1>6 DEF Release, Without, StoreOK
  <2>2. Counted'
    BY <1>1, <1>2, <2>1 DEF Counted
  <2>3. References(p) = {<<x, t>>}
    BY <1>3, <1>4, <1>6, OnlyElement DEF LastReference
  <2>4. \A z, u : ~Ref(z, u, p)'
    BY <2>3, <1>3, RefsArePairsNext DEF RefsPaired
  <2> QED BY <2>1, <2>2, <2>4, RefFacts, RefsOKNext
<1>7. CASE ~LastReference(p)
  <2>1. /\ DOMAIN heap' = DOMAIN heap
        /\ count'[p] = count[p] - 1
        /\ \A q \in DOMAIN heap \ {p} : count'[q] = count[q]
    BY <1>1, <1>7 DEF Release, StoreOK
  <2>2. Counted'
    BY <1>1, <1>2, <1>5, <2>1 DEF Counted
  <2> QED BY <2>1, <2>2, RefFacts, RefsOKNext
<1> QED BY <1>6, <1>7

(* Everything x refers to is handed to y, which referred to nothing.        *)
LEMMA RefsMoved ==
  ASSUME IInv, HeldInTable', NEW x, NEW y, x # y, \A t, p : ~Ref(y, t, p),
         \A z, t, p : Ref(z, t, p)' <=> \/ z = y /\ Ref(x, t, p)
                                        \/ z # x /\ Ref(z, t, p),
         DOMAIN heap' = DOMAIN heap, UNCHANGED count
  PROVE  RefsOK'
<1>1. Counted
  BY DEF IInv
<1>2. ASSUME NEW p \in DOMAIN heap
      PROVE  /\ IsFiniteSet(References(p)')
             /\ count[p] = Cardinality(References(p)')
  <2>1. IsFiniteSet(References(p)) /\ count[p] = Cardinality(References(p))
    BY <1>1 DEF Counted
  <2>2. CASE \A t : ~Ref(x, t, p)
    <3>1. \A z, t : Ref(z, t, p)' <=> Ref(z, t, p)
      BY <2>2
    <3> QED BY <2>1, <3>1, SameRefs
  <2>3. CASE \E t : Ref(x, t, p)
    <3>1. PICK t : Ref(x, t, p)
      BY <2>3
    <3>2. \A z, u : Ref(z, u, p) => u = t
      BY <3>1, RefFacts
    <3>3. /\ <<x, t>> \in References(p) /\ <<y, t>> \notin References(p)
          /\ References(p)' = (References(p) \ {<<x, t>>}) \cup {<<y, t>>}
      <4>1. ASSUME NEW z, NEW u
            PROVE  Ref(z, u, p)' <=> \/ z = y /\ u = t
                                     \/ Ref(z, u, p) /\ ~(z = x /\ u = t)
        BY <3>1, <3>2
      <4>2. ASSUME NEW r
            PROVE  r \in References(p)' <=>
                     r = <<y, t>> \/ (r \in References(p) /\ r # <<x, t>>)
        BY <4>1, RefsArePairs, RefsArePairsNext DEF RefsPaired
      <4> QED BY <3>1, <4>2, RefsArePairs DEF RefsPaired
    <3> QED BY <2>1, <3>3, SwapElement
  <2> QED BY <2>2, <2>3
<1>3. Counted'
  BY <1>2 DEF Counted
<1> QED BY <1>3, RefFacts, RefsOKNext

(* x and y exchange what they refer to at table t. *)
LEMMA RefsSwapped ==
  ASSUME IInv, HeldInTable', NEW x, NEW y, NEW t, NEW p, NEW q,
         x # y, p # q, Ref(x, t, p), Ref(y, t, q),
         \A z, u, r : Ref(z, u, r)' <=> \/ z = x /\ u = t /\ r = q
                                        \/ z = y /\ u = t /\ r = p
                                        \/ Ref(z, u, r) /\ ~(u = t /\ z \in {x, y}),
         DOMAIN heap' = DOMAIN heap, UNCHANGED count
  PROVE  RefsOK'
<1>1. Counted
  BY DEF IInv
<1>2. \A z : /\ z # p => ~Ref(x, t, z)
             /\ z # q => ~Ref(y, t, z)
  BY RefFacts
<1>3. ASSUME NEW a \in DOMAIN heap
      PROVE  /\ IsFiniteSet(References(a)')
             /\ count[a] = Cardinality(References(a)')
  <2>1. IsFiniteSet(References(a)) /\ count[a] = Cardinality(References(a))
    BY <1>1 DEF Counted
  <2>2. CASE a \notin {p, q}
    <3>1. \A z, u : Ref(z, u, a)' <=> Ref(z, u, a)
      BY <1>2, <2>2
    <3> QED BY <2>1, <3>1, SameRefs
  <2>3. CASE a = p
    <3>1. ASSUME NEW z, NEW u
          PROVE  Ref(z, u, p)' <=> \/ z = y /\ u = t
                                   \/ Ref(z, u, p) /\ ~(z = x /\ u = t)
      BY <1>2
    <3>2. ASSUME NEW r
          PROVE  r \in References(p)' <=>
                   r = <<y, t>> \/ (r \in References(p) /\ r # <<x, t>>)
      BY <3>1, RefsArePairs, RefsArePairsNext DEF RefsPaired
    <3>3. /\ <<x, t>> \in References(p) /\ <<y, t>> \notin References(p)
          /\ References(p)' = (References(p) \ {<<x, t>>}) \cup {<<y, t>>}
      BY <1>2, <3>2, RefsArePairs DEF RefsPaired
    <3> QED BY <2>1, <2>3, <3>3, SwapElement
  <2>4. CASE a = q
    <3>1. ASSUME NEW z, NEW u
          PROVE  Ref(z, u, q)' <=> \/ z = x /\ u = t
                                   \/ Ref(z, u, q) /\ ~(z = y /\ u = t)
      BY <1>2
    <3>2. ASSUME NEW r
          PROVE  r \in References(q)' <=>
                   r = <<x, t>> \/ (r \in References(q) /\ r # <<y, t>>)
      BY <3>1, RefsArePairs, RefsArePairsNext DEF RefsPaired
    <3>3. /\ <<y, t>> \in References(q) /\ <<x, t>> \notin References(q)
          /\ References(q)' = (References(q) \ {<<y, t>>}) \cup {<<x, t>>}
      BY <1>2, <3>2, RefsArePairs DEF RefsPaired
    <3> QED BY <2>1, <2>4, <3>3, SwapElement
  <2> QED BY <2>2, <2>3, <2>4
<1>4. Counted'
  BY <1>3 DEF Counted
<1> QED BY <1>4, RefFacts, RefsOKNext

-----------------------------------------------------------------------------
(* The invariant is inductive: what every step has to show, and then one    *)
(* lemma per step.                                                          *)

LEMMA StepIInv ==
  ASSUME IInv, NEW th \in Thread, StoreOK',
         \A other \in Thread \ {th} : task'[other] = task[other],
         TaskOK(task[th])', OneUser', RefsOK', Sole(th)',
         OthersKept(th), RefsFromOwn(th), HeapKept(th)
  PROVE  IInv'
<1>1. \A x \in Thread : TaskOK(task[x])
  BY DEF IInv
<1>2. \A x \in Thread : TaskOK(task[x])'
  BY <1>1, TasksKept
<1>3. \A x \in Thread : Sole(x)'
  BY SoleKept
<1> QED BY <1>2, <1>3 DEF IInv, RefsOK

LEMMA HeldNext ==
  ASSUME IInv, NEW th \in Thread,
         \A other \in Thread \ {th} : task'[other] = task[other],
         DOMAIN task'[th].held \subseteq Table
  PROVE  HeldInTable'
BY DEF HeldInTable, IInv, TaskOK

(* A step that changes nothing but what its thread is about to do. *)
LEMMA QuietIInv ==
  ASSUME IInv, NEW th \in Thread, NEW k, Go(th, k), UNCHANGED <<obj, heap, count>>,
         TaskOK(k), k.held = task[th].held, OneUser', Sole(th)'
  PROVE  IInv'
<1>1. /\ task' = [x \in Thread |-> task'[x]]
      /\ task'[th] = k
      /\ \A other \in Thread \ {th} : task'[other] = task[other]
  BY TaskFacts DEF IInv
<1>2. \A x, t, p : Ref(x, t, p)' <=> Ref(x, t, p)
  BY <1>1 DEF Ref
<1>3. TaskOK(task[th])'
  BY <1>1 DEF TaskOK, Reading, Writing, Swapping, Copying, Destroying
<1>4. StoreOK'
  BY <1>1 DEF IInv, StoreOK
<1>5. HeldInTable'
  BY <1>1, HeldNext DEF TaskOK
<1>6. RefsOK'
  BY <1>2, <1>5, RefsKept
<1>7. OthersKept(th) /\ RefsFromOwn(th) /\ HeapKept(th)
  BY <1>2, RefFacts DEF OthersKept, RefsFromOwn, HeapKept
<1> QED BY <1>1, <1>3, <1>4, <1>6, <1>7, StepIInv

LEMMA BeginReadIInv ==
  ASSUME IInv, NEW th \in Thread, NEW s \in Snap, NEW t \in Table, BeginRead(th, s, t)
  PROVE  IInv'
<1> DEFINE k == Task("read", {s}, {}, {t}, Nothing)
<1>1. /\ task[th] = Idle /\ s \in DOMAIN obj /\ Go(th, k)
      /\ UNCHANGED <<obj, heap, count>>
  BY DEF BeginRead
<1>2. /\ k.on = {s} /\ k.to = {} /\ k.op = "read" /\ k.held = task[th].held
      /\ TaskOK(k)
  BY <1>1 DEF Task, Idle, TaskOK, Reading, At, Nothing
<1> HIDE DEF k
<1>3. /\ task'[th] = k
      /\ \A other \in Thread \ {th} : task'[other] = task[other]
  BY <1>1, TaskFacts DEF IInv
<1>4. OneUser'
  <2>1. OneUser /\ \A x \in Thread : s \notin task[x].to
    BY <1>1, TaskKinds DEF IInv
  <2> QED BY <2>1, <1>2, <1>3, OwnersAssumption, OneUserTaken DEF Uses
<1>5. Sole(th)'
  BY <1>2, <1>3 DEF Sole
<1> QED BY <1>1, <1>2, <1>4, <1>5, QuietIInv

LEMMA EndReadIInv ==
  ASSUME IInv, NEW th \in Thread, EndRead(th)
  PROVE  IInv'
<1>1. /\ task[th].op = "read" /\ Go(th, Idle)
      /\ UNCHANGED <<obj, heap, count>>
  BY DEF EndRead
<1>2. /\ Idle.on = {} /\ Idle.to = {} /\ Idle.op = "idle"
      /\ TaskOK(Idle)
  BY DEF Task, Idle, TaskOK, Nothing
<1>3. /\ task'[th] = Idle
      /\ \A other \in Thread \ {th} : task'[other] = task[other]
  BY <1>1, TaskFacts DEF IInv
<1>4. OneUser'
  BY <1>2, <1>3, OneUserKept DEF Uses, IInv
<1>5. Sole(th)'
  BY <1>2, <1>3 DEF Sole
<1>6. Idle.held = task[th].held
  BY <1>1, TaskKinds DEF IInv, Reading, Idle
<1> QED BY <1>1, <1>2, <1>4, <1>5, <1>6, QuietIInv

LEMMA BeginEditIInv ==
  ASSUME IInv, NEW th \in Thread, NEW w \in Work, NEW t \in Table, BeginEdit(th, w, t)
  PROVE  IInv'
<1> DEFINE k == Task("check", {w}, {}, {t}, Nothing)
<1>1. /\ task[th] = Idle /\ w \in DOMAIN obj \ Busy /\ Go(th, k)
      /\ UNCHANGED <<obj, heap, count>>
  BY DEF BeginEdit
<1>2. /\ k.on = {w} /\ k.to = {} /\ k.op = "check" /\ k.held = task[th].held
      /\ TaskOK(k)
  BY <1>1 DEF Task, Idle, TaskOK, Writing, At, Nothing
<1> HIDE DEF k
<1>3. /\ task'[th] = k
      /\ \A other \in Thread \ {th} : task'[other] = task[other]
  BY <1>1, TaskFacts DEF IInv
<1>4. OneUser'
  <2>1. OneUser /\ \A x \in Thread : w \notin Uses(x)
    BY <1>1 DEF IInv, Busy, Uses, Owner
  <2> QED BY <2>1, <1>2, <1>3, OneUserTaken DEF Uses
<1>5. Sole(th)'
  BY <1>2, <1>3 DEF Sole
<1> QED BY <1>1, <1>2, <1>4, <1>5, QuietIInv

LEMMA BeginCopyIInv ==
  ASSUME IInv, NEW th \in Thread, NEW o \in Owner, NEW p \in Owner, BeginCopy(th, o, p)
  PROVE  IInv'
<1> DEFINE k == Task("copy", {o}, {p}, {}, Nothing)
<1>1. /\ task[th] = Idle /\ o \in DOMAIN obj /\ (o \in Work => o \notin Busy)
      /\ p \notin DOMAIN obj \cup Busy /\ Go(th, k)
      /\ UNCHANGED <<obj, heap, count>>
  BY DEF BeginCopy
<1>2. /\ k.on = {o} /\ k.to = {p} /\ k.op = "copy" /\ k.held = task[th].held
      /\ TaskOK(k)
  BY <1>1 DEF Task, Idle, TaskOK, Copying, Nothing
<1> HIDE DEF k
<1>3. /\ task'[th] = k
      /\ \A other \in Thread \ {th} : task'[other] = task[other]
  BY <1>1, TaskFacts DEF IInv
<1>4. OneUser'
  <2>1. /\ OneUser
        /\ \A x \in Thread : o \notin task[x].to /\ p \notin Uses(x)
        /\ o \in Work => \A x \in Thread : o \notin Uses(x)
    BY <1>1, TaskKinds DEF IInv, Busy, Uses
  <2>2. o # p
    BY <1>1
  <2> QED BY <2>1, <2>2, <1>2, <1>3, OneUserTaken DEF Uses
<1>5. Sole(th)'
  BY <1>2, <1>3 DEF Sole
<1> QED BY <1>1, <1>2, <1>4, <1>5, QuietIInv

(* A use count of 1 means that the workspace's reference is the only one.   *)
LEMMA CheckCountIInv ==
  ASSUME IInv, NEW th \in Thread, CheckCount(th)
  PROVE  IInv'
<1> DEFINE k == task[th]
<1>1. /\ k.op = "check" /\ UNCHANGED <<obj, heap, count>>
      /\ TaskOK(k) /\ StoreOK /\ Counted /\ NoDangling
  BY DEF CheckCount, IInv
<1>2. PICK w \in Work \cap DOMAIN obj, t \in Table : At(k, w, t) /\ k.held = Nothing
  BY <1>1, TaskKinds DEF Writing
<1> DEFINE p == obj[w].tables[t]
           m == Task(IF SharedNow(p) THEN "clone" ELSE "edit", {w}, {}, {t}, Nothing)
<1>3. Go(th, m)
  BY <1>2 DEF CheckCount, At
<1>4. /\ m.on = {w} /\ m.to = {} /\ m.at = {t} /\ m.held = Nothing
      /\ m.op = IF SharedNow(p) THEN "clone" ELSE "edit"
      /\ m = Task(m.op, m.on, m.to, m.at, m.held)
  BY DEF Task
<1> HIDE DEF m
<1>5. TaskOK(m)
  BY <1>2, <1>4 DEF TaskOK, Writing, At, Nothing
<1>6. /\ task'[th] = m
      /\ \A other \in Thread \ {th} : task'[other] = task[other]
  BY <1>1, <1>3, TaskFacts
<1>7. OneUser'
  BY <1>2, <1>4, <1>6, OneUserKept DEF Uses, IInv, At
<1>8. ASSUME ~SharedNow(p), NEW x, NEW u, Ref(x, u, p)
      PROVE  x = w
  <2>1. /\ p \in DOMAIN heap /\ count[p] \in Nat \ {0}
        /\ IsFiniteSet(References(p)) /\ count[p] = Cardinality(References(p))
    BY <1>1 DEF Counted, NoDangling, StoreOK
  <2>2. Cardinality(References(p)) = 1
    BY <1>8, <2>1 DEF SharedNow
  <2>3. <<w, t>> \in References(p) /\ <<x, u>> \in References(p)
    BY <1>8, RefsArePairs DEF RefsPaired, Ref
  <2> QED BY <2>1, <2>2, <2>3, OnlyElement
<1>9. Sole(th)'
  <2>1. \A x, u : Ref(x, u, p)' => Ref(x, u, p)
    BY <1>1, <1>2, <1>4, <1>6 DEF Ref
  <2>2. \A x, u : m.op = "edit" /\ Ref(x, u, p)' => x = w
    BY <1>4, <1>8, <2>1
  <2>3. obj'[w].tables[t] = p
    BY <1>1
  <2> QED BY <2>2, <2>3, <1>4, <1>6 DEF Sole
<1> QED BY <1>1, <1>2, <1>3, <1>4, <1>5, <1>7, <1>9, QuietIInv

LEMMA EmptyIsGood == IsArena(EmptyArena) /\ FreeExact(EmptyArena)
BY DEF EmptyArena, IsArena, FreeExact, DeadSlots

(* The clone is the thread's alone, and equal to what it was made from.     *)
LEMMA CloneIInv ==
  ASSUME IInv, NEW th \in Thread, Clone(th)
  PROVE  IInv'
<1> DEFINE k == task[th]
<1>1. /\ k.op = "clone" /\ UNCHANGED obj
      /\ TaskOK(k) /\ StoreOK /\ NoDangling
  BY DEF Clone, IInv
<1>2. PICK w \in Work \cap DOMAIN obj, t \in Table : At(k, w, t) /\ k.held = Nothing
  BY <1>1, TaskKinds DEF Writing
<1>3. PICK q \in Addr \ DOMAIN heap :
        /\ heap' = Put(heap, q, heap[obj[w].tables[t]])
        /\ count' = Put(count, q, 1)
        /\ Go(th, Task("swap", {w}, {}, {t}, Put(Nothing, t, q)))
  BY <1>2 DEF Clone, At
<1> DEFINE p == obj[w].tables[t]
           m == Task("swap", {w}, {}, {t}, Put(Nothing, t, q))
<1>4. /\ m.on = {w} /\ m.to = {} /\ m.at = {t} /\ m.op = "swap"
      /\ m.held = [u \in {t} |-> q]
      /\ m = Task(m.op, m.on, m.to, m.at, m.held)
  BY DEF Task, Put, Nothing
<1>5. Go(th, m)
  BY <1>3
<1> HIDE DEF m
<1>6. /\ task' = [x \in Thread |-> task'[x]]
      /\ task'[th] = m
      /\ \A other \in Thread \ {th} : task'[other] = task[other]
  BY <1>1, <1>5, TaskFacts
<1>7. TaskOK(task[th])'
  BY <1>1, <1>2, <1>4, <1>6 DEF TaskOK, Swapping, At
<1>8. OneUser'
  BY <1>2, <1>4, <1>6, OneUserKept DEF Uses, IInv, At
<1>9. /\ p \in DOMAIN heap
      /\ DOMAIN heap' = DOMAIN heap \cup {q}
      /\ heap'[q] = heap[p]
      /\ \A r \in DOMAIN heap : heap'[r] = heap[r]
      /\ count' \in [DOMAIN heap' -> Nat \ {0}]
  BY <1>1, <1>3 DEF NoDangling, Put, StoreOK
<1>10. StoreOK'
  <2>1. heap' = [r \in DOMAIN heap' |-> heap'[r]]
    BY <1>3 DEF Put
  <2>2. \A r \in DOMAIN heap' : IsArena(heap'[r]) /\ FreeExact(heap'[r])
    BY <1>1, <1>9 DEF StoreOK
  <2> QED BY <1>1, <1>6, <1>9, <2>1, <2>2 DEF StoreOK
<1>11. \A x, u, r : Ref(x, u, r)' <=> Ref(x, u, r) \/ (x = th /\ u = t /\ r = q)
  <2>1. DOMAIN k.held = {} /\ th \notin DOMAIN obj
    BY <1>1, <1>2, ThreadAssumption DEF Nothing, StoreOK, Owner
  <2>2. ASSUME NEW x, NEW u, NEW r, x # th PROVE Ref(x, u, r)' <=> Ref(x, u, r)
    BY <1>1, <1>6, <2>2 DEF Ref
  <2>3. ASSUME NEW u, NEW r PROVE ~Ref(th, u, r)
    BY <2>1 DEF Ref
  <2>4. ASSUME NEW u, NEW r PROVE Ref(th, u, r)' <=> u = t /\ r = q
    BY <1>1, <1>4, <1>6, <2>1 DEF Ref
  <2> QED BY <2>2, <2>3, <2>4
<1>12. HeldInTable'
  BY <1>4, <1>6, HeldNext
<1>13. RefsOK'
  BY <1>3, <1>11, <1>12, RefsFresh
<1>14. OthersKept(th) /\ RefsFromOwn(th) /\ HeapKept(th)
  BY <1>1, <1>3, <1>9, <1>11, RefFacts DEF OthersKept, RefsFromOwn, HeapKept
<1>15. Sole(th)'
  <2>1. \A x, u : Ref(x, u, q)' => x = th
    BY <1>3, <1>11, RefFacts
  <2>2. task'[th].held[t] = q /\ heap'[q] = heap'[obj'[w].tables[t]]
    BY <1>1, <1>4, <1>6, <1>9
  <2>3. ASSUME NEW x, NEW u, Ref(x, u, task[th].held[t])' PROVE x = th
    BY <2>1, <2>2, <2>3 DEF Ref
  <2> QED BY <2>2, <2>3, <1>4, <1>6 DEF Sole
<1> QED BY <1>6, <1>7, <1>8, <1>10, <1>13, <1>14, <1>15, StepIInv

LEMMA TablesReplaced ==
  ASSUME NEW o \in Object, NEW t \in Table, NEW q
  PROVE  [o EXCEPT !.tables[t] = q] =
           [version |-> o.version, nextId |-> o.nextId,
            tables |-> [o.tables EXCEPT ![t] = q]]
<1>1. ASSUME NEW v, NEW n, NEW f
      PROVE  [[version |-> v, nextId |-> n, tables |-> f] EXCEPT !.tables[t] = q] =
               [version |-> v, nextId |-> n, tables |-> [f EXCEPT ![t] = q]]
  OBVIOUS
<1>2. o = [version |-> o.version, nextId |-> o.nextId, tables |-> o.tables]
  BY DEF Object
<1> QED BY <1>1, <1>2

(* The workspace gets the clone and the thread what it was made from.       *)
LEMMA SwapIInv ==
  ASSUME IInv, NEW th \in Thread, Swap(th)
  PROVE  IInv'
<1> DEFINE k == task[th]
<1>1. /\ k.op = "swap" /\ UNCHANGED <<heap, count>>
      /\ TaskOK(k) /\ StoreOK /\ NoDangling /\ OneUser /\ Sole(th)
  BY DEF Swap, IInv
<1>2. PICK w \in Work \cap DOMAIN obj, t \in Table : At(k, w, t) /\ DOMAIN k.held = {t}
  BY <1>1, TaskKinds DEF Swapping
<1> DEFINE p == obj[w].tables[t]
           q == k.held[t]
           m == Task("drop", {w}, {}, {t}, Put(Nothing, t, p))
<1>3. obj' = [obj EXCEPT ![w].tables[t] = q] /\ Go(th, m)
  BY <1>2 DEF Swap, At
<1>4. /\ obj[w] \in Object /\ obj[w].tables \in [Table -> Addr]
      /\ p \in DOMAIN heap /\ q \in DOMAIN heap /\ q \in Addr
  BY <1>1, <1>2 DEF NoDangling, StoreOK, Object
<1>5. obj' = [obj EXCEPT ![w] =
                [version |-> obj[w].version, nextId |-> obj[w].nextId,
                 tables |-> [obj[w].tables EXCEPT ![t] = q]]]
  <2>1. obj' = [obj EXCEPT ![w] = [obj[w] EXCEPT !.tables[t] = q]]
    BY <1>3
  <2> QED BY <2>1, <1>4, TablesReplaced
<1>6. w # th /\ w \notin Thread /\ th \notin DOMAIN obj
  BY <1>1, <1>2, ThreadAssumption DEF StoreOK, Owner
<1>7. /\ m.on = {w} /\ m.to = {} /\ m.at = {t} /\ m.op = "drop"
      /\ m.held = [u \in {t} |-> p]
      /\ m = Task(m.op, m.on, m.to, m.at, m.held)
  BY DEF Task, Put, Nothing
<1> HIDE DEF m
<1>8. /\ task' = [x \in Thread |-> task'[x]]
      /\ task'[th] = m
      /\ \A other \in Thread \ {th} : task'[other] = task[other]
  BY <1>1, <1>3, TaskFacts
<1>9. /\ DOMAIN obj' = DOMAIN obj /\ obj' \in [DOMAIN obj -> Object]
      /\ \A o \in DOMAIN obj \ {w} : obj'[o] = obj[o]
      /\ obj'[w].tables = [obj[w].tables EXCEPT ![t] = q]
  BY <1>1, <1>2, <1>4, <1>5 DEF StoreOK, Object
<1>10. TaskOK(task[th])'
  BY <1>1, <1>2, <1>7, <1>8, <1>9 DEF TaskOK, Swapping, At
<1>11. OneUser'
  BY <1>1, <1>2, <1>7, <1>8, OneUserKept DEF Uses, At
<1>12. StoreOK'
  BY <1>1, <1>8, <1>9 DEF StoreOK
<1>13. /\ Ref(w, t, p) /\ Ref(th, t, q)
       /\ w # th /\ w \notin Thread /\ th \notin DOMAIN obj
  BY <1>1, <1>2, ThreadAssumption DEF Ref, StoreOK, Owner
<1>14. \A x, u : Ref(x, u, q) => x = th
  <2>1. \A x \in Owner \cup Thread, u \in Table : Ref(x, u, k.held[t]) => x = th
    BY <1>1, <1>2 DEF Sole, At
  <2> QED BY <2>1, RefFacts
<1>15. p # q
  BY <1>13, <1>14
<1>16. PICK a, b : a = p /\ b = q
  OBVIOUS
<1>17. \A x, u, r : Ref(x, u, r)' <=> \/ x = w /\ u = t /\ r = b
                                      \/ x = th /\ u = t /\ r = a
                                      \/ Ref(x, u, r) /\ ~(u = t /\ x \in {w, th})
  <2>1. \A u \in Table : obj'[w].tables[u] = IF u = t THEN b ELSE obj[w].tables[u]
    BY <1>4, <1>9, <1>16
  <2>2. /\ DOMAIN task'[th].held = {t} /\ task'[th].held[t] = a
        /\ DOMAIN task[th].held = {t}
    BY <1>2, <1>7, <1>8, <1>16
  <2>3. ASSUME NEW x, NEW u, NEW r, x \notin {w, th}
        PROVE  Ref(x, u, r)' <=> Ref(x, u, r)
    BY <1>8, <1>9, <2>3 DEF Ref
  <2>4. ASSUME NEW u, NEW r
        PROVE  Ref(w, u, r)' <=> (u = t /\ r = b) \/ (u # t /\ Ref(w, u, r))
    <3>1. w \in DOMAIN obj /\ w \in DOMAIN obj'
      BY <1>9
    <3>2. Ref(w, u, r)' <=> u \in Table /\ obj'[w].tables[u] = r
      BY <1>6, <3>1 DEF Ref
    <3>3. Ref(w, u, r) <=> u \in Table /\ obj[w].tables[u] = r
      BY <1>6, <3>1 DEF Ref
    <3> QED BY <3>2, <3>3, <2>1
  <2>5. ASSUME NEW u, NEW r
        PROVE  /\ Ref(th, u, r)' <=> u = t /\ r = a
               /\ Ref(th, u, r) => u = t
    BY <1>6, <1>9, <2>2 DEF Ref
  <2> HIDE DEF k, p, q
  <2>6. ASSUME NEW x, NEW u, NEW r
        PROVE  Ref(x, u, r)' <=> \/ x = w /\ u = t /\ r = b
                                 \/ x = th /\ u = t /\ r = a
                                 \/ Ref(x, u, r) /\ ~(u = t /\ x \in {w, th})
    <3>1. CASE x \notin {w, th}
      BY <2>3, <3>1
    <3>2. CASE x = w
      BY <2>4, <3>2, <1>6
    <3>3. CASE x = th
      BY <2>5, <3>3, <1>6
    <3> QED BY <3>1, <3>2, <3>3
  <2> QED BY <2>6
<1>18. HeldInTable'
  BY <1>7, <1>8, HeldNext
<1>19. RefsOK'
  <2>1. Ref(w, t, a) /\ Ref(th, t, b) /\ a # b /\ DOMAIN heap' = DOMAIN heap
    BY <1>1, <1>13, <1>15, <1>16
  <2> QED BY <1>1, <1>13, <1>17, <1>18, <2>1, RefsSwapped
<1>20. \A other \in Thread \ {th} : w \notin Uses(other)
  BY <1>1, <1>2 DEF OneUser, Uses, At
<1>21. OthersKept(th)
  BY <1>9, <1>20 DEF OthersKept
<1>22. RefsFromOwn(th)
  <2>1. w \in Owner /\ Ref(w, t, a) /\ Ref(th, t, b)
    BY <1>13, <1>16 DEF Owner
  <2> QED BY <1>17, <1>20, <2>1 DEF RefsFromOwn, Uses
<1>23. HeapKept(th)
  BY <1>1, RefFacts DEF HeapKept
<1>24. Sole(th)'
  <2>1. \A x, u : Ref(x, u, b)' => x = w
    <3>1. \A x, u : Ref(x, u, b) => x = th /\ u = t
      BY <1>13, <1>14, <1>16, RefFacts
    <3> QED BY <3>1, <1>15, <1>16, <1>17
  <2>2. obj'[w].tables[t] = b
    BY <1>4, <1>9, <1>16
  <2>3. ASSUME NEW x, NEW u, Ref(x, u, obj[w].tables[t])' PROVE x = w
    BY <2>1, <2>2, <2>3 DEF Ref
  <2> QED BY <2>3, <1>7, <1>8 DEF Sole
<1> QED BY <1>8, <1>10, <1>11, <1>12, <1>19, <1>21, <1>22, <1>23, <1>24, StepIInv

(* Dropping a reference to p leaves every arena that another refers to.     *)
LEMMA ReleaseKeeps ==
  ASSUME IInv, NEW p \in DOMAIN heap, Release(p)
  PROVE  /\ DOMAIN heap' \subseteq DOMAIN heap
         /\ \A r \in DOMAIN heap' : heap'[r] = heap[r]
         /\ heap' = [r \in DOMAIN heap' |-> heap'[r]]
         /\ \A r \in DOMAIN heap' : IsArena(heap'[r]) /\ FreeExact(heap'[r])
         /\ count' \in [DOMAIN heap' -> Nat \ {0}]
<1>1. /\ heap = [r \in DOMAIN heap |-> heap[r]]
      /\ \A r \in DOMAIN heap : IsArena(heap[r]) /\ FreeExact(heap[r])
      /\ count \in [DOMAIN heap -> Nat \ {0}]
  BY DEF IInv, StoreOK
<1>2. CASE LastReference(p)
  BY <1>1, <1>2 DEF Release, Without
<1>3. CASE ~LastReference(p)
  BY <1>1, <1>3 DEF Release, LastReference
<1> QED BY <1>2, <1>3

(* The temporary of the assignment drops the arena write() has replaced.    *)
LEMMA DropOldIInv ==
  ASSUME IInv, NEW th \in Thread, DropOld(th)
  PROVE  IInv'
<1> DEFINE k == task[th]
<1>1. /\ k.op = "drop" /\ UNCHANGED obj
      /\ TaskOK(k) /\ StoreOK /\ NoDangling /\ OneUser /\ Sole(th)
  BY DEF DropOld, IInv
<1>2. PICK w \in Work \cap DOMAIN obj, t \in Table : At(k, w, t) /\ DOMAIN k.held = {t}
  BY <1>1, TaskKinds DEF Swapping
<1>3. PICK p : p = k.held[t]
  OBVIOUS
<1> DEFINE m == Task("edit", {w}, {}, {t}, Nothing)
<1>4. Release(p) /\ Go(th, m)
  BY <1>2, <1>3 DEF DropOld, At
<1>5. /\ m.on = {w} /\ m.to = {} /\ m.at = {t}
      /\ m.op = "edit" /\ m.held = Nothing
      /\ m = Task(m.op, m.on, m.to, m.at, m.held)
  BY DEF Task
<1> HIDE DEF m
<1>6. /\ task' = [x \in Thread |-> task'[x]]
      /\ task'[th] = m
      /\ \A other \in Thread \ {th} : task'[other] = task[other]
  BY <1>1, <1>4, TaskFacts
<1>7. TaskOK(task[th])'
  BY <1>1, <1>2, <1>5, <1>6 DEF TaskOK, Writing, At, Nothing
<1>8. OneUser'
  BY <1>1, <1>2, <1>5, <1>6, OneUserKept DEF Uses, At
<1>9. p \in DOMAIN heap /\ Ref(th, t, p)
  BY <1>1, <1>2, <1>3 DEF NoDangling, Ref
<1>10. /\ DOMAIN heap' \subseteq DOMAIN heap
       /\ \A r \in DOMAIN heap' : heap'[r] = heap[r]
       /\ StoreOK'
  <2>1. /\ DOMAIN heap' \subseteq DOMAIN heap
        /\ \A r \in DOMAIN heap' : heap'[r] = heap[r]
        /\ heap' = [r \in DOMAIN heap' |-> heap'[r]]
        /\ \A r \in DOMAIN heap' : IsArena(heap'[r]) /\ FreeExact(heap'[r])
        /\ count' \in [DOMAIN heap' -> Nat \ {0}]
    BY <1>4, <1>9, ReleaseKeeps
  <2> QED BY <1>1, <1>6, <2>1 DEF StoreOK
<1>11. \A x, u, r : Ref(x, u, r)' <=> Ref(x, u, r) /\ ~(x = th /\ u = t)
  <2>1. th \notin DOMAIN obj
    BY <1>1, ThreadAssumption DEF StoreOK, Owner
  <2>2. ASSUME NEW x, NEW u, NEW r, x # th PROVE Ref(x, u, r)' <=> Ref(x, u, r)
    BY <1>1, <1>6, <2>2 DEF Ref
  <2>3. ASSUME NEW u, NEW r PROVE ~Ref(th, u, r)' /\ (Ref(th, u, r) => u = t)
    BY <1>1, <1>2, <1>5, <1>6, <2>1 DEF Ref, Nothing
  <2> QED BY <2>2, <2>3
<1>12. HeldInTable'
  BY <1>5, <1>6, HeldNext DEF Nothing
<1>13. RefsOK'
  BY <1>4, <1>9, <1>11, <1>12, RefsDropped
<1>14. OthersKept(th) /\ RefsFromOwn(th) /\ HeapKept(th)
  <2>1. \A x, u, r : Ref(x, u, r)' => r \in DOMAIN heap'
    BY <1>1, <1>7, <1>13 DEF RefsOK, NoDangling, Ref
  <2> QED BY <1>1, <1>10, <1>11, <2>1 DEF OthersKept, RefsFromOwn, HeapKept
<1>15. Sole(th)'
  <2>1. \A x \in Owner \cup Thread, u \in Table : Ref(x, u, obj[w].tables[t]) => x = w
    BY <1>1, <1>2 DEF Sole, At
  <2>2. PICK q : q = obj[w].tables[t] /\ q = obj'[w].tables[t]
    BY <1>1
  <2>3. ASSUME NEW x \in Owner \cup Thread, NEW u \in Table, Ref(x, u, obj[w].tables[t])'
        PROVE x = w
    <3>1. Ref(x, u, q)'
      BY <2>2, <2>3 DEF Ref
    <3> QED BY <3>1, <1>11, <2>1, <2>2
  <2> QED BY <2>3, <1>5, <1>6 DEF Sole
<1> QED BY <1>6, <1>7, <1>8, <1>10, <1>13, <1>14, <1>15, StepIInv

(* An edit leaves a well-formed arena. *)
LEMMA EditsGood ==
  ASSUME NEW n \in Nat, NEW a, IsArena(a), FreeExact(a), NEW e \in Edits(n, a)
  PROVE  e.nextId \in Nat /\ IsArena(e.arena) /\ FreeExact(e.arena)
<1>1. CASE \E v \in Value : e = [nextId |-> n + 1, arena |-> Insert(a, v, n)]
  <2>1. PICK v \in Value : e = [nextId |-> n + 1, arena |-> Insert(a, v, n)]
    BY <1>1
  <2>2. IsArena(Insert(a, v, n)) /\ FreeExact(Insert(a, v, n))
    BY InsertEffect, InsertFreeExact
  <2> QED BY <2>1, <2>2
<1>2. CASE \E v \in Value, id \in RestoredIds :
             e = [nextId |-> IF id >= n THEN id + 1 ELSE n, arena |-> Insert(a, v, id)]
  <2>1. PICK v \in Value, id \in RestoredIds :
          e = [nextId |-> IF id >= n THEN id + 1 ELSE n, arena |-> Insert(a, v, id)]
    BY <1>2
  <2>2. id \in Nat
    BY InputAssumption
  <2>3. IsArena(Insert(a, v, id)) /\ FreeExact(Insert(a, v, id))
    BY <2>2, InsertEffect, InsertFreeExact
  <2> QED BY <2>1, <2>2, <2>3
<1>3. CASE \E h \in Handles : e = [nextId |-> n, arena |-> Erase(a, h)]
  BY <1>3, EraseKeepsIds
<1>4. CASE \E h \in Handles, v \in Value : e = [nextId |-> n, arena |-> Assign(a, h, v)]
  BY <1>4, AssignEffect
<1> QED BY <1>1, <1>2, <1>3, <1>4 DEF Edits

(* An edit in place: the arena is the workspace's alone. *)
LEMMA EditIInv ==
  ASSUME IInv, NEW th \in Thread, Edit(th)
  PROVE  IInv'
<1> DEFINE k == task[th]
<1>1. /\ k.op = "edit" /\ UNCHANGED count /\ Go(th, Idle)
      /\ TaskOK(k) /\ StoreOK /\ NoDangling /\ OneUser /\ Sole(th)
  BY DEF Edit, IInv
<1>2. PICK w \in Work \cap DOMAIN obj, t \in Table : At(k, w, t) /\ k.held = Nothing
  BY <1>1, TaskKinds DEF Writing
<1>3. PICK p : p = obj[w].tables[t]
  OBVIOUS
<1>4. PICK e \in Edits(obj[w].nextId, heap[p]) :
        /\ obj' = [obj EXCEPT ![w].nextId = e.nextId]
        /\ heap' = [heap EXCEPT ![p] = e.arena]
  BY <1>2, <1>3 DEF Edit, At
<1>5. /\ obj[w] \in Object /\ p \in DOMAIN heap
      /\ IsArena(heap[p]) /\ FreeExact(heap[p])
  BY <1>1, <1>2, <1>3 DEF StoreOK, NoDangling
<1>6. e.nextId \in Nat /\ IsArena(e.arena) /\ FreeExact(e.arena)
  BY <1>5, EditsGood DEF Object
<1>7. /\ DOMAIN obj' = DOMAIN obj /\ obj' \in [DOMAIN obj -> Object]
      /\ \A o \in DOMAIN obj : obj'[o].tables = obj[o].tables
  BY <1>1, <1>4, <1>5, <1>6 DEF StoreOK, Object
<1>8. /\ DOMAIN heap' = DOMAIN heap /\ heap'[p] = e.arena
      /\ \A r \in DOMAIN heap \ {p} : heap'[r] = heap[r]
      /\ heap' = [r \in DOMAIN heap' |-> heap'[r]]
  BY <1>1, <1>4, <1>5 DEF StoreOK
<1>9. /\ task' = [x \in Thread |-> task'[x]]
      /\ task'[th] = Idle
      /\ \A other \in Thread \ {th} : task'[other] = task[other]
  BY <1>1, TaskFacts
<1>10. StoreOK'
  BY <1>1, <1>6, <1>7, <1>8, <1>9 DEF StoreOK
<1>11. TaskOK(task[th])' /\ Sole(th)' /\ task'[th].held = k.held
  BY <1>2, <1>9 DEF TaskOK, Idle, Task, Sole, Nothing
<1>12. OneUser'
  BY <1>1, <1>9, OneUserKept DEF Uses, Idle
<1>13. \A x, u, r : Ref(x, u, r)' <=> Ref(x, u, r)
  BY <1>7, <1>9, <1>11 DEF Ref
<1>14. HeldInTable'
  BY <1>2, <1>9, <1>11, HeldNext DEF Nothing
<1>15. RefsOK'
  BY <1>1, <1>8, <1>13, <1>14, RefsKept
<1>16. OthersKept(th) /\ RefsFromOwn(th)
  BY <1>7, <1>13 DEF OthersKept, RefsFromOwn
<1>17. HeapKept(th)
  <2>1. \A x \in Owner \cup Thread, u \in Table : Ref(x, u, p) => x = w
    BY <1>1, <1>2, <1>3 DEF Sole, At
  <2>2. w \in task[th].on
    BY <1>2 DEF At
  <2> QED BY <1>8, <2>1, <2>2, RefFacts DEF HeapKept
<1> QED BY <1>9, <1>10, <1>11, <1>12, <1>15, <1>16, <1>17, StepIInv

(* A copied reference leads to an arena its owner, whom nobody writes to,   *)
(* refers to as well.                                                       *)
LEMMA CopyTableIInv ==
  ASSUME IInv, NEW th \in Thread, NEW t \in Table, CopyTable(th, t)
  PROVE  IInv'
<1> DEFINE k == task[th]
<1>1. /\ k.op = "copy" /\ UNCHANGED obj /\ t \notin DOMAIN k.held
      /\ TaskOK(k) /\ StoreOK /\ NoDangling /\ OneUser
  BY DEF CopyTable, IInv
<1>2. PICK o \in DOMAIN obj, d \in Owner \ DOMAIN obj :
        /\ k.on = {o} /\ k.to = {d} /\ k.at = {}
        /\ \A u \in DOMAIN k.held : k.held[u] = obj[o].tables[u]
  BY <1>1, TaskKinds DEF Copying
<1>3. PICK p : p = obj[o].tables[t]
  OBVIOUS
<1> DEFINE m == [k EXCEPT !.held = Put(k.held, t, p)]
<1>4. Acquire(p) /\ Go(th, m)
  BY <1>2, <1>3 DEF CopyTable
<1>5. /\ m.on = k.on /\ m.to = k.to /\ m.at = {} /\ m.op = "copy"
      /\ m.held = Put(k.held, t, p)
      /\ m = Task(m.op, m.on, m.to, m.at, m.held)
  BY <1>1, <1>2 DEF TaskOK, Task
<1>6. /\ DOMAIN m.held = DOMAIN k.held \cup {t}
      /\ m.held = [u \in DOMAIN m.held |-> m.held[u]]
      /\ \A u \in DOMAIN k.held : m.held[u] = k.held[u]
      /\ m.held[t] = p
  BY <1>1, <1>5 DEF Put
<1> HIDE DEF m
<1>7. /\ task' = [x \in Thread |-> task'[x]]
      /\ task'[th] = m
      /\ \A other \in Thread \ {th} : task'[other] = task[other]
  BY <1>1, <1>4, TaskFacts
<1>8. TaskOK(m)
  <2>1. \A u \in DOMAIN m.held : m.held[u] = obj[o].tables[u]
    BY <1>2, <1>3, <1>6
  <2>2. Copying(m)
    BY <1>2, <1>5, <2>1 DEF Copying
  <2> QED BY <1>1, <1>5, <1>6, <2>2 DEF TaskOK
<1>9. TaskOK(task[th])'
  BY <1>1, <1>7, <1>8 DEF TaskOK, Reading, Writing, Swapping, Copying, Destroying
<1>10. OneUser' /\ Sole(th)'
  BY <1>1, <1>2, <1>5, <1>7, OneUserKept DEF Uses, Sole
<1>11. p \in DOMAIN heap /\ Ref(o, t, p) /\ o \in Owner
  BY <1>1, <1>2, <1>3 DEF NoDangling, Ref, StoreOK
<1>12. /\ UNCHANGED heap /\ StoreOK'
  BY <1>1, <1>4, <1>7, <1>11 DEF Acquire, StoreOK
<1>13. th \notin DOMAIN obj
  BY <1>1, ThreadAssumption DEF StoreOK, Owner
<1>14. \A r : ~Ref(th, t, r)
  BY <1>1, <1>13 DEF Ref
<1>15. \A x, u, r : Ref(x, u, r)' <=> Ref(x, u, r) \/ (x = th /\ u = t /\ r = p)
  <2>1. ASSUME NEW x, NEW u, NEW r, x # th PROVE Ref(x, u, r)' <=> Ref(x, u, r)
    BY <1>1, <1>7, <2>1 DEF Ref
  <2>2. ASSUME NEW u, NEW r
        PROVE  Ref(th, u, r)' <=> Ref(th, u, r) \/ (u = t /\ r = p)
    BY <1>1, <1>6, <1>7, <1>13 DEF Ref
  <2> QED BY <2>1, <2>2
<1>16. HeldInTable'
  BY <1>7, <1>8, HeldNext DEF TaskOK
<1>17. RefsOK'
  BY <1>4, <1>11, <1>14, <1>15, <1>16, RefsAdded
<1>18. OthersKept(th) /\ HeapKept(th)
  BY <1>1, <1>12, RefFacts DEF OthersKept, HeapKept
<1>19. RefsFromOwn(th)
  <2>1. \A other \in Thread \ {th} : o \notin Work \/ o \notin task[other].on
    BY <1>1, <1>2 DEF OneUser
  <2> QED BY <1>11, <1>15, <2>1 DEF RefsFromOwn
<1> QED BY <1>7, <1>9, <1>10, <1>12, <1>17, <1>18, <1>19, StepIInv

(* The finished copy takes over the references its thread has made.         *)
LEMMA PublishIInv ==
  ASSUME IInv, NEW th \in Thread, Publish(th)
  PROVE  IInv'
<1> DEFINE k == task[th]
<1>1. /\ k.op = "copy" /\ DOMAIN k.held = Table /\ Go(th, Idle)
      /\ UNCHANGED <<heap, count>>
      /\ TaskOK(k) /\ StoreOK /\ NoDangling /\ OneUser
  BY DEF Publish, IInv
<1>2. PICK o \in DOMAIN obj, d \in Owner \ DOMAIN obj :
        /\ k.on = {o} /\ k.to = {d} /\ k.at = {}
        /\ \A u \in DOMAIN k.held : k.held[u] = obj[o].tables[u]
  BY <1>1, TaskKinds DEF Copying
<1>3. PICK ver \in Nat :
        obj' = Put([obj EXCEPT ![o].version = ver], d,
                   [version |-> ver, nextId |-> obj[o].nextId, tables |-> k.held])
  <2>1. obj[o].version \in Nat
    BY <1>1, <1>2 DEF StoreOK, Object
  <2> QED BY <1>2, <2>1 DEF Publish
<1>4. obj[o] \in Object /\ obj[o].nextId \in Nat /\ k.held \in [Table -> Addr]
  <2>1. k.held = [t \in Table |-> k.held[t]] /\ \A t \in Table : k.held[t] \in Addr
    BY <1>1 DEF TaskOK, NoDangling, StoreOK
  <2> QED BY <1>1, <1>2, <2>1 DEF StoreOK, Object
<1>5. /\ DOMAIN obj' = DOMAIN obj \cup {d}
      /\ obj' \in [DOMAIN obj' -> Object]
      /\ \A x \in DOMAIN obj : obj'[x].tables = obj[x].tables
      /\ obj'[d].tables = k.held
  <2> DEFINE f == [obj EXCEPT ![o].version = ver]
             c == [version |-> ver, nextId |-> obj[o].nextId, tables |-> k.held]
  <2>1. /\ f \in [DOMAIN obj -> Object]
        /\ \A x \in DOMAIN obj : f[x].tables = obj[x].tables
    BY <1>1, <1>2, <1>4 DEF StoreOK, Object
  <2>2. c \in Object /\ c.tables = k.held
    BY <1>4 DEF Object
  <2> HIDE DEF f, c
  <2>3. obj' = [x \in DOMAIN obj \cup {d} |-> IF x = d THEN c ELSE f[x]]
    BY <1>3, <2>1 DEF Put, f, c
  <2> QED BY <1>2, <2>1, <2>2, <2>3
<1>6. /\ task' = [x \in Thread |-> task'[x]]
      /\ task'[th] = Idle
      /\ \A other \in Thread \ {th} : task'[other] = task[other]
  BY <1>1, TaskFacts
<1>7. StoreOK'
  BY <1>1, <1>2, <1>5, <1>6 DEF StoreOK
<1>8. TaskOK(task[th])' /\ Sole(th)'
  BY <1>6 DEF TaskOK, Idle, Task, Sole, Nothing
<1>9. OneUser'
  BY <1>1, <1>6, OneUserKept DEF Uses, Idle
<1>10. th # d /\ d \notin Thread /\ d \notin DOMAIN obj /\ th \notin DOMAIN obj'
  BY <1>1, <1>2, <1>7, ThreadAssumption DEF StoreOK, Owner
<1>11. \A t, r : ~Ref(d, t, r)
  BY <1>10 DEF Ref
<1>12. \A x, t, r : Ref(x, t, r)' <=> \/ x = d /\ Ref(th, t, r)
                                      \/ x # th /\ Ref(x, t, r)
  <2>1. ASSUME NEW x, NEW t, NEW r, x \notin {th, d}
        PROVE  Ref(x, t, r)' <=> Ref(x, t, r)
    BY <1>5, <1>6, <2>1 DEF Ref
  <2>2. ASSUME NEW t, NEW r PROVE Ref(d, t, r)' <=> Ref(th, t, r)
    BY <1>1, <1>5, <1>10 DEF Ref
  <2>3. ASSUME NEW t, NEW r PROVE ~Ref(th, t, r)'
    BY <1>6, <1>10 DEF Ref, Idle, Nothing
  <2> QED BY <1>10, <1>11, <2>1, <2>2, <2>3
<1>13. HeldInTable'
  BY <1>6, HeldNext DEF Idle, Nothing
<1>14. RefsOK'
  BY <1>1, <1>10, <1>11, <1>12, <1>13, RefsMoved
<1>15. OthersKept(th)
  <2>1. \A other \in Thread \ {th} : d \notin Uses(other)
    BY <1>1, <1>2 DEF OneUser, Uses
  <2> QED BY <1>5, <2>1 DEF OthersKept
<1>16. RefsFromOwn(th)
  BY <1>12 DEF RefsFromOwn
<1>17. HeapKept(th)
  BY <1>1, RefFacts DEF HeapKept
<1> QED BY <1>6, <1>7, <1>8, <1>9, <1>14, <1>15, <1>16, <1>17, StepIInv

(* The destructor's thread takes over the references of the object.         *)
LEMMA BeginDestroyIInv ==
  ASSUME IInv, NEW th \in Thread, NEW o \in Owner, BeginDestroy(th, o)
  PROVE  IInv'
<1> DEFINE m == Task("destroy", {}, {}, {}, obj[o].tables)
<1>1. /\ task[th] = Idle /\ o \in DOMAIN obj \ Busy /\ Go(th, m)
      /\ obj' = Without(obj, o) /\ UNCHANGED <<heap, count>>
      /\ StoreOK /\ NoDangling /\ OneUser
  BY DEF BeginDestroy, IInv
<1>2. obj[o] \in Object /\ obj[o].tables \in [Table -> Addr]
  BY <1>1 DEF StoreOK, Object
<1>3. /\ m.on = {} /\ m.to = {} /\ m.at = {} /\ m.op = "destroy"
      /\ m.held = obj[o].tables
      /\ m = Task(m.op, m.on, m.to, m.at, m.held)
  BY DEF Task
<1> HIDE DEF m
<1>4. /\ task' = [x \in Thread |-> task'[x]]
      /\ task'[th] = m
      /\ \A other \in Thread \ {th} : task'[other] = task[other]
  BY <1>1, TaskFacts
<1>5. /\ DOMAIN obj' = DOMAIN obj \ {o}
      /\ obj' \in [DOMAIN obj' -> Object]
      /\ \A x \in DOMAIN obj' : obj'[x] = obj[x]
  BY <1>1 DEF StoreOK, Without
<1>6. StoreOK'
  BY <1>1, <1>4, <1>5 DEF StoreOK
<1>7. TaskOK(task[th])' /\ Sole(th)'
  BY <1>2, <1>3, <1>4 DEF TaskOK, Destroying, Sole
<1>8. OneUser'
  BY <1>1, <1>3, <1>4, OneUserKept DEF Uses
<1>9. th # o /\ th \notin DOMAIN obj /\ o \notin Thread
  BY <1>1, ThreadAssumption DEF StoreOK, Owner
<1>10. \A t, r : ~Ref(th, t, r)
  BY <1>1, <1>9 DEF Ref, Idle, Nothing
<1>11. \A x, t, r : Ref(x, t, r)' <=> \/ x = th /\ Ref(o, t, r)
                                      \/ x # o /\ Ref(x, t, r)
  <2>1. ASSUME NEW x, NEW t, NEW r, x \notin {th, o}
        PROVE  Ref(x, t, r)' <=> Ref(x, t, r)
    BY <1>4, <1>5, <2>1 DEF Ref
  <2>2. ASSUME NEW t, NEW r PROVE Ref(th, t, r)' <=> Ref(o, t, r)
    BY <1>1, <1>2, <1>3, <1>4, <1>5, <1>9 DEF Ref
  <2>3. ASSUME NEW t, NEW r PROVE ~Ref(o, t, r)'
    BY <1>5, <1>9 DEF Ref
  <2> QED BY <1>9, <1>10, <2>1, <2>2, <2>3
<1>12. HeldInTable'
  BY <1>2, <1>3, <1>4, HeldNext
<1>13. RefsOK'
  BY <1>1, <1>9, <1>10, <1>11, <1>12, RefsMoved
<1>14. \A other \in Thread : o \notin Uses(other)
  BY <1>1 DEF Busy, Uses
<1>15. OthersKept(th)
  BY <1>5, <1>14 DEF OthersKept
<1>16. RefsFromOwn(th)
  BY <1>11, <1>14 DEF RefsFromOwn, Uses
<1>17. HeapKept(th)
  BY <1>1, RefFacts DEF HeapKept
<1> QED BY <1>4, <1>6, <1>7, <1>8, <1>13, <1>15, <1>16, <1>17, StepIInv

LEMMA DropTableIInv ==
  ASSUME IInv, NEW th \in Thread, NEW t \in Table, DropTable(th, t)
  PROVE  IInv'
<1> DEFINE k == task[th]
           left == Without(k.held, t)
           m == IF left = Nothing THEN Idle ELSE [k EXCEPT !.held = left]
<1>1. /\ k.op = "destroy" /\ UNCHANGED obj /\ t \in DOMAIN k.held
      /\ Go(th, m)
      /\ TaskOK(k) /\ StoreOK /\ NoDangling /\ OneUser
  BY DEF DropTable, IInv
<1>2. k.on = {} /\ k.to = {} /\ k.at = {}
  BY <1>1, TaskKinds DEF Destroying
<1>3. PICK p : p = k.held[t]
  OBVIOUS
<1>4. Release(p)
  BY <1>3 DEF DropTable
<1>5. /\ DOMAIN left = DOMAIN k.held \ {t}
      /\ left = [u \in DOMAIN left |-> left[u]]
      /\ \A u \in DOMAIN left : left[u] = k.held[u]
  BY <1>1 DEF Without
<1>6. m.held = left /\ m.on = {} /\ m.to = {} /\ m.at = {} /\ TaskOK(m)
  <2>1. CASE left = Nothing
    BY <1>5, <2>1 DEF Idle, TaskOK, Task, Nothing
  <2>2. CASE left # Nothing
    <3>1. m = Task("destroy", {}, {}, {}, left)
      BY <1>1, <1>2, <2>2 DEF TaskOK, Task
    <3> HIDE DEF m, left
    <3> QED BY <1>1, <1>5, <3>1 DEF Task, TaskOK, Destroying
  <2> QED BY <2>1, <2>2
<1> HIDE DEF m
<1>7. /\ task' = [x \in Thread |-> task'[x]]
      /\ task'[th] = m
      /\ \A other \in Thread \ {th} : task'[other] = task[other]
  BY <1>1, TaskFacts
<1>8. TaskOK(task[th])' /\ Sole(th)'
  BY <1>1, <1>6, <1>7 DEF TaskOK, Sole, Reading, Writing, Swapping, Copying, Destroying
<1>9. OneUser'
  BY <1>1, <1>6, <1>7, OneUserKept DEF Uses
<1>10. p \in DOMAIN heap /\ Ref(th, t, p)
  BY <1>1, <1>3 DEF NoDangling, Ref
<1>11. /\ DOMAIN heap' \subseteq DOMAIN heap
       /\ \A r \in DOMAIN heap' : heap'[r] = heap[r]
       /\ StoreOK'
  <2>1. /\ DOMAIN heap' \subseteq DOMAIN heap
        /\ \A r \in DOMAIN heap' : heap'[r] = heap[r]
        /\ heap' = [r \in DOMAIN heap' |-> heap'[r]]
        /\ \A r \in DOMAIN heap' : IsArena(heap'[r]) /\ FreeExact(heap'[r])
        /\ count' \in [DOMAIN heap' -> Nat \ {0}]
    BY <1>4, <1>10, ReleaseKeeps
  <2> QED BY <1>1, <1>7, <2>1 DEF StoreOK
<1>12. \A x, u, r : Ref(x, u, r)' <=> Ref(x, u, r) /\ ~(x = th /\ u = t)
  <2>1. th \notin DOMAIN obj
    BY <1>1, ThreadAssumption DEF StoreOK, Owner
  <2>2. ASSUME NEW x, NEW u, NEW r, x # th PROVE Ref(x, u, r)' <=> Ref(x, u, r)
    BY <1>1, <1>7, <2>2 DEF Ref
  <2>3. ASSUME NEW u, NEW r PROVE Ref(th, u, r)' <=> Ref(th, u, r) /\ u # t
    BY <1>1, <1>5, <1>6, <1>7, <2>1 DEF Ref
  <2> QED BY <2>2, <2>3
<1>13. HeldInTable'
  BY <1>6, <1>7, HeldNext DEF TaskOK
<1>14. RefsOK'
  BY <1>4, <1>10, <1>12, <1>13, RefsDropped
<1>15. OthersKept(th) /\ RefsFromOwn(th) /\ HeapKept(th)
  <2>1. \A x, u, r : Ref(x, u, r)' => r \in DOMAIN heap'
    BY <1>14 DEF RefsOK, NoDangling, Ref
  <2> QED BY <1>1, <1>11, <1>12, <2>1 DEF OthersKept, RefsFromOwn, HeapKept
<1> QED BY <1>7, <1>8, <1>9, <1>11, <1>14, <1>15, StepIInv

(* A new object's arenas are new and each of them is in one table.          *)
LEMMA CreateIInv ==
  ASSUME IInv, NEW th \in Thread, NEW o \in Owner, NEW first \in Nat,
         Create(th, o, first)
  PROVE  IInv'
<1>1. /\ task[th] = Idle /\ o \notin DOMAIN obj \cup Busy /\ UNCHANGED task
      /\ StoreOK /\ NoDangling /\ OneUser /\ Counted
  BY DEF Create, IInv
<1>2. PICK at \in [Table -> Addr \ DOMAIN heap] :
        /\ \A t, u \in Table : at[t] = at[u] => t = u
        /\ obj' = Put(obj, o, [version |-> 0, nextId |-> first, tables |-> at])
        /\ heap' = [p \in DOMAIN heap \cup {at[t] : t \in Table} |->
                      IF p \in DOMAIN heap THEN heap[p] ELSE EmptyArena]
        /\ count' = [p \in DOMAIN heap' |-> IF p \in DOMAIN heap THEN count[p] ELSE 1]
  BY DEF Create
<1>3. /\ DOMAIN obj' = DOMAIN obj \cup {o}
      /\ obj' \in [DOMAIN obj' -> Object]
      /\ \A x \in DOMAIN obj : obj'[x] = obj[x]
      /\ obj'[o].tables = at
  <2> DEFINE c == [version |-> 0, nextId |-> first, tables |-> at]
  <2>1. c \in Object /\ c.tables = at
    BY DEF Object
  <2> HIDE DEF c
  <2>2. obj' = [x \in DOMAIN obj \cup {o} |-> IF x = o THEN c ELSE obj[x]]
    BY <1>2 DEF Put, c
  <2> QED BY <1>1, <2>1, <2>2 DEF StoreOK
<1>4. /\ DOMAIN heap' = DOMAIN heap \cup {at[t] : t \in Table}
      /\ \A p \in DOMAIN heap : heap'[p] = heap[p] /\ count'[p] = count[p]
      /\ \A t \in Table : heap'[at[t]] = EmptyArena /\ count'[at[t]] = 1
  BY <1>2
<1>5. StoreOK'
  <2>1. heap' = [p \in DOMAIN heap' |-> heap'[p]] /\ DOMAIN heap' \subseteq Addr
    BY <1>1, <1>2, <1>4 DEF StoreOK
  <2>2. \A p \in DOMAIN heap' : IsArena(heap'[p]) /\ FreeExact(heap'[p])
    BY <1>1, <1>4, EmptyIsGood DEF StoreOK
  <2>3. count' \in [DOMAIN heap' -> Nat \ {0}]
    BY <1>1, <1>2 DEF StoreOK
  <2> QED BY <1>1, <1>3, <2>1, <2>2, <2>3 DEF StoreOK
<1>6. TaskOK(task[th])' /\ OneUser' /\ Sole(th)'
  BY <1>1 DEF TaskOK, Idle, Task, OneUser, Sole, Nothing
<1>7. \A x, t, p : Ref(x, t, p)' <=> Ref(x, t, p) \/ (x = o /\ t \in Table /\ p = at[t])
  <2>1. o \notin Thread
    BY ThreadAssumption DEF Owner
  <2>2. ASSUME NEW x, NEW t, NEW p, x # o PROVE Ref(x, t, p)' <=> Ref(x, t, p)
    BY <1>1, <1>3, <2>2 DEF Ref
  <2>3. ASSUME NEW t, NEW p
        PROVE  /\ ~Ref(o, t, p)
               /\ Ref(o, t, p)' <=> t \in Table /\ p = at[t]
    BY <1>1, <1>3, <2>1 DEF Ref
  <2> QED BY <2>2, <2>3
<1>8. ASSUME NEW p \in DOMAIN heap'
      PROVE  IsFiniteSet(References(p)') /\ count'[p] = Cardinality(References(p)')
  <2>1. CASE p \in DOMAIN heap
    <3>1. \A x, t : Ref(x, t, p)' <=> Ref(x, t, p)
      BY <1>7, <2>1
    <3>2. References(p)' = References(p)
      BY <3>1, SameRefs
    <3> QED BY <1>1, <1>4, <2>1, <3>2 DEF Counted
  <2>2. CASE p \notin DOMAIN heap
    <3>1. PICK t \in Table : p = at[t]
      BY <1>4, <2>2
    <3>2. \A x, u : Ref(x, u, p)' <=> x = o /\ u = t
      BY <1>2, <1>7, <2>2, <3>1, RefFacts
    <3>3. \A r : r \in References(p)' <=> r = <<o, t>>
      BY <3>2, RefsArePairsNext DEF RefsPaired
    <3>4. References(p)' = {<<o, t>>}
      BY <3>3
    <3> QED BY <1>4, <3>1, <3>4, FS_Singleton
  <2> QED BY <2>1, <2>2
<1>9. RefsOK'
  <2>1. Counted'
    BY <1>8 DEF Counted
  <2>2. HeldInTable'
    BY <1>1 DEF HeldInTable, IInv, TaskOK
  <2>3. \A x, t, p : Ref(x, t, p)' => p \in DOMAIN heap'
    BY <1>4, <1>7, RefFacts
  <2>4. \A x, t, p : Ref(x, t, p)' => p \notin DOMAIN heap \/ \E y : Ref(y, t, p)
    BY <1>7
  <2>5. ASSUME NEW x, NEW y, NEW t, NEW u, NEW p, Ref(x, t, p)', Ref(y, u, p)'
        PROVE  p \in DOMAIN heap \/ t = u
    BY <1>2, <1>7, <2>5, RefFacts
  <2> QED BY <2>1, <2>2, <2>3, <2>4, <2>5, RefsOKNext
<1>10. OthersKept(th)
  <2>1. \A other \in Thread : o \notin Uses(other)
    BY <1>1 DEF Busy, Uses
  <2> QED BY <1>3, <2>1 DEF OthersKept
<1>11. RefsFromOwn(th)
  BY <1>7 DEF RefsFromOwn
<1>12. HeapKept(th)
  BY <1>4, RefFacts DEF HeapKept
<1> QED BY <1>1, <1>5, <1>6, <1>9, <1>10, <1>11, <1>12, StepIInv

LEMMA InitIInv == Init => IInv
<1> SUFFICES ASSUME Init PROVE IInv
  OBVIOUS
<1>1. /\ DOMAIN obj = {} /\ DOMAIN heap = {} /\ DOMAIN count = {}
      /\ obj = [o \in {} |-> 0] /\ heap = [o \in {} |-> 0] /\ count = [o \in {} |-> 0]
      /\ \A th \in Thread : task[th] = Idle
      /\ task = [th \in Thread |-> Idle]
  BY DEF Init, Nothing
<1>2. Idle.on = {} /\ Idle.to = {} /\ DOMAIN Idle.held = {} /\ TaskOK(Idle)
  BY DEF Idle, TaskOK, Task, Nothing
<1>3. StoreOK
  BY <1>1 DEF StoreOK
<1>4. OneUser /\ NoDangling /\ TablesApart /\ Counted
  BY <1>1, <1>2 DEF OneUser, NoDangling, TablesApart, Counted
<1>5. \A th \in Thread : TaskOK(task[th]) /\ Sole(th)
  BY <1>1, <1>2 DEF Sole
<1> QED BY <1>3, <1>4, <1>5 DEF IInv

LEMMA NextIInv == IInv /\ [Next]_vars => IInv'
<1> SUFFICES ASSUME IInv, [Next]_vars PROVE IInv'
  OBVIOUS
<1>1. CASE UNCHANGED vars
  <2>1. UNCHANGED <<obj, heap, count, task>>
    BY <1>1 DEF vars
  <2>2. StoreOK' /\ OneUser'
    BY <2>1 DEF IInv, StoreOK, OneUser
  <2>3. \A x, t, p : Ref(x, t, p)' <=> Ref(x, t, p)
    BY <2>1 DEF Ref
  <2>4. HeldInTable'
    BY <2>1 DEF HeldInTable, IInv, TaskOK
  <2>5. RefsOK'
    BY <2>1, <2>3, <2>4, RefsKept
  <2>6. ASSUME NEW th \in Thread PROVE TaskOK(task[th])'
    BY <2>1 DEF IInv, TaskOK, Reading, Writing, Swapping, Copying, Destroying
  <2>7. ASSUME NEW th \in Thread PROVE Sole(th)'
    BY <2>1 DEF IInv, Sole, Ref
  <2> QED BY <2>2, <2>5, <2>6, <2>7 DEF IInv, RefsOK
<1>2. CASE Next
  <2>1. PICK th \in Thread :
          \/ \E w \in Work : Create(th, w, 1)
          \/ \E s \in Snap : Create(th, s, NullId)
          \/ \E s \in Snap, t \in Table : BeginRead(th, s, t)
          \/ EndRead(th)
          \/ \E w \in Work, t \in Table : BeginEdit(th, w, t)
          \/ CheckCount(th)
          \/ Clone(th)
          \/ Swap(th)
          \/ DropOld(th)
          \/ Edit(th)
          \/ \E o, p \in Owner : BeginCopy(th, o, p)
          \/ \E t \in Table : CopyTable(th, t)
          \/ Publish(th)
          \/ \E o \in Owner : BeginDestroy(th, o)
          \/ \E t \in Table : DropTable(th, t)
    BY <1>2 DEF Next
  <2>2. CASE \/ \E w \in Work : Create(th, w, 1)
             \/ \E s \in Snap : Create(th, s, NullId)
    BY <2>2, CreateIInv DEF NullId, Owner
  <2>3. CASE \/ \E s \in Snap, t \in Table : BeginRead(th, s, t)
             \/ EndRead(th)
    BY <2>3, BeginReadIInv, EndReadIInv
  <2>4. CASE \/ \E w \in Work, t \in Table : BeginEdit(th, w, t)
             \/ CheckCount(th)
             \/ Clone(th)
             \/ Swap(th)
             \/ DropOld(th)
             \/ Edit(th)
    BY <2>4, BeginEditIInv, CheckCountIInv, CloneIInv, SwapIInv, DropOldIInv, EditIInv
  <2>5. CASE \/ \E o, p \in Owner : BeginCopy(th, o, p)
             \/ \E t \in Table : CopyTable(th, t)
             \/ Publish(th)
    BY <2>5, BeginCopyIInv, CopyTableIInv, PublishIInv
  <2>6. CASE \/ \E o \in Owner : BeginDestroy(th, o)
             \/ \E t \in Table : DropTable(th, t)
    BY <2>6, BeginDestroyIInv, DropTableIInv
  <2> QED BY <2>1, <2>2, <2>3, <2>4, <2>5, <2>6
<1> QED BY <1>1, <1>2

LEMMA SpecIInv == Spec => []IInv
BY InitIInv, NextIInv, PTL DEF Spec

-----------------------------------------------------------------------------
(* The types of the state: see TypeOK in CowThreads. *)
THEOREM TypeCorrect == Spec => []TypeOK
<1>1. IInv => TypeOK
  <2> SUFFICES ASSUME IInv PROVE TypeOK
    OBVIOUS
  <2>1. StoreOK /\ \A th \in Thread : TaskOK(task[th])
    BY DEF IInv
  <2>2. ASSUME NEW th \in Thread
        PROVE  /\ task[th].op \in {"idle", "read", "check", "clone", "swap", "drop",
                                   "edit", "copy", "destroy"}
               /\ task[th].on \cup task[th].to \subseteq Owner
               /\ task[th].at \subseteq Table
               /\ DOMAIN task[th].held \subseteq Table
    BY <2>1, TaskKinds DEF TaskOK
  <2> QED BY <2>1, <2>2 DEF StoreOK, TypeOK
<1> QED BY <1>1, SpecIInv, PTL

(* However many threads copy, commit, edit and destroy, the use count of    *)
(* every arena is the number of references to it, and none dangles: the     *)
(* property the shared_ptr of CowTable (cow_table.hpp) relies on.           *)
THEOREM CountsAreExact == Spec => []CountsExact
<1>1. IInv => CountsExact
  BY DEF IInv, NoDangling, Counted, CountsExact
<1> QED BY <1>1, SpecIInv, PTL

(* Between steps, an arena about to be edited in place is referred to by    *)
(* its workspace alone and no other thread is inside a read or a clone of   *)
(* it, although write() looked at the count steps earlier.  This is about   *)
(* the interleaving of steps: that what other threads did before happens    *)
(* before the edit needs an acquire that cow_table.hpp's use_count() is not.*)
THEOREM EditsAreExclusive == Spec => []EditsExclusive
<1>1. IInv => EditsExclusive
  <2> SUFFICES ASSUME IInv, NEW th \in Thread, task[th].op = "edit",
                      NEW w \in task[th].on, NEW t \in task[th].at
               PROVE  LET p == obj[w].tables[t]
                      IN  /\ References(p) = {<<w, t>>}
                          /\ \A other \in Thread \ {th} : p \notin Accessed(other)
    BY DEF EditsExclusive
  <2> DEFINE p == obj[w].tables[t]
  <2>1. /\ StoreOK /\ OneUser /\ Sole(th)
        /\ \A x \in Thread : TaskOK(task[x])
    BY DEF IInv
  <2>2. w \in Work /\ w \in DOMAIN obj /\ t \in Table
    BY <2>1, TaskKinds DEF Writing, At
  <2>3. Ref(w, t, p)
    BY <2>2 DEF Ref
  <2>4. \A x, u : Ref(x, u, p) => x = w /\ u = t
    BY <2>1, <2>3, RefFacts DEF Sole
  <2>5. References(p) = {<<w, t>>}
    <3>1. \A r : r \in References(p) <=> r = <<w, t>>
      BY <2>3, <2>4, RefsArePairs DEF RefsPaired
    <3> QED BY <3>1
  <2>6. ASSUME NEW other \in Thread \ {th}, p \in Accessed(other) PROVE FALSE
    <3>1. PICK o \in task[other].on, u \in task[other].at : p = obj[o].tables[u]
      BY <2>6 DEF Accessed
    <3>2. o \in DOMAIN obj /\ u \in Table
      BY <2>1, TaskKinds
    <3>3. o = w
      BY <2>4, <3>1, <3>2 DEF Ref
    <3> QED BY <2>1, <2>2, <3>3 DEF OneUser
  <2> QED BY <2>5, <2>6
<1> QED BY <1>1, SpecIInv, PTL

-----------------------------------------------------------------------------
(* Every step is a step of SnapshotStore or one that no reader can see.     *)

View(o) ==
  [version |-> obj[o].version, nextId |-> obj[o].nextId,
   tables  |-> [t \in Table |-> heap[obj[o].tables[t]]]]

LEMMA ViewsAreView == Views = [o \in DOMAIN obj |-> View(o)]
BY DEF Views, View

LEMMA ViewsAreViewNext == Views' = [o \in DOMAIN obj' |-> View(o)']
BY DEF Views, View

(* An object shows what it showed if it has the same fields and every table *)
(* leads to the same content.                                               *)
LEMMA ViewKept ==
  ASSUME NEW o,
         obj'[o].version = obj[o].version, obj'[o].nextId = obj[o].nextId,
         \A t \in Table : heap'[obj'[o].tables[t]] = heap[obj[o].tables[t]]
  PROVE  View(o)' = View(o)
BY DEF View

LEMMA ViewsKept ==
  ASSUME DOMAIN obj' = DOMAIN obj,
         \A o \in DOMAIN obj :
           /\ obj'[o].version = obj[o].version /\ obj'[o].nextId = obj[o].nextId
           /\ \A t \in Table : heap'[obj'[o].tables[t]] = heap[obj[o].tables[t]]
  PROVE  UNCHANGED Views
<1>1. \A o \in DOMAIN obj : View(o)' = View(o)
  BY ViewKept
<1> QED BY <1>1, ViewsAreView, ViewsAreViewNext

LEMMA SameArenaOps ==
  /\ \A a, v, id : Abstract!Insert(a, v, id) = Insert(a, v, id)
  /\ \A a, h : Abstract!Erase(a, h) = Erase(a, h)
  /\ \A a, h, v : Abstract!Assign(a, h, v) = Assign(a, h, v)
<1>1. ASSUME NEW a, NEW v, NEW id
      PROVE  Abstract!Insert(a, v, id) = Insert(a, v, id)
  BY Zenon DEF Insert, TargetSlot, SlotGen, LiftGen,
     Abstract!Insert, Abstract!TargetSlot, Abstract!SlotGen, Abstract!LiftGen
<1>2. ASSUME NEW a, NEW h PROVE Abstract!Located(a, h) <=> Located(a, h)
  BY Zenon DEF Located, IsLive, Abstract!Located, Abstract!IsLive
<1>3. ASSUME NEW a, NEW h PROVE Abstract!Erase(a, h) = Erase(a, h)
  BY <1>2, Zenon DEF Erase, Erasable, NextGen, Remove,
     Abstract!Erase, Abstract!Erasable, Abstract!NextGen, Abstract!Remove
<1>4. ASSUME NEW a, NEW h, NEW v PROVE Abstract!Assign(a, h, v) = Assign(a, h, v)
  BY <1>2, Zenon DEF Assign, Abstract!Assign
<1> QED BY <1>1, <1>3, <1>4

LEMMA CreateRefines ==
  ASSUME IInv, NEW th \in Thread, NEW o \in Owner, NEW first, Create(th, o, first)
  PROVE  Abstract!Create(o, first)
<1>1. o \notin DOMAIN obj /\ StoreOK /\ NoDangling
  BY DEF Create, IInv
<1>2. PICK at \in [Table -> Addr \ DOMAIN heap] :
        /\ obj' = Put(obj, o, [version |-> 0, nextId |-> first, tables |-> at])
        /\ heap' = [p \in DOMAIN heap \cup {at[t] : t \in Table} |->
                      IF p \in DOMAIN heap THEN heap[p] ELSE EmptyArena]
  BY DEF Create
<1> DEFINE c == [version |-> 0, nextId |-> first, tables |-> at]
           e == [version |-> 0, nextId |-> first, tables |-> [t \in Table |-> EmptyArena]]
<1>3. DOMAIN obj' = DOMAIN obj \cup {o} /\ obj'[o] = c
      /\ \A x \in DOMAIN obj : obj'[x] = obj[x]
  <2> HIDE DEF c
  <2>1. obj' = [x \in DOMAIN obj \cup {o} |-> IF x = o THEN c ELSE obj[x]]
    BY <1>2 DEF Put, c
  <2> QED BY <1>1, <2>1
<1>4. \A x \in DOMAIN obj : View(x)' = View(x)
  <2>1. \A p \in DOMAIN heap : heap'[p] = heap[p]
    BY <1>2
  <2> QED BY <1>1, <1>3, <2>1, ViewKept DEF NoDangling
<1>5. View(o)' = e
  <2>1. \A t \in Table : heap'[at[t]] = EmptyArena
    BY <1>2
  <2> QED BY <1>3, <2>1 DEF View
<1> HIDE DEF e
<1>6. Views' = [x \in DOMAIN Views \cup {o} |-> IF x = o THEN e ELSE Views[x]]
  BY <1>1, <1>3, <1>4, <1>5, ViewsAreView, ViewsAreViewNext
<1>7. Abstract!EmptyArena = EmptyArena
  BY DEF Abstract!EmptyArena, EmptyArena
<1>8. o \notin DOMAIN Views
  BY <1>1, ViewsAreView
<1> QED BY <1>6, <1>7, <1>8 DEF Abstract!Create, Abstract!Put, e

LEMMA CloneRefines ==
  ASSUME IInv, NEW th \in Thread, Clone(th)
  PROVE  UNCHANGED Views
<1>1. PICK q \in Addr \ DOMAIN heap : \E a : heap' = Put(heap, q, a)
  BY DEF Clone
<1>2. obj' = obj /\ \A p \in DOMAIN heap : heap'[p] = heap[p]
  BY <1>1 DEF Clone, Put
<1> QED BY <1>2, ViewsKept DEF IInv, NoDangling

LEMMA SwapRefines ==
  ASSUME IInv, NEW th \in Thread, Swap(th)
  PROVE  UNCHANGED Views
<1>1. /\ task[th].op = "swap" /\ UNCHANGED heap /\ Sole(th) /\ StoreOK
      /\ TaskOK(task[th])
  BY DEF Swap, IInv
<1>2. PICK w \in Work \cap DOMAIN obj, t \in Table : At(task[th], w, t)
  BY <1>1, TaskKinds DEF Swapping
<1>3. PICK q : q = task[th].held[t] /\ heap[q] = heap[obj[w].tables[t]]
  BY <1>1, <1>2 DEF Sole, At
<1>4. obj' = [obj EXCEPT ![w] = [obj[w] EXCEPT !.tables[t] = q]]
  <2>1. obj' = [obj EXCEPT ![w].tables[t] = q]
    BY <1>2, <1>3 DEF Swap, At
  <2> QED BY <2>1
<1>5. obj[w] \in Object /\ obj[w].tables \in [Table -> Addr]
  BY <1>1, <1>2 DEF StoreOK, Object
<1>6. obj' = [obj EXCEPT ![w] =
                [version |-> obj[w].version, nextId |-> obj[w].nextId,
                 tables |-> [obj[w].tables EXCEPT ![t] = q]]]
  BY <1>4, <1>5, TablesReplaced
<1>7. /\ DOMAIN obj' = DOMAIN obj
      /\ \A o \in DOMAIN obj \ {w} : obj'[o] = obj[o]
      /\ obj'[w].version = obj[w].version /\ obj'[w].nextId = obj[w].nextId
      /\ obj'[w].tables = [obj[w].tables EXCEPT ![t] = q]
  BY <1>2, <1>6
<1>8. \A u \in Table : heap[obj'[w].tables[u]] = heap[obj[w].tables[u]]
  BY <1>3, <1>5, <1>7
<1> QED BY <1>1, <1>7, <1>8, ViewsKept

LEMMA ReleaseRefines ==
  ASSUME IInv, NoDangling', NEW p \in DOMAIN heap, Release(p), UNCHANGED obj
  PROVE  UNCHANGED Views
<1>1. \A r \in DOMAIN heap' : heap'[r] = heap[r]
  BY ReleaseKeeps
<1> QED BY <1>1, ViewsKept DEF NoDangling

LEMMA DropOldRefines ==
  ASSUME IInv, IInv', NEW th \in Thread, DropOld(th)
  PROVE  UNCHANGED Views
<1>1. task[th].op = "drop" /\ UNCHANGED obj /\ NoDangling /\ StoreOK /\ TaskOK(task[th])
  BY DEF DropOld, IInv
<1>2. PICK w \in Work \cap DOMAIN obj, t \in Table :
        At(task[th], w, t) /\ DOMAIN task[th].held = {t}
  BY <1>1, TaskKinds DEF Swapping
<1>3. Release(task[th].held[t]) /\ task[th].held[t] \in DOMAIN heap
  BY <1>1, <1>2 DEF DropOld, At, NoDangling
<1> QED BY <1>1, <1>3, ReleaseRefines DEF IInv

LEMMA DropTableRefines ==
  ASSUME IInv, IInv', NEW th \in Thread, NEW t \in Table, DropTable(th, t)
  PROVE  UNCHANGED Views
BY ReleaseRefines DEF DropTable, IInv, NoDangling

(* The edit of an arena nobody else refers to is the abstract edit.         *)
LEMMA EditRefines ==
  ASSUME IInv, NEW th \in Thread, Edit(th)
  PROVE  \E w \in Work \cap DOMAIN Views, t \in Table : Abstract!EditWorkspace(w, t)
<1>1. /\ task[th].op = "edit" /\ TaskOK(task[th]) /\ StoreOK /\ NoDangling /\ Sole(th)
  BY DEF Edit, IInv
<1>2. PICK w \in Work \cap DOMAIN obj, t \in Table : At(task[th], w, t)
  BY <1>1, TaskKinds DEF Writing
<1>3. PICK p : p = obj[w].tables[t]
  OBVIOUS
<1>4. PICK e \in Edits(obj[w].nextId, heap[p]) :
        /\ obj' = [obj EXCEPT ![w].nextId = e.nextId]
        /\ heap' = [heap EXCEPT ![p] = e.arena]
  BY <1>2, <1>3 DEF Edit, At
<1>5. obj[w] \in Object /\ p \in DOMAIN heap
  BY <1>1, <1>2, <1>3 DEF StoreOK, NoDangling
<1>6. /\ DOMAIN obj' = DOMAIN obj
      /\ \A o \in DOMAIN obj \ {w} : obj'[o] = obj[o]
      /\ obj'[w].version = obj[w].version /\ obj'[w].nextId = e.nextId
      /\ obj'[w].tables = obj[w].tables
  BY <1>2, <1>4, <1>5 DEF Object
<1>7. \A o \in DOMAIN obj, u \in Table :
        heap'[obj[o].tables[u]] =
          IF o = w /\ u = t THEN e.arena ELSE heap[obj[o].tables[u]]
  <2>1. \A o \in DOMAIN obj, u \in Table :
          obj[o].tables[u] = p => o = w /\ u = t
    <3>1. Ref(w, t, p)
      BY <1>2, <1>3 DEF Ref
    <3>2. \A x \in Owner \cup Thread, u \in Table : Ref(x, u, p) => x = w
      BY <1>1, <1>2, <1>3 DEF Sole, At
    <3>3. \A x, u : Ref(x, u, p) => x = w /\ u = t
      BY <3>1, <3>2, RefFacts
    <3>4. \A o \in DOMAIN obj, u \in Table : obj[o].tables[u] = p => Ref(o, u, p)
      BY DEF Ref
    <3> QED BY <3>3, <3>4
  <2>2. heap'[p] = e.arena /\ \A r \in DOMAIN heap \ {p} : heap'[r] = heap[r]
    BY <1>4, <1>5
  <2> QED BY <1>1, <1>3, <2>1, <2>2 DEF NoDangling
<1>8. \A o \in DOMAIN obj \ {w} : View(o)' = View(o)
  BY <1>6, <1>7, ViewKept
<1>9. /\ Views[w].nextId = obj[w].nextId
      /\ Views[w].tables[t] = heap[p]
      /\ w \in DOMAIN Views
  BY <1>2, <1>3, ViewsAreView DEF View
<1>10. View(w)' = Abstract!Edited(w, t, e.nextId, e.arena)
  <2> DEFINE tb == [u \in Table |-> heap[obj[w].tables[u]]]
  <2>1. [u \in Table |-> heap'[obj'[w].tables[u]]] = [tb EXCEPT ![t] = e.arena]
    BY <1>2, <1>6, <1>7
  <2>2. View(w) = [version |-> obj[w].version, nextId |-> obj[w].nextId, tables |-> tb]
    BY DEF View
  <2>3. View(w)' = [version |-> obj[w].version, nextId |-> e.nextId,
                    tables |-> [tb EXCEPT ![t] = e.arena]]
    BY <1>6, <2>1 DEF View
  <2> HIDE DEF tb
  <2>4. Views[w].version = obj[w].version /\ Views[w].tables = tb
    BY <1>2, <2>2, ViewsAreView
  <2> QED BY <2>3, <2>4 DEF Abstract!Edited
<1>11. Abstract!Edit(w, t, e.nextId, e.arena)
  <2>1. Views' = [Views EXCEPT ![w] = Abstract!Edited(w, t, e.nextId, e.arena)]
    BY <1>6, <1>8, <1>10, ViewsAreView, ViewsAreViewNext
  <2> QED BY <2>1 DEF Abstract!Edit
<1>12. Abstract!EditWorkspace(w, t)
  <2>1. CASE \E v \in Value :
               e = [nextId |-> obj[w].nextId + 1, arena |-> Insert(heap[p], v, obj[w].nextId)]
    BY <2>1, <1>9, <1>11, SameArenaOps DEF Abstract!EditWorkspace, Abstract!InsertNew
  <2>2. CASE \E v \in Value, id \in RestoredIds :
               e = [nextId |-> IF id >= obj[w].nextId THEN id + 1 ELSE obj[w].nextId,
                    arena |-> Insert(heap[p], v, id)]
    BY <2>2, <1>9, <1>11, SameArenaOps DEF Abstract!EditWorkspace, Abstract!InsertWithId
  <2>3. CASE \E h \in Handles : e = [nextId |-> obj[w].nextId, arena |-> Erase(heap[p], h)]
    BY <2>3, <1>9, <1>11, SameArenaOps DEF Abstract!EditWorkspace, Abstract!EraseEntity
  <2>4. CASE \E h \in Handles, v \in Value :
               e = [nextId |-> obj[w].nextId, arena |-> Assign(heap[p], h, v)]
    BY <2>4, <1>9, <1>11, SameArenaOps DEF Abstract!EditWorkspace, Abstract!UpdateEntity
  <2> QED BY <2>1, <2>2, <2>3, <2>4 DEF Edits
<1> QED BY <1>2, <1>9, <1>12

(* Publish makes the copy, and for a commit the next version of both.       *)
LEMMA PublishRefines ==
  ASSUME IInv, NEW th \in Thread, Publish(th)
  PROVE  \/ \E o \in Snap, p \in Snap \cup Work : Abstract!Copy(o, p)
         \/ \E o, p \in Work : Abstract!Copy(o, p)
         \/ \E w \in Work, s \in Snap : Abstract!Commit(w, s)
<1> DEFINE k == task[th]
<1>1. /\ k.op = "copy" /\ DOMAIN k.held = Table /\ UNCHANGED heap
      /\ TaskOK(k) /\ StoreOK
  BY DEF Publish, IInv
<1>2. PICK o \in DOMAIN obj, d \in Owner \ DOMAIN obj :
        /\ k.on = {o} /\ k.to = {d}
        /\ \A u \in DOMAIN k.held : k.held[u] = obj[o].tables[u]
  BY <1>1, TaskKinds DEF Copying
<1>3. o \in Owner /\ o # d
  BY <1>1, <1>2 DEF StoreOK
<1> DEFINE ver  == IF o \in Work /\ d \in Snap THEN obj[o].version + 1
                                               ELSE obj[o].version
           copy == [version |-> ver, nextId |-> obj[o].nextId, tables |-> k.held]
<1>4. obj' = Put([obj EXCEPT ![o].version = ver], d, copy)
  BY <1>2 DEF Publish
<1>5. /\ DOMAIN obj' = DOMAIN obj \cup {d}
      /\ \A x \in DOMAIN obj \ {o} : obj'[x] = obj[x]
      /\ obj'[o].version = ver
      /\ obj'[o].nextId = obj[o].nextId /\ obj'[o].tables = obj[o].tables
      /\ obj'[d] = copy
  <2> DEFINE f == [obj EXCEPT ![o].version = ver]
  <2>1. /\ DOMAIN f = DOMAIN obj
        /\ \A x \in DOMAIN obj \ {o} : f[x] = obj[x]
        /\ f[o].version = ver /\ f[o].nextId = obj[o].nextId
        /\ f[o].tables = obj[o].tables
    BY <1>1, <1>2 DEF StoreOK, Object
  <2> HIDE DEF f, copy
  <2>2. obj' = [x \in DOMAIN f \cup {d} |-> IF x = d THEN copy ELSE f[x]]
    BY <1>4 DEF Put, f
  <2> QED BY <1>2, <1>3, <2>1, <2>2
<1> DEFINE tb == [t \in Table |-> heap[obj[o].tables[t]]]
           new == [version |-> ver, nextId |-> obj[o].nextId, tables |-> tb]
<1>6. \A x \in DOMAIN obj \ {o} : View(x)' = View(x)
  BY <1>1, <1>5, ViewKept
<1>7. View(o)' = new /\ View(d)' = new
  <2>1. [t \in Table |-> heap'[obj'[o].tables[t]]] = tb
    BY <1>1, <1>5
  <2>2. [t \in Table |-> heap'[obj'[d].tables[t]]] = tb
    <3>1. \A t \in Table : obj'[d].tables[t] = obj[o].tables[t]
      BY <1>1, <1>2, <1>5
    <3> QED BY <1>1, <3>1
  <2> HIDE DEF tb, ver
  <2>3. obj'[d].version = ver /\ obj'[d].nextId = obj[o].nextId
    BY <1>5
  <2> QED BY <1>5, <2>1, <2>2, <2>3 DEF View
<1>8. View(o) = [version |-> obj[o].version, nextId |-> obj[o].nextId, tables |-> tb]
  BY DEF View
<1>9. /\ o \in DOMAIN Views /\ d \notin DOMAIN Views
      /\ Views[o] = View(o)
  BY <1>2, ViewsAreView
<1> HIDE DEF tb, new
<1>10. CASE o \in Work /\ d \in Snap
  <2>1. new = [View(o) EXCEPT !.version = @ + 1]
    BY <1>8, <1>10 DEF new
  <2>2. Views' = [x \in DOMAIN Views \cup {o} \cup {d} |->
                    IF x = d \/ x = o THEN new ELSE Views[x]]
    BY <1>2, <1>5, <1>6, <1>7, ViewsAreView, ViewsAreViewNext
  <2>3. Abstract!Put(Abstract!Put(Views, o, new), d, new) =
          [x \in DOMAIN Views \cup {o} \cup {d} |->
             IF x = d \/ x = o THEN new ELSE Views[x]]
    BY DEF Abstract!Put
  <2>4. Abstract!Commit(o, d)
    BY <1>9, <2>1, <2>2, <2>3 DEF Abstract!Commit
  <2> QED BY <1>10, <2>4
<1>11. CASE ~(o \in Work /\ d \in Snap)
  <2>1. new = View(o)
    BY <1>8, <1>11 DEF new
  <2>2. Views' = [x \in DOMAIN Views \cup {d} |-> IF x = d THEN View(o) ELSE Views[x]]
    BY <1>2, <1>5, <1>6, <1>7, <2>1, ViewsAreView, ViewsAreViewNext
  <2>3. Abstract!Copy(o, d)
    BY <1>9, <2>2 DEF Abstract!Copy, Abstract!Put
  <2> QED BY <1>2, <1>3, <1>11, <2>3 DEF Owner
<1> QED BY <1>10, <1>11

LEMMA BeginDestroyRefines ==
  ASSUME IInv, NEW th \in Thread, NEW o \in Owner, BeginDestroy(th, o)
  PROVE  Abstract!Destroy(o)
<1>1. o \in DOMAIN obj /\ obj' = Without(obj, o) /\ UNCHANGED heap
  BY DEF BeginDestroy
<1>2. /\ DOMAIN obj' = DOMAIN obj \ {o}
      /\ \A x \in DOMAIN obj \ {o} : obj'[x] = obj[x]
  BY <1>1 DEF Without
<1>3. \A x \in DOMAIN obj \ {o} : View(x)' = View(x)
  BY <1>1, <1>2, ViewKept
<1>4. Views' = [x \in DOMAIN Views \ {o} |-> Views[x]]
  BY <1>2, <1>3, ViewsAreView, ViewsAreViewNext
<1> QED BY <1>1, <1>4, ViewsAreView DEF Abstract!Destroy

LEMMA StepRefines ==
  ASSUME IInv, IInv', [Next]_vars
  PROVE  [Abstract!Next]_Views
<1>1. CASE UNCHANGED <<obj, heap>>
  BY <1>1 DEF Views
<1>2. CASE Next /\ ~UNCHANGED <<obj, heap>>
  <2>1. PICK th \in Thread :
          \/ \E w \in Work : Create(th, w, 1)
          \/ \E s \in Snap : Create(th, s, NullId)
          \/ Clone(th)
          \/ Swap(th)
          \/ DropOld(th)
          \/ Edit(th)
          \/ Publish(th)
          \/ \E o \in Owner : BeginDestroy(th, o)
          \/ \E t \in Table : DropTable(th, t)
    BY <1>2 DEF Next, BeginRead, EndRead, BeginEdit, CheckCount, BeginCopy, CopyTable,
                Acquire
  <2>2. CASE \/ \E w \in Work : Create(th, w, 1)
             \/ \E s \in Snap : Create(th, s, NullId)
    <3>1. Abstract!NullId = NullId
      BY DEF Abstract!NullId, NullId
    <3> QED BY <2>2, <3>1, CreateRefines DEF Abstract!Next, Owner
  <2>3. CASE Clone(th) \/ Swap(th) \/ DropOld(th) \/ \E t \in Table : DropTable(th, t)
    BY <2>3, CloneRefines, SwapRefines, DropOldRefines, DropTableRefines
  <2>4. CASE Edit(th)
    BY <2>4, EditRefines DEF Abstract!Next
  <2>5. CASE Publish(th)
    BY <2>5, PublishRefines DEF Abstract!Next
  <2>6. CASE \E o \in Owner : BeginDestroy(th, o)
    BY <2>6, BeginDestroyRefines DEF Abstract!Next, Owner
  <2> QED BY <2>1, <2>2, <2>3, <2>4, <2>5, <2>6
<1> QED BY <1>1, <1>2 DEF vars

(* In every interleaving of the steps, the objects show a store in which    *)
(* they have tables of their own, copied, committed, edited and destroyed   *)
(* each in one step, although the code shares the tables and takes every    *)
(* one of these in several steps.                                           *)
THEOREM ThreadsImplement == Spec => ThreadsImplementSnapshotStore
<1>1. Init => Abstract!Init
  BY DEF Init, Abstract!Init, Views, Nothing
<1>2. IInv /\ IInv' /\ [Next]_vars => [Abstract!Next]_Views
  BY StepRefines
<1> QED BY <1>1, <1>2, SpecIInv, PTL DEF Spec, ThreadsImplementSnapshotStore, Abstract!Spec
=============================================================================
