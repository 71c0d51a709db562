----------------------------- MODULE CowThreads -----------------------------
(***************************************************************************)
(* Snapshots and workspaces used from several threads, with CowTable's     *)
(* write() and the copying of shared_ptrs split into the steps other       *)
(* threads can come between.  Clients keep to the documented rule: a       *)
(* snapshot is shared freely, a workspace is used by one thread at a time, *)
(* and nothing is destroyed while it is in use.                            *)
(*                                                                         *)
(* `count' is the use count of every arena, and a thread's `held' are the  *)
(* references it owns itself: those of an object it is building or         *)
(* destroying, and the temporary of write()'s assignment.  allocate_id()   *)
(* and the version's increment touch a workspace nobody else may look at,  *)
(* so they are part of the step that ends the call.                        *)
(*                                                                         *)
(* Steps interleave: what this module shows, it shows of the order in      *)
(* which the steps happen, and not of the order C++ gives a program a      *)
(* right to.  The two differ in one place, SharedNow.                      *)
(***************************************************************************)
EXTENDS ArenaOps

CONSTANTS
  Thread,
  Snap,        (* the snapshot objects a program can hold              *)
  Work,        (* the workspace objects a program can hold             *)
  Table,       (* Components...: one table per component type          *)
  Addr,        (* the addresses make_shared() can return               *)
  RestoredIds, (* the ids insert_with_id() is called with              *)
  Handles,     (* the handles clients present                          *)
  MaxVersion,  (* bound: version of a workspace                        *)
  MaxId,       (* bound: largest id handed out                         *)
  MaxSlots     (* bound: slots of one arena                            *)

ASSUME OwnersAssumption == Snap \cap Work = {}
ASSUME ThreadAssumption == Thread \cap (Snap \cup Work) = {}
ASSUME InputAssumption  == RestoredIds \subseteq Nat /\ Handles \subseteq Handle

VARIABLES
  obj,    (* the objects that exist: version, next id, table addresses *)
  heap,   (* the arenas that exist, by address                         *)
  count,  (* use_count() of each of them                               *)
  task    (* what each thread is doing, and the references it holds    *)

vars == <<obj, heap, count, task>>
Owner == Snap \cup Work

Put(f, k, x)  == [j \in DOMAIN f \cup {k} |-> IF j = k THEN x ELSE f[j]]
Without(f, k) == [j \in DOMAIN f \ {k} |-> f[j]]
Nothing       == [t \in {} |-> 0]

(* A thread works on object `on' (and `to', when it copies) and table `at'. *)
Idle == [op |-> "idle", on |-> {}, to |-> {}, at |-> {}, held |-> Nothing]
Task(op, on, to, at, held) ==
  [op |-> op, on |-> on, to |-> to, at |-> at, held |-> held]

Busy == {o \in Owner : \E th \in Thread : o \in task[th].on \cup task[th].to}

Go(th, next) == task' = [task EXCEPT ![th] = next]

Init ==
  /\ obj = Nothing
  /\ heap = Nothing
  /\ count = Nothing
  /\ task = [th \in Thread |-> Idle]

-----------------------------------------------------------------------------
(* A defect of each step, used to show that the properties can fail.       *)

SharedByThree(p) == count[p] > 2
LastForgotten(p) == FALSE
AcquireLost(p)   == UNCHANGED <<count, heap>>
-----------------------------------------------------------------------------
(* use_count() > 1.  The code's is a relaxed load: it acquires nothing from *)
(* the releasing decrements it reads, so by the rules of C++ the finished   *)
(* reads (and clones) of the threads that made them do not happen before    *)
(* the edit in place that follows: a data race.  The outcomes a build can   *)
(* produce are still those of a step that reads the count: the other        *)
(* threads only read the arena, their loads are complete before their       *)
(* decrement, the edit's stores wait for the branch on this load, and the   *)
(* arena has not been written since this workspace came to refer to it.     *)
SharedNow(p) == count[p] > 1

(* The reference about to be dropped is the last one. *)
LastReference(p) == count[p] = 1

Acquire(p) ==
  /\ count' = [count EXCEPT ![p] = @ + 1]
  /\ UNCHANGED heap

Release(p) ==
  IF LastReference(p)
  THEN count' = Without(count, p) /\ heap' = Without(heap, p)
  ELSE count' = [count EXCEPT ![p] = @ - 1] /\ UNCHANGED heap

(* Default construction; nobody else can see the new arenas. *)
Create(th, o, firstId) ==
  /\ task[th] = Idle
  /\ o \notin DOMAIN obj \cup Busy
  /\ \E at \in [Table -> Addr \ DOMAIN heap] :
       /\ \A t, u \in Table : at[t] = at[u] => t = u
       /\ obj' = Put(obj, o, [version |-> 0, nextId |-> firstId, tables |-> at])
       /\ heap' = [p \in DOMAIN heap \cup {at[t] : t \in Table} |->
                     IF p \in DOMAIN heap THEN heap[p] ELSE EmptyArena]
       /\ count' = [p \in DOMAIN heap' |-> IF p \in DOMAIN heap THEN count[p] ELSE 1]
  /\ UNCHANGED task

(* for_each(), get(), find() ... on a snapshot's table *)
BeginRead(th, s, t) ==
  /\ task[th] = Idle
  /\ s \in DOMAIN obj
  /\ Go(th, Task("read", {s}, {}, {t}, Nothing))
  /\ UNCHANGED <<obj, heap, count>>

EndRead(th) ==
  /\ task[th].op = "read"
  /\ Go(th, Idle)
  /\ UNCHANGED <<obj, heap, count>>

-----------------------------------------------------------------------------
(* write() and the edit of the arena it returns. *)

BeginEdit(th, w, t) ==
  /\ task[th] = Idle
  /\ w \in DOMAIN obj \ Busy
  /\ Go(th, Task("check", {w}, {}, {t}, Nothing))
  /\ UNCHANGED <<obj, heap, count>>

CheckCount(th) ==
  /\ task[th].op = "check"
  /\ \E w \in task[th].on, t \in task[th].at :
       Go(th, Task(IF SharedNow(obj[w].tables[t]) THEN "clone" ELSE "edit",
                   {w}, {}, {t}, Nothing))
  /\ UNCHANGED <<obj, heap, count>>

Clone(th) ==
  /\ task[th].op = "clone"
  /\ \E w \in task[th].on, t \in task[th].at, q \in Addr \ DOMAIN heap :
       /\ heap' = Put(heap, q, heap[obj[w].tables[t]])
       /\ count' = Put(count, q, 1)
       /\ Go(th, Task("swap", {w}, {}, {t}, Put(Nothing, t, q)))
  /\ UNCHANGED obj

(* The move assignment swaps pointers; its temporary then drops the old one.*)
Swap(th) ==
  /\ task[th].op = "swap"
  /\ \E w \in task[th].on, t \in task[th].at :
       /\ obj' = [obj EXCEPT ![w].tables[t] = task[th].held[t]]
       /\ Go(th, Task("drop", {w}, {}, {t}, Put(Nothing, t, obj[w].tables[t])))
  /\ UNCHANGED <<heap, count>>

DropOld(th) ==
  /\ task[th].op = "drop"
  /\ \E w \in task[th].on, t \in task[th].at :
       /\ Release(task[th].held[t])
       /\ Go(th, Task("edit", {w}, {}, {t}, Nothing))
  /\ UNCHANGED obj

HasRoom(a) == a.free # << >> \/ Len(a.slots) < MaxSlots

(* What an edit may leave: the allocator and the table's arena. *)
Edits(n, a) ==
  {[nextId |-> n + 1, arena |-> Insert(a, v, n)] :
     v \in {x \in Value : n <= MaxId /\ HasRoom(a)}}
  \cup {[nextId |-> IF id >= n THEN id + 1 ELSE n, arena |-> Insert(a, v, id)] :
          v \in {x \in Value : HasRoom(a)}, id \in RestoredIds}
  \cup {[nextId |-> n, arena |-> Erase(a, h)] : h \in Handles}
  \cup {[nextId |-> n, arena |-> Assign(a, h, v)] : h \in Handles, v \in Value}

Edit(th) ==
  /\ task[th].op = "edit"
  /\ \E w \in task[th].on, t \in task[th].at :
       LET p == obj[w].tables[t]
       IN  \E e \in Edits(obj[w].nextId, heap[p]) :
             /\ obj' = [obj EXCEPT ![w].nextId = e.nextId]
             /\ heap' = [heap EXCEPT ![p] = e.arena]
  /\ Go(th, Idle)
  /\ UNCHANGED count

-----------------------------------------------------------------------------
(* Copying an object, opening a workspace on a snapshot, commit(). *)

BeginCopy(th, o, p) ==
  /\ task[th] = Idle
  /\ o \in DOMAIN obj
  /\ o \in Work => o \notin Busy
  /\ p \notin DOMAIN obj \cup Busy
  /\ o \in Work /\ p \in Snap => obj[o].version < MaxVersion
  /\ Go(th, Task("copy", {o}, {p}, {}, Nothing))
  /\ UNCHANGED <<obj, heap, count>>

CopyTable(th, t) ==
  /\ task[th].op = "copy"
  /\ t \notin DOMAIN task[th].held
  /\ \E o \in task[th].on :
       /\ Acquire(obj[o].tables[t])
       /\ Go(th, [task[th] EXCEPT !.held = Put(task[th].held, t, obj[o].tables[t])])
  /\ UNCHANGED obj

(* The copy exists; if it is a commit, the workspace builds on it. *)
Publish(th) ==
  /\ task[th].op = "copy"
  /\ DOMAIN task[th].held = Table
  /\ \E o \in task[th].on, p \in task[th].to :
       LET ver  == IF o \in Work /\ p \in Snap THEN obj[o].version + 1
                                               ELSE obj[o].version
           copy == [version |-> ver, nextId |-> obj[o].nextId,
                    tables |-> task[th].held]
       IN  obj' = Put([obj EXCEPT ![o].version = ver], p, copy)
  /\ Go(th, Idle)
  /\ UNCHANGED <<heap, count>>

-----------------------------------------------------------------------------
BeginDestroy(th, o) ==
  /\ task[th] = Idle
  /\ o \in DOMAIN obj \ Busy
  /\ obj' = Without(obj, o)
  /\ Go(th, Task("destroy", {}, {}, {}, obj[o].tables))
  /\ UNCHANGED <<heap, count>>

DropTable(th, t) ==
  /\ task[th].op = "destroy"
  /\ t \in DOMAIN task[th].held
  /\ Release(task[th].held[t])
  /\ LET left == Without(task[th].held, t)
     IN  Go(th, IF left = Nothing THEN Idle ELSE [task[th] EXCEPT !.held = left])
  /\ UNCHANGED obj

Next ==
  \E th \in Thread :
    \/ \E w \in Work : Create(th, w, 1)
    \/ \E s \in Snap : Create(th, s, NullId)
    \/ \E s \in Snap, t \in Table : BeginRead(th, s, t)
    \/ EndRead(th)
    \/ \E w \in Work, t \in Table : BeginEdit(th, w, t)
    \/ CheckCount(th)
    \/ Clone(th)
    \/ Swap(th)
    \/ DropOld(th)
    \/ Edit(th)
    \/ \E o, p \in Owner : BeginCopy(th, o, p)
    \/ \E t \in Table : CopyTable(th, t)
    \/ Publish(th)
    \/ \E o \in Owner : BeginDestroy(th, o)
    \/ \E t \in Table : DropTable(th, t)

Spec == Init /\ [][Next]_vars

-----------------------------------------------------------------------------
Object == [version : Nat, nextId : Nat, tables : [Table -> Addr]]

TypeOK ==
  /\ DOMAIN obj \subseteq Owner
  /\ \A o \in DOMAIN obj : obj[o] \in Object
  /\ DOMAIN heap \subseteq Addr
  /\ \A p \in DOMAIN heap : IsArena(heap[p])
  /\ count \in [DOMAIN heap -> Nat \ {0}]
  /\ \A th \in Thread :
       /\ task[th].op \in {"idle", "read", "check", "clone", "swap", "drop",
                           "edit", "copy", "destroy"}
       /\ task[th].on \cup task[th].to \subseteq Owner
       /\ task[th].at \subseteq Table
       /\ DOMAIN task[th].held \subseteq Table

(* The references to the arena at p that exist anywhere. *)
References(p) ==
  {r \in (DOMAIN obj) \X Table : obj[r[1]].tables[r[2]] = p}
  \cup {r \in Thread \X Table :
          r[2] \in DOMAIN task[r[1]].held /\ task[r[1]].held[r[2]] = p}

(* Between any two steps of any threads the use counts are exact, so no     *)
(* arena is freed while somebody refers to it and none outlives its last    *)
(* reference (cow_table.hpp, the shared_ptr of CowTable).                   *)
CountsExact ==
  /\ \A o \in DOMAIN obj, t \in Table : obj[o].tables[t] \in DOMAIN heap
  /\ \A p \in DOMAIN heap : count[p] = Cardinality(References(p))

(* The arenas a thread may be reading or writing between its steps. *)
Accessed(th) ==
  IF task[th].op \in {"read", "clone", "edit"}
  THEN {obj[o].tables[t] : o \in task[th].on, t \in task[th].at}
  ELSE {}

(* Between any two steps, while a thread is about to edit an arena in place,*)
(* the only reference to it is its workspace's and no other thread is still *)
(* inside a read or a clone of it: no reference can appear after write()    *)
(* has looked at the count (c-abi.md: snapshots "are safe to read           *)
(* concurrently from multiple threads").  That the accesses which have      *)
(* ended happen before the edit is not said here, and with the relaxed load *)
(* of SharedNow C++ does not give it.                                       *)
EditsExclusive ==
  \A th \in Thread : task[th].op = "edit" =>
    \A w \in task[th].on, t \in task[th].at :
      LET p == obj[w].tables[t]
      IN  /\ References(p) = {<<w, t>>}
          /\ \A other \in Thread \ {th} : p \notin Accessed(other)

Views ==
  [o \in DOMAIN obj |->
     [version |-> obj[o].version, nextId |-> obj[o].nextId,
      tables  |-> [t \in Table |-> heap[obj[o].tables[t]]]]]

Abstract == INSTANCE SnapshotStore WITH store <- Views

(* Whatever the interleaving of these steps, objects show the store in      *)
(* which every object has tables of its own, edited and copied in one step. *)
ThreadsImplementSnapshotStore == Abstract!Spec
=============================================================================
