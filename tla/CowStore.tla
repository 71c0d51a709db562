------------------------------ MODULE CowStore ------------------------------
(***************************************************************************)
(* Snapshot, Workspace and the CowTables they hold.  A CowTable is a       *)
(* shared_ptr to an arena: `heap' holds the arenas by address, `obj' the   *)
(* objects with one address per component type, and use_count() is the     *)
(* number of objects that refer to an address.  Moving an object is        *)
(* copying it and destroying the source.  One thread acts at a time here;  *)
(* CowThreads splits write() into its steps.                               *)
(***************************************************************************)
EXTENDS ArenaOps

CONSTANTS
  Snap,        (* the snapshot objects a program can hold              *)
  Work,        (* the workspace objects a program can hold             *)
  Table,       (* Components...: one table per component type          *)
  Addr,        (* the addresses make_shared() can return               *)
  RestoredIds, (* the ids insert_with_id() is called with              *)
  Handles,     (* the handles clients present                          *)
  MaxVersion,  (* bound: version of a workspace                        *)
  MaxId,       (* bound: largest id handed out (the code has 2^64 - 1) *)
  MaxSlots     (* bound: slots of one arena                            *)

ASSUME OwnersAssumption == Snap \cap Work = {}
ASSUME InputAssumption  == RestoredIds \subseteq Nat /\ Handles \subseteq Handle
ASSUME BoundAssumption  == MaxVersion \in Nat /\ MaxId \in Nat /\ MaxSlots \in Nat

VARIABLES
  obj,   (* the objects that exist: version, next id, table addresses  *)
  heap   (* the arenas that exist, by address                          *)

vars == <<obj, heap>>
Owner == Snap \cup Work

Put(f, k, x) == [j \in DOMAIN f \cup {k} |-> IF j = k THEN x ELSE f[j]]

ArenaOf(o, t) == heap[obj[o].tables[t]]

(* The addresses some object refers to; the others are freed. *)
Referenced(ob) == {ob[o].tables[t] : o \in DOMAIN ob, t \in Table}

-----------------------------------------------------------------------------
(* A defect of each operation, used to show that the properties can fail.  *)

KeepAll(ob, h) == h
NeverShared(w, t) == FALSE
AlwaysShared(w, t) == TRUE
AlwaysAdvanced(n, id) == id + 1
-----------------------------------------------------------------------------

Reclaim(ob, h) == [p \in Referenced(ob) |-> h[p]]

(* use_count() > 1 *)
Shared(w, t) ==
  \E o \in DOMAIN obj \ {w} : obj[o].tables[t] = obj[w].tables[t]

Init ==
  /\ obj = [o \in {} |-> 0]
  /\ heap = [p \in {} |-> EmptyArena]

(* A default-constructed object: each CowTable makes an arena.  A workspace *)
(* starts its ids at 1, a snapshot value-initialises its next id to 0.      *)
Create(o, firstId) ==
  /\ o \notin DOMAIN obj
  /\ \E at \in [Table -> Addr \ DOMAIN heap] :
       /\ \A t, u \in Table : at[t] = at[u] => t = u
       /\ obj' = Put(obj, o, [version |-> 0, nextId |-> firstId, tables |-> at])
       /\ heap' = [p \in DOMAIN heap \cup {at[t] : t \in Table} |->
                     IF p \in DOMAIN heap THEN heap[p] ELSE EmptyArena]

(* Copying a snapshot or a workspace, and opening a workspace on a snapshot:*)
(* the tables' shared_ptrs are copied.                                      *)
Copy(o, p) ==
  /\ o \in DOMAIN obj
  /\ p \notin DOMAIN obj
  /\ obj' = Put(obj, p, obj[o])
  /\ UNCHANGED heap

(* The result of commit() is kept as snapshot s. *)
Commit(w, s) ==
  /\ w \in DOMAIN obj
  /\ s \notin DOMAIN obj
  /\ obj[w].version < MaxVersion
  /\ LET committed == [obj[w] EXCEPT !.version = @ + 1]
     IN  obj' = Put(Put(obj, w, committed), s, committed)
  /\ UNCHANGED heap

Destroy(o) ==
  /\ o \in DOMAIN obj
  /\ obj' = [p \in DOMAIN obj \ {o} |-> obj[p]]
  /\ heap' = Reclaim(obj', heap)

(* w with its allocator at nextId and its table t at address q *)
Moved(w, t, nextId, q) ==
  [version |-> obj[w].version,
   nextId  |-> nextId,
   tables  |-> [obj[w].tables EXCEPT ![t] = q]]

(* CowTable::write() on table t of w, the allocator now at nextId and the   *)
(* table's arena replaced by a: in place if w alone refers to it, else in a *)
(* clone that w takes instead.                                              *)
Write(w, t, nextId, a) ==
  LET p == obj[w].tables[t]
  IN  \/ /\ ~Shared(w, t)
         /\ obj' = [obj EXCEPT ![w] = Moved(w, t, nextId, p)]
         /\ heap' = [heap EXCEPT ![p] = a]
      \/ /\ Shared(w, t)
         /\ \E q \in Addr \ DOMAIN heap :
              /\ obj' = [obj EXCEPT ![w] = Moved(w, t, nextId, q)]
              /\ heap' = Reclaim(obj', Put(heap, q, a))

HasRoom(a) == a.free # << >> \/ Len(a.slots) < MaxSlots

(* insert(): the id is the allocator's next. *)
InsertNew(w, t, v) ==
  /\ w \in DOMAIN obj
  /\ obj[w].nextId <= MaxId
  /\ HasRoom(ArenaOf(w, t))
  /\ Write(w, t, obj[w].nextId + 1, Insert(ArenaOf(w, t), v, obj[w].nextId))

(* The allocator after a restored id: past it, and never back. *)
Advanced(n, id) == IF id >= n THEN id + 1 ELSE n

InsertWithId(w, t, v, id) ==
  /\ w \in DOMAIN obj
  /\ HasRoom(ArenaOf(w, t))
  /\ Write(w, t, Advanced(obj[w].nextId, id), Insert(ArenaOf(w, t), v, id))

EraseEntity(w, t, h) ==
  /\ w \in DOMAIN obj
  /\ Write(w, t, obj[w].nextId, Erase(ArenaOf(w, t), h))

(* try_get() takes the writable table, so it may clone without changing it. *)
TryGetEntity(w, t) ==
  /\ w \in DOMAIN obj
  /\ Write(w, t, obj[w].nextId, ArenaOf(w, t))

(* *w.try_get(h) = v, with no call in between *)
UpdateEntity(w, t, h, v) ==
  /\ w \in DOMAIN obj
  /\ Write(w, t, obj[w].nextId, Assign(ArenaOf(w, t), h, v))

EditWorkspace(w, t) ==
  \/ \E v \in Value : InsertNew(w, t, v)
  \/ \E v \in Value, id \in RestoredIds : InsertWithId(w, t, v, id)
  \/ \E h \in Handles : EraseEntity(w, t, h)
  \/ \E h \in Handles, v \in Value : UpdateEntity(w, t, h, v)
  \/ TryGetEntity(w, t)

Next ==
  \/ \E w \in Work : Create(w, 1)
  \/ \E s \in Snap : Create(s, NullId)
  \/ \E o \in Snap, p \in Owner : Copy(o, p)
  \/ \E o, p \in Work : Copy(o, p)
  \/ \E w \in Work, s \in Snap : Commit(w, s)
  \/ \E o \in Owner : Destroy(o)
  \/ \E w \in Work, t \in Table : EditWorkspace(w, t)

Spec == Init /\ [][Next]_vars

-----------------------------------------------------------------------------
Object == [version : Nat, nextId : Nat, tables : [Table -> Addr]]

(* The objects and arenas that exist, every referenced arena and no other.  *)
TypeOK ==
  /\ DOMAIN obj \subseteq Owner
  /\ obj \in [DOMAIN obj -> Object]
  /\ heap = [p \in DOMAIN heap |-> heap[p]]
  /\ DOMAIN heap = Referenced(obj)
  /\ \A p \in DOMAIN heap : IsArena(heap[p])

(* What a reader of object o sees. *)
View(o) == [version |-> obj[o].version, nextId |-> obj[o].nextId,
            tables  |-> [t \in Table |-> ArenaOf(o, t)]]

(* The objects as if each had tables of its own. *)
Views == [o \in DOMAIN obj |-> View(o)]

Abstract == INSTANCE SnapshotStore WITH store <- Views

(* Sharing cannot be observed: the copy-on-write store behaves as the one   *)
(* in which every object has its own tables (architecture.md, Snapshots and *)
(* workspaces; cow_table.hpp, write()).                                     *)
ImplementsSnapshotStore == Abstract!Spec

OneViewChanges ==
  \A o \in DOMAIN obj \cap DOMAIN obj' :
    View(o)' # View(o) =>
      /\ o \in Work
      /\ \A p \in DOMAIN obj \cap DOMAIN obj' : p # o => View(p)' = View(p)

(* No step changes what an existing snapshot shows, and a step that changes *)
(* what one workspace shows changes no other object (workspace.hpp: commit  *)
(* "without modifying the snapshot the workspace was opened from").         *)
EditsStayPrivate == [][OneViewChanges]_vars

SharedTablesMove ==
  \A o \in DOMAIN obj \cap DOMAIN obj', t \in Table :
    obj'[o].tables[t] # obj[o].tables[t] => obj[o].tables[t] \in Referenced(obj')

(* Structural sharing: a table is cloned only away from an arena that       *)
(* somebody else still shows; nothing is copied for its only owner          *)
(* (cow_table.hpp: a table nobody edited is "shared, not duplicated").      *)
ClonesOnlyShared == [][SharedTablesMove]_vars

(* The allocator of every object is past every id now in its tables.        *)
IdsBehind ==
  \A o \in DOMAIN obj, t \in Table :
    \A i \in DOMAIN ArenaOf(o, t).slots : ArenaOf(o, t).slots[i].id < obj[o].nextId

NeverBack ==
  \A o \in DOMAIN obj \cap DOMAIN obj' : obj'[o].nextId >= obj[o].nextId

(* A step leaves the allocator of every object past every id any of its     *)
(* tables holds, and never takes it back: so it is past every id they ever  *)
(* held, erased ones included, in whatever order ids were restored to the   *)
(* tables that share it, and insert() never gives an entity the id of       *)
(* another (workspace.hpp, insert_with_id()).                               *)
AllocatorAhead == [][IdsBehind' /\ NeverBack]_vars
=============================================================================
