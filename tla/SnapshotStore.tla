--------------------------- MODULE SnapshotStore ----------------------------
(***************************************************************************)
(* What Snapshot<Components...> and Workspace<Components...> promise, with *)
(* every table a value of its own: copying an object copies its tables,    *)
(* editing a workspace changes that workspace and nothing else, and a      *)
(* snapshot never changes.  CowStore shows that the shared, copy-on-write  *)
(* tables of the code keep this promise.                                   *)
(***************************************************************************)
EXTENDS ArenaOps

CONSTANTS
  Snap,        (* the snapshot objects a program can hold              *)
  Work,        (* the workspace objects a program can hold             *)
  Table,       (* Components...: one table per component type          *)
  RestoredIds, (* the ids insert_with_id() is called with              *)
  Handles      (* the handles clients present                          *)

VARIABLE store (* the objects that exist, with the tables they show    *)

Put(f, k, x) == [j \in DOMAIN f \cup {k} |-> IF j = k THEN x ELSE f[j]]

Init == store = [o \in {} |-> 0]

Create(o, firstId) ==
  /\ o \notin DOMAIN store
  /\ store' = Put(store, o, [version |-> 0, nextId |-> firstId,
                             tables |-> [t \in Table |-> EmptyArena]])

Copy(o, p) ==
  /\ o \in DOMAIN store
  /\ p \notin DOMAIN store
  /\ store' = Put(store, p, store[o])

Commit(w, s) ==
  /\ w \in DOMAIN store
  /\ s \notin DOMAIN store
  /\ LET committed == [store[w] EXCEPT !.version = @ + 1]
     IN  store' = Put(Put(store, w, committed), s, committed)

Destroy(o) ==
  /\ o \in DOMAIN store
  /\ store' = [p \in DOMAIN store \ {o} |-> store[p]]

(* w after an edit of its table t, which becomes a *)
Edited(w, t, nextId, a) ==
  [version |-> store[w].version,
   nextId  |-> nextId,
   tables  |-> [store[w].tables EXCEPT ![t] = a]]

Edit(w, t, nextId, a) == store' = [store EXCEPT ![w] = Edited(w, t, nextId, a)]

InsertNew(w, t, v) ==
  Edit(w, t, store[w].nextId + 1, Insert(store[w].tables[t], v, store[w].nextId))

InsertWithId(w, t, v, id) ==
  Edit(w, t, IF id >= store[w].nextId THEN id + 1 ELSE store[w].nextId,
       Insert(store[w].tables[t], v, id))

EraseEntity(w, t, h) ==
  Edit(w, t, store[w].nextId, Erase(store[w].tables[t], h))

UpdateEntity(w, t, h, v) ==
  Edit(w, t, store[w].nextId, Assign(store[w].tables[t], h, v))

EditWorkspace(w, t) ==
  \/ \E v \in Value : InsertNew(w, t, v)
  \/ \E v \in Value, id \in RestoredIds : InsertWithId(w, t, v, id)
  \/ \E h \in Handles : EraseEntity(w, t, h)
  \/ \E h \in Handles, v \in Value : UpdateEntity(w, t, h, v)

Next ==
  \/ \E w \in Work : Create(w, 1)
  \/ \E s \in Snap : Create(s, NullId)
  \/ \E o \in Snap, p \in Snap \cup Work : Copy(o, p)
  \/ \E o, p \in Work : Copy(o, p)
  \/ \E w \in Work, s \in Snap : Commit(w, s)
  \/ \E o \in Snap \cup Work : Destroy(o)
  \/ \E w \in Work \cap DOMAIN store, t \in Table : EditWorkspace(w, t)

Spec == Init /\ [][Next]_store
=============================================================================
