----------------------------- MODULE BoardCodec -----------------------------
(***************************************************************************)
(* BoardSnapshot and its wire form.  Each layer writes its tables in a     *)
(* fixed order, each table as the list for_each() visits, and is read back *)
(* into a default workspace by insert_with_id(), entry by entry.  What the *)
(* wire form leaves out is what matters here: the id allocator, the free   *)
(* list, the generations and the commit count are rebuilt, not restored.   *)
(* An entity's fields are written and read unchanged, so an entity is a    *)
(* member of Value.                                                        *)
(***************************************************************************)
EXTENDS ArenaOps

CONSTANTS
  Layer,       (* EntityDomain: the layers of a board                     *)
  TablesOf     (* TablesOf[l]: the component tables of l, in wire order   *)

CurrentFormatVersion == [major |-> 1, minor |-> 0]

TableSet(l) == {TablesOf[l][k] : k \in DOMAIN TablesOf[l]}

(* Each table of a layer has one place in it. *)
ASSUME TablesAssumption ==
  \A l \in Layer :
    /\ TablesOf[l] \in Seq(TableSet(l))
    /\ \A j, k \in DOMAIN TablesOf[l] : TablesOf[l][j] = TablesOf[l][k] => j = k

-----------------------------------------------------------------------------
(* Defects of the reader, used to show that the properties can fail.       *)

NullFirst(l) == [nextId |-> 0, tables |-> [t \in TableSet(l) |-> EmptyArena]]

AlwaysAdvanced(n, id) == id + 1

InsertFresh(w, t, entry) ==
  [nextId |-> w.nextId + 1,
   tables |-> [w.tables EXCEPT ![t] = Insert(@, entry.value, w.nextId)]]

FirstVector(l, k) == 1
-----------------------------------------------------------------------------
(* A default-constructed workspace of layer l. *)
EmptyWorkspace(l) ==
  [nextId |-> 1, tables |-> [t \in TableSet(l) |-> EmptyArena]]

EmptyBoard ==
  [version |-> CurrentFormatVersion,
   layers  |-> [l \in Layer |-> EmptyWorkspace(l)],
   extensions |-> << >>]

(* The allocator after a restored id: past it, and never back. *)
Advanced(n, id) == IF id >= n THEN id + 1 ELSE n

(* Workspace::insert_with_id() *)
InsertWithId(w, t, entry) ==
  [nextId |-> Advanced(w.nextId, entry.id),
   tables |-> [w.tables EXCEPT ![t] = Insert(@, entry.value, entry.id)]]

(* The vector of the wire form that is read into a layer's k-th table. *)
VectorOf(l, k) == k

SerializeTable(a) ==
  LET live == Entries(a)
  IN  [k \in DOMAIN live |-> [id |-> live[k].id, value |-> live[k].value]]

SerializeLayer(l, s) ==
  [k \in DOMAIN TablesOf[l] |-> SerializeTable(s.tables[TablesOf[l][k]])]

(* insert_entries(): every entry of a vector, in order *)
DeserializeTable(w, t, entries) ==
  LET after[n \in 0 .. Len(entries)] ==
        IF n = 0 THEN w ELSE InsertWithId(after[n - 1], t, entries[n])
  IN  after[Len(entries)]

DeserializeLayer(l, vectors) ==
  LET after[k \in 0 .. Len(TablesOf[l])] ==
        IF k = 0 THEN EmptyWorkspace(l)
        ELSE DeserializeTable(after[k - 1], TablesOf[l][k], vectors[VectorOf(l, k)])
  IN  after[Len(TablesOf[l])]

Serialize(board) ==
  [version |-> board.version,
   layers  |-> [l \in Layer |-> SerializeLayer(l, board.layers[l])],
   extensions |-> board.extensions]

(* A reader rejects an unknown major and tolerates an unknown minor. *)
Supported(bytes) == bytes.version.major = CurrentFormatVersion.major

DeserializeBoard(bytes) ==
  [version |-> bytes.version,
   layers  |-> [l \in Layer |-> DeserializeLayer(l, bytes.layers[l])],
   extensions |-> bytes.extensions]
=============================================================================
