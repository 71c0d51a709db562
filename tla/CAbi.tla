-------------------------------- MODULE CAbi --------------------------------
(***************************************************************************)
(* The C interface (pcbir.h): boards, layer snapshots, workspaces and      *)
(* diagnostics lists behind opaque handles, the tables they share, the     *)
(* names a caller was handed, and the last error of each thread.           *)
(*                                                                         *)
(* `obj' gives each handle that is not freed the layers behind it: all     *)
(* three for a board, one for a snapshot, connectivity for a workspace.  A *)
(* layer is its id allocator and the addresses of its tables in `heap'.    *)
(* A call is one step: calls on one handle are not concurrent here, and    *)
(* CowThreads takes write() apart.  An entity's fields other than its name *)
(* are not kept, nor is the version a commit counts: no call reads it.     *)
(***************************************************************************)
EXTENDS ArenaOps

CONSTANTS
  Thread,
  Board, Snap, Work, List,  (* the handles of each type                     *)
  Files,                    (* the buffers and files a caller may load      *)
  Names,                    (* the names insert_net() is called with        *)
  Handles, Ids, Positions,  (* arguments of the read calls                  *)
  MaxId,                    (* bound: largest id allocated (2^64 - 1)       *)
  MaxFaults                 (* bound: findings of a validate()              *)

ASSUME HandlesAssumption ==
  Board \cap Snap = {} /\ Board \cap Work = {} /\ Snap \cap Work = {}
ASSUME ArgumentsAssumption ==
  Names \subseteq Value /\ Handles \subseteq Handle /\ Positions \subseteq Nat

VARIABLES
  obj,       (* the layers behind each live handle                          *)
  heap,      (* the tables, by address                                      *)
  lists,     (* the live diagnostics lists: how many findings each has      *)
  buffer,    (* the output of save_bytes(), until bytes_free()              *)
  borrowed,  (* a `const char*' name the caller keeps, and where it points  *)
  errors,    (* g_last_error of each thread, as the status it came with     *)
  answer     (* the status of the last call                                 *)

vars == <<obj, heap, lists, buffer, borrowed, errors, answer>>
state == <<obj, heap, lists, buffer, borrowed>>

OK           == "OK"
INVALID      == "INVALID_ARGUMENT"
NOT_FOUND    == "NOT_FOUND"
CORRUPT      == "CORRUPT_BUFFER"
UNSUPPORTED  == "UNSUPPORTED_VERSION"
IO           == "IO"
UNKNOWN      == "UNKNOWN"
Status       == {OK, INVALID, NOT_FOUND, CORRUPT, UNSUPPORTED, IO, UNKNOWN}

(* The tables of each layer the interface reads. *)
Kinds == [geometry     |-> {"via"},
          connectivity |-> {"net", "pin"},
          stackup      |-> {"material", "layer"}]
Layer == DOMAIN Kinds
Kind  == UNION {Kinds[l] : l \in Layer}
LayerOf(k) == CHOOSE l \in Layer : k \in Kinds[l]

Entity == [id : Nat, value : Value]

(* deserialize() fails, or yields the entities of every kind. *)
ASSUME FilesAssumption ==
  \A f \in Files : /\ f.status \in Status
                   /\ f.status = OK => \A k \in Kind : f.content[k] \in Seq(Entity)

Put(f, x, y) == [z \in DOMAIN f \cup {x} |-> IF z = x THEN y ELSE f[z]]

TablesOf(o)    == UNION {{o[l].tables[k] : k \in Kinds[l]} : l \in DOMAIN o}
Referenced(ob) == UNION {TablesOf(ob[o]) : o \in DOMAIN ob}
ArenaOf(o, k)  == heap[obj[o][LayerOf(k)].tables[k]]
KindsOf(o)     == UNION {Kinds[l] : l \in DOMAIN obj[o]}

Snapshots(k) == {s \in Snap \cap DOMAIN obj : LayerOf(k) \in DOMAIN obj[s]}

-----------------------------------------------------------------------------
(* A defect of some operations, used to show that the properties can fail.  *)

(* the target's slot index taken for its position, with no find() *)
HandleAtSlot(a, i) ==
  IF i + 1 \in DOMAIN a.slots
  THEN [index |-> i + 1, gen |-> a.slots[i + 1].gen]
  ELSE NullHandle

NeverShared(w) == FALSE

(* the tables of a freed handle are never given back *)
FreeLeaks(o) ==
  /\ o \in DOMAIN obj
  /\ obj' = [x \in DOMAIN obj \ {o} |-> obj[x]]
  /\ borrowed' = {n \in borrowed : n.owner # o}
  /\ answer' = OK
  /\ UNCHANGED <<heap, lists, buffer, errors>>
-----------------------------------------------------------------------------
(* What a call returns.                                                     *)

(* set_last_error() writes the caller's own message, and only on failure. *)
Reply(t, status) ==
  /\ answer' = status
  /\ errors' = IF status = OK THEN errors ELSE [errors EXCEPT ![t] = status]

(* A call that returns without changing anything a handle leads to. *)
Answer(t, status) == Reply(t, status) /\ UNCHANGED state

NullArgument(t) == Answer(t, INVALID)

(* translate_exceptions(): an exception other than FormatError, so also     *)
(* bad_alloc, in a call that has changed nothing when it is thrown.         *)
Throws(t) == Answer(t, UNKNOWN)

LastError(t) == errors[t]

Found(h) == IF h = NullHandle THEN NOT_FOUND ELSE OK

(* handle_at(): the id of the i-th live slot, looked up again. *)
HandleAt(a, i) ==
  IF i < Len(Entries(a)) THEN Find(a, Entries(a)[i + 1].id) ELSE NullHandle

-----------------------------------------------------------------------------
(* Boards.                                                                  *)

Top(h) == IF h = << >> THEN 0 ELSE CHOOSE p \in DOMAIN h : \A q \in DOMAIN h : q <= p

Rank == [via |-> 1, net |-> 2, pin |-> 3, material |-> 4, layer |-> 5]

(* New tables for one layer or several; the addresses are the next unused. *)
Allocated(ls, arenas) ==
  LET kinds == UNION {Kinds[l] : l \in ls}
      at(k) == Top(heap) + Rank[k]
  IN  [p \in DOMAIN heap \cup {at(k) : k \in kinds} |->
         IF p \in DOMAIN heap THEN heap[p]
         ELSE arenas[CHOOSE k \in kinds : p = at(k)]]

Fresh(l, nextId) ==
  [nextId |-> nextId, tables |-> [k \in Kinds[l] |-> Top(heap) + Rank[k]]]

(* insert_with_id() on each entity a buffer holds, in order *)
Restored(entries) ==
  LET after[n \in 0 .. Len(entries)] ==
        IF n = 0 THEN EmptyArena
        ELSE Insert(after[n - 1], entries[n].value, entries[n].id)
  IN  after[Len(entries)]

(* the allocator after those insertions: past every id of the layer *)
NextIdAfter(content, l) ==
  LET used == {0} \cup UNION {{content[k][i].id : i \in DOMAIN content[k]} : k \in Kinds[l]}
  IN  1 + CHOOSE n \in used : \A m \in used : m <= n

(* deserialize_board(), or the status its FormatError translates to *)
Load(t, f) ==
  \/ /\ f.status # OK
     /\ Answer(t, f.status)
  \/ /\ f.status = OK
     /\ \E b \in Board \ DOMAIN obj :
          obj' = Put(obj, b, [l \in Layer |-> Fresh(l, NextIdAfter(f.content, l))])
     /\ heap' = Allocated(Layer, [k \in Kind |-> Restored(f.content[k])])
     /\ Reply(t, OK)
     /\ UNCHANGED <<lists, buffer, borrowed>>

LoadFile(t)  == \E f \in Files : Load(t, f)
LoadBytes(t) == \E f \in {g \in Files : g.status # IO} \cup buffer : Load(t, f)

(* serialize() walks the live slots, with no use of the index. *)
Content(o) ==
  [k \in KindsOf(o) |-> [i \in DOMAIN Entries(ArenaOf(o, k)) |->
                           [id    |-> Entries(ArenaOf(o, k))[i].id,
                            value |-> Entries(ArenaOf(o, k))[i].value]]]

SaveBytes(t, b) ==
  /\ b \in Board \cap DOMAIN obj
  /\ buffer = {}
  /\ buffer' = {[status |-> OK, content |-> Content(b)]}
  /\ Reply(t, OK)
  /\ UNCHANGED <<obj, heap, lists, borrowed>>

BytesFree ==
  /\ buffer # {}
  /\ buffer' = {}
  /\ answer' = OK
  /\ UNCHANGED <<obj, heap, lists, borrowed, errors>>

FormatVersion(t, b) == b \in Board \cap DOMAIN obj /\ Answer(t, OK)

(* A handle of its own onto one layer of the board: the tables are shared. *)
BoardLayer(t, b, l, s) ==
  /\ b \in Board \cap DOMAIN obj
  /\ s \in Snap \ DOMAIN obj
  /\ obj' = Put(obj, s, [m \in {l} |-> obj[b][m]])
  /\ Reply(t, OK)
  /\ UNCHANGED <<heap, lists, buffer, borrowed>>

WithConnectivity(t, b, s, c) ==
  /\ b \in Board \cap DOMAIN obj
  /\ s \in Snapshots("net")
  /\ c \in Board \ DOMAIN obj
  /\ obj' = Put(obj, c, [obj[b] EXCEPT !.connectivity = obj[s].connectivity])
  /\ Reply(t, OK)
  /\ UNCHANGED <<heap, lists, buffer, borrowed>>

(* Every free of a board, a snapshot or a workspace: a table goes with the  *)
(* last object that refers to it.  The names of a snapshot go with it.      *)
Free(o) ==
  /\ o \in DOMAIN obj
  /\ obj' = [x \in DOMAIN obj \ {o} |-> obj[x]]
  /\ heap' = [p \in Referenced(obj') |-> heap[p]]
  /\ borrowed' = {n \in borrowed : n.owner # o}
  /\ answer' = OK
  /\ UNCHANGED <<lists, buffer, errors>>

-----------------------------------------------------------------------------
(* Read calls on a snapshot.                                                *)

(* The calls every entity kind has, in the order of the source: the count,  *)
(* the handle at a position, the handle of an id, and the id of a handle -  *)
(* which is 0, with status OK, when the handle is stale.                    *)
Lookup(t, s, k) ==
  \/ NullArgument(t)
  \/ Answer(t, OK)
  \/ \E i \in Positions : Answer(t, Found(HandleAt(ArenaOf(s, k), i)))
  \/ \E id \in Ids : Answer(t, Found(Find(ArenaOf(s, k), id)))

(* a getter of a number or of another entity's id *)
ReadField(t, s, k) ==
  \E h \in Handles :
    Answer(t, IF Located(ArenaOf(s, k), h) THEN OK ELSE NOT_FOUND)

(* A getter of a name, which hands out a pointer into the table. *)
ReadName(t, s, k) ==
  \E h \in Handles :
    \/ /\ ~Located(ArenaOf(s, k), h)
       /\ Answer(t, NOT_FOUND)
    \/ /\ Located(ArenaOf(s, k), h)
       /\ borrowed' = {[owner |-> s, kind |-> k, slot |-> h.index,
                        addr  |-> obj[s][LayerOf(k)].tables[k],
                        text  |-> TryGet(ArenaOf(s, k), h)]}
       /\ Reply(t, OK)
       /\ UNCHANGED <<obj, heap, lists, buffer>>

NetCalls(t, s)      == Lookup(t, s, "net") \/ ReadName(t, s, "net")
PinCalls(t, s)      == Lookup(t, s, "pin") \/ ReadField(t, s, "pin")
ViaCalls(t, s)      == Lookup(t, s, "via") \/ ReadField(t, s, "via")
MaterialCalls(t, s) ==
  Lookup(t, s, "material") \/ ReadName(t, s, "material") \/ ReadField(t, s, "material")
LayerCalls(t, s)    ==
  Lookup(t, s, "layer") \/ ReadName(t, s, "layer") \/ ReadField(t, s, "layer")

(* validate(): a list of its own, whatever becomes of the snapshot.  What   *)
(* the validators find is the subject of Diagnostics; here it is any number.*)
Validate(t, d) ==
  /\ d \in List \ DOMAIN lists
  /\ \E n \in 0 .. MaxFaults : lists' = Put(lists, d, n)
  /\ Reply(t, OK)
  /\ UNCHANGED <<obj, heap, buffer, borrowed>>

DiagnosticsAt(t, d) ==
  /\ d \in DOMAIN lists
  /\ \E i \in Positions : Answer(t, IF i < lists[d] THEN OK ELSE INVALID)

DiagnosticsFree(d) ==
  /\ d \in DOMAIN lists
  /\ lists' = [x \in DOMAIN lists \ {d} |-> lists[x]]
  /\ answer' = OK
  /\ UNCHANGED <<obj, heap, buffer, borrowed, errors>>

DiagnosticsCalls(t, d) ==
  Validate(t, d) \/ DiagnosticsAt(t, d) \/ DiagnosticsFree(d)

GeometryDiagnostics(t, s, d)     == s \in Snapshots("via") /\ DiagnosticsCalls(t, d)
ConnectivityDiagnostics(t, s, d) == s \in Snapshots("net") /\ DiagnosticsCalls(t, d)
StackupDiagnostics(t, s, d)      == s \in Snapshots("layer") /\ DiagnosticsCalls(t, d)

-----------------------------------------------------------------------------
(* Workspaces.                                                              *)

NetsOf(w) == obj[w].connectivity.tables.net

(* use_count() > 1 *)
Shared(w) == \E o \in DOMAIN obj \ {w} : NetsOf(w) \in TablesOf(obj[o])

WorkspaceCreate(t, w) ==
  /\ w \in Work \ DOMAIN obj
  /\ obj' = Put(obj, w, [l \in {"connectivity"} |-> Fresh(l, 1)])
  /\ heap' = Allocated({"connectivity"}, [k \in Kind |-> EmptyArena])
  /\ Reply(t, OK)
  /\ UNCHANGED <<lists, buffer, borrowed>>

(* A defect: the snapshot's tables are moved instead of copied. *)
MovedFromSnapshot(t, s, w) ==
  /\ w \in Work \ DOMAIN obj
  /\ obj' = [Put(obj, w, obj[s]) EXCEPT ![s] = [l \in {"connectivity"} |-> Fresh(l, 1)]]
  /\ heap' = Allocated({"connectivity"}, [k \in Kind |-> EmptyArena])
  /\ Reply(t, OK)
  /\ UNCHANGED <<lists, buffer, borrowed>>

WorkspaceFromSnapshot(t, s, w) ==
  /\ w \in Work \ DOMAIN obj
  /\ obj' = Put(obj, w, obj[s])
  /\ Reply(t, OK)
  /\ UNCHANGED <<heap, lists, buffer, borrowed>>

(* The id is the allocator's next whatever happens later. *)
IdTaken(w) == [obj EXCEPT ![w].connectivity.nextId = @ + 1]

(* write(): in place if w alone refers to the table, else in a clone. *)
WriteNets(w, a) ==
  \/ /\ ~Shared(w)
     /\ obj' = IdTaken(w)
     /\ heap' = [heap EXCEPT ![NetsOf(w)] = a]
  \/ /\ Shared(w)
     /\ obj' = [IdTaken(w) EXCEPT ![w].connectivity.tables.net = Top(heap) + 1]
     /\ heap' = Put(heap, Top(heap) + 1, a)

(* Arena::insert() when the index cannot grow: the slot is filled already. *)
InsertUnindexed(a, v, id) == [Insert(a, v, id) EXCEPT !.idIndex = a.idIndex]

(* insert_net(): memory may run out before the clone, after it, or between  *)
(* the slot and the index.                                                  *)
InsertNet(t, w, v) ==
  LET nets == ArenaOf(w, "net")
      id   == obj[w].connectivity.nextId
  IN  /\ w \in Work \cap DOMAIN obj
      /\ id <= MaxId
      /\ \/ WriteNets(w, Insert(nets, v, id)) /\ Reply(t, OK)
         \/ WriteNets(w, InsertUnindexed(nets, v, id)) /\ Reply(t, UNKNOWN)
         \/ WriteNets(w, nets) /\ Reply(t, UNKNOWN)
         \/ Shared(w) /\ obj' = IdTaken(w) /\ UNCHANGED heap /\ Reply(t, UNKNOWN)
      /\ UNCHANGED <<lists, buffer, borrowed>>

WorkspaceCommit(t, w, s) ==
  /\ w \in Work \cap DOMAIN obj
  /\ s \in Snap \ DOMAIN obj
  /\ obj' = Put(obj, s, obj[w])
  /\ Reply(t, OK)
  /\ UNCHANGED <<heap, lists, buffer, borrowed>>

-----------------------------------------------------------------------------
Init ==
  /\ obj = << >>
  /\ heap = << >>
  /\ lists = << >>
  /\ buffer = {}
  /\ borrowed = {}
  /\ errors = [t \in Thread |-> OK]
  /\ answer = OK

BoardCall(t) ==
  \/ LoadFile(t) \/ LoadBytes(t) \/ BytesFree
  \/ \E b \in Board : SaveBytes(t, b) \/ FormatVersion(t, b)
  \/ \E b \in Board, l \in Layer, s \in Snap : BoardLayer(t, b, l, s)
  \/ \E b, c \in Board, s \in Snap : WithConnectivity(t, b, s, c)
  \/ \E o \in Board \cup Snap \cup Work : Free(o)

ReadCall(t) ==
  \/ \E s \in Snapshots("net") : NetCalls(t, s) \/ PinCalls(t, s)
  \/ \E s \in Snapshots("via") : ViaCalls(t, s)
  \/ \E s \in Snapshots("layer") : MaterialCalls(t, s) \/ LayerCalls(t, s)
  \/ \E s \in Snap, d \in List : \/ GeometryDiagnostics(t, s, d)
                                 \/ ConnectivityDiagnostics(t, s, d)
                                 \/ StackupDiagnostics(t, s, d)

WorkspaceCall(t) ==
  \E w \in Work :
    \/ WorkspaceCreate(t, w)
    \/ \E s \in Snapshots("net") : WorkspaceFromSnapshot(t, s, w)
    \/ \E v \in Names : InsertNet(t, w, v)
    \/ \E s \in Snap : WorkspaceCommit(t, w, s)

Next == \E t \in Thread :
  BoardCall(t) \/ ReadCall(t) \/ WorkspaceCall(t) \/ NullArgument(t) \/ Throws(t)

Spec == Init /\ [][Next]_vars

-----------------------------------------------------------------------------
LayersOf(o) ==
  IF o \in Board THEN Layer
  ELSE IF o \in Work THEN {"connectivity"} ELSE DOMAIN obj[o]

(* Every live handle leads to the layers of its type, and the tables that   *)
(* exist are those some handle refers to.                                   *)
TypeOK ==
  /\ DOMAIN obj \subseteq Board \cup Snap \cup Work
  /\ \A o \in DOMAIN obj :
       /\ DOMAIN obj[o] = LayersOf(o)
       /\ \E l \in Layer : o \in Board \/ DOMAIN obj[o] = {l}
       /\ \A l \in DOMAIN obj[o] : obj[o][l].nextId \in Nat
  /\ DOMAIN heap = Referenced(obj)
  /\ \A p \in DOMAIN heap : IsArena(heap[p])
  /\ DOMAIN lists \subseteq List
  /\ errors \in [Thread -> Status]
  /\ answer \in Status

(* A name a getter returned reads the same for as long as its snapshot's    *)
(* handle is not freed, whatever is committed, freed or saved meanwhile     *)
(* (pcbir.h: valid "for exactly that snapshot handle's lifetime").          *)
NamesStayValid ==
  \A n \in borrowed :
    /\ n.addr \in DOMAIN heap
    /\ n.slot \in DOMAIN heap[n.addr].slots
    /\ heap[n.addr].slots[n.slot].value = n.text

(* Whoever asks a snapshot for a count and then for the handle at each      *)
(* position is given each entity it can look up once, under its own id.     *)
(* The only position without an answer is that of an entity whose insertion *)
(* ran out of memory, so the count is the number of answers, if not the     *)
(* number of positions (handle_util.hpp, Arena::size()).                    *)
PositionsSound ==
  \A k \in Kind : \A s \in Snapshots(k) :
    LET a        == ArenaOf(s, k)
        answered == {i \in 0 .. Len(Entries(a)) - 1 : HandleAt(a, i) # NullHandle}
    IN  /\ Cardinality(answered) = Size(a)
        /\ \A i \in answered :
             /\ IdOf(a, HandleAt(a, i)) = Entries(a)[i + 1].id
             /\ Find(a, IdOf(a, HandleAt(a, i))) = HandleAt(a, i)
        /\ \A i \in Positions \ answered : HandleAt(a, i) = NullHandle

(* what the holder of o can look up, by id *)
Known(o, k) == [id \in DOMAIN ArenaOf(o, k).idIndex |->
                  TryGet(ArenaOf(o, k), Find(ArenaOf(o, k), id))]

(* No call changes what a board or a snapshot shows; a call that fails      *)
(* changes nothing any handle leads to by id, and sets the last error of    *)
(* one thread; a call that succeeds leaves every last error alone (pcbir.h: *)
(* a snapshot "is immutable", the last error is "Thread-local").            *)
CallsContained ==
  [][LET kept == DOMAIN obj \cap DOMAIN obj' IN
     /\ \A o \in kept \ Work : Content(o)' = Content(o)
     /\ answer' = OK => errors' = errors
     /\ answer' # OK =>
          /\ \E t \in Thread : errors' = [errors EXCEPT ![t] = answer']
          /\ DOMAIN obj' = DOMAIN obj /\ UNCHANGED <<lists, buffer, borrowed>>
          /\ \A o \in kept : \A k \in KindsOf(o) : Known(o, k)' = Known(o, k)]_vars
=============================================================================
