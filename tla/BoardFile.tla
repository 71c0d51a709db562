----------------------------- MODULE BoardFile ------------------------------
(***************************************************************************)
(* Sessions of a program that edits a board and keeps it in one file:      *)
(* pcbir_board_save_file() with the steps of write_file(), any of which    *)
(* may fail or be cut short by a crash; pcbir_board_load_file(); and       *)
(* edits, each of which opens a workspace on a layer's snapshot, makes one *)
(* change and commits it into the board.  The file may also be relabelled  *)
(* by a build of another format version.                                   *)
(*                                                                         *)
(* An entity's value is the number of its birth, so that entities can be   *)
(* told apart where ids cannot.                                            *)
(***************************************************************************)
EXTENDS BoardCodec

CONSTANTS
  Versions,       (* the format versions files may carry                   *)
  MaxBorn,        (* bound: entities created in a behaviour                *)
  MaxExtensions   (* bound: extensions of a board                          *)

ASSUME ValueAssumption   == MaxBorn \in Nat /\ Value = 1 .. MaxBorn
ASSUME VersionAssumption == CurrentFormatVersion \in Versions

VARIABLES
  file,    (* what the path holds: nothing, cut-off bytes or a whole board *)
  board,   (* the board in memory, if any                                  *)
  saving,  (* write_file(): what it writes and where it stands             *)
  born,    (* history: entities created so far                             *)
  named,   (* history: <<layer, id, entity>> of the whole files of a board  *)
  acked    (* history: the bytes of the last save, once it returned OK     *)

vars == <<file, board, saving, born, named, acked>>

(* board, saving and acked hold one value or none. *)
None == << >>

Absent == [state |-> "absent"]
Cut    == [state |-> "cut"]
Full(bytes) == [state |-> "whole", bytes |-> bytes]

Whole == file.state = "whole"

(* The ids a file gives, with their entities. *)
Named(bytes) ==
  UNION {UNION {{<<l, bytes.layers[l][k][i].id, bytes.layers[l][k][i].value>> :
                   i \in DOMAIN bytes.layers[l][k]} :
                  k \in DOMAIN bytes.layers[l]} : l \in Layer}

Holds(f) ==
  /\ file' = f
  /\ named' = named \cup (IF f.state = "whole" THEN Named(f.bytes) ELSE {})

Init ==
  /\ file = Absent
  /\ board = None
  /\ saving = None
  /\ born = 0
  /\ named = {}
  /\ acked = None

Idle == saving = None
Have == board # None /\ Idle

-----------------------------------------------------------------------------
(* A board is begun only where there is none to load; its ids start anew.  *)
NewBoard ==
  /\ Idle
  /\ ~Whole
  /\ board' = <<EmptyBoard>>
  /\ named' = {}
  /\ UNCHANGED <<file, saving, born, acked>>

(* board.l = commit of a workspace on board.l after one change *)
CommitLayer(l, w) == board' = <<[board[1] EXCEPT !.layers[l] = w]>>

InsertEntity(l, t) ==
  /\ Have
  /\ born < MaxBorn
  /\ LET w == board[1].layers[l]
     IN  CommitLayer(l, InsertWithId(w, t, [id |-> w.nextId, value |-> born + 1]))
  /\ born' = born + 1
  /\ UNCHANGED <<file, saving, named, acked>>

EraseEntity(l, t, h) ==
  /\ Have
  /\ LET w == board[1].layers[l]
     IN  /\ Located(w.tables[t], h)
         /\ CommitLayer(l, [w EXCEPT !.tables[t] = Erase(@, h)])
  /\ UNCHANGED <<file, saving, born, named, acked>>

(* An Extension or PassthroughBlob is attached to an entity by its id. *)
AddExtension(l, t, h) ==
  /\ Have
  /\ Len(board[1].extensions) < MaxExtensions
  /\ LET w == board[1].layers[l]
     IN  /\ Located(w.tables[t], h)
         /\ board' = <<[board[1] EXCEPT !.extensions =
                          Append(@, [domain |-> l, id |-> IdOf(w.tables[t], h)])]>>
  /\ UNCHANGED <<file, saving, born, named, acked>>

-----------------------------------------------------------------------------
(* The board is serialized and the file opened with truncation.  If it      *)
(* cannot be opened the call returns PCBIR_ERROR_IO and nothing changes.    *)
BeginSave ==
  /\ Have
  /\ saving' = <<[step |-> "write", bytes |-> Serialize(board[1])]>>
  /\ acked' = None
  /\ Holds(Cut)
  /\ UNCHANGED <<board, born>>

(* file.write(): what reaches the file before it is closed is up to the     *)
(* stream's buffer.                                                         *)
WriteBytes ==
  /\ ~Idle /\ saving[1].step = "write"
  /\ saving' = <<[saving[1] EXCEPT !.step = "close"]>>
  /\ \E f \in {Cut, Full(saving[1].bytes)} : Holds(f)
  /\ UNCHANGED <<board, born, acked>>

(* The stream goes bad: PCBIR_ERROR_IO. *)
FailWrite ==
  /\ ~Idle /\ saving[1].step = "write"
  /\ saving' = None
  /\ UNCHANGED <<file, board, born, named, acked>>

(* The destructor flushes and closes; whether it could is not looked at.    *)
CloseFile ==
  /\ ~Idle /\ saving[1].step = "close"
  /\ saving' = None
  /\ acked' = <<saving[1].bytes>>
  /\ \E f \in {file, Full(saving[1].bytes)} : Holds(f)
  /\ UNCHANGED <<board, born>>

(* The process ends, wherever it is. *)
Crash ==
  /\ board' = None
  /\ saving' = None
  /\ acked' = None
  /\ UNCHANGED <<file, born, named>>

(* A missing file, cut-off bytes (found by the verifier) and an unsupported *)
(* major version are reported and the caller's board is not touched.        *)
Load ==
  /\ Idle
  /\ Whole
  /\ Supported(file.bytes)
  /\ board' = <<DeserializeBoard(file.bytes)>>
  /\ UNCHANGED <<file, saving, born, named, acked>>

(* Another build loads the file and saves it as its own version. *)
Relabel(version) ==
  /\ Idle
  /\ Whole
  /\ Holds(Full([file.bytes EXCEPT !.version = version]))
  /\ acked' = None
  /\ UNCHANGED <<board, saving, born>>

Handles == [index : 1 .. MaxBorn, gen : 1 .. MaxBorn]

Next ==
  \/ NewBoard
  \/ \E l \in Layer : \E t \in TableSet(l) :
       \/ InsertEntity(l, t)
       \/ \E h \in Handles : EraseEntity(l, t, h) \/ AddExtension(l, t, h)
  \/ BeginSave
  \/ WriteBytes
  \/ FailWrite
  \/ CloseFile
  \/ Crash
  \/ Load
  \/ \E version \in Versions : Relabel(version)

Spec == Init /\ [][Next]_vars

-----------------------------------------------------------------------------
Boards == (IF board = None THEN {} ELSE {board[1]})
Files  == (IF Whole THEN {file.bytes} ELSE {})

TypeOK ==
  /\ \A b \in Boards :
       /\ b.version \in Versions
       /\ \A l \in Layer : /\ b.layers[l].nextId \in Nat \ {0}
                           /\ \A t \in TableSet(l) : IsArena(b.layers[l].tables[t])
  /\ saving = None \/ saving[1].step \in {"write", "close"}
  /\ born \in 0 .. MaxBorn

(* Loading a file and saving it again writes the same bytes: nothing the    *)
(* wire form leaves out shows in what is written (architecture.md,          *)
(* Determinism).                                                            *)
FileStable ==
  \A bytes \in Files :
    Supported(bytes) => Serialize(DeserializeBoard(bytes)) = bytes

(* Every entity of a file is found, by its id, in its own table of the      *)
(* board it loads as, and nothing else is (serialize.hpp: "every entity's   *)
(* original EntityId preserved within its layer").                          *)
LoadFindsEverything ==
  \A bytes \in Files : \A l \in Layer : \A k \in DOMAIN TablesOf[l] :
    LET a == DeserializeBoard(bytes).layers[l].tables[TablesOf[l][k]]
        v == bytes.layers[l][k]
    IN  /\ \A i \in DOMAIN v : TryGet(a, Find(a, v[i].id)) = v[i].value
        /\ Size(a) = Len(v)

(* Within a layer an id names one live entity, whichever table it is in:    *)
(* footprint members, extensions and passthrough blobs are looked up by     *)
(* layer and id alone (format-spec.md, Snapshot composition).               *)
IdsUnambiguous ==
  \A b \in Boards : \A l \in Layer : \A t, u \in TableSet(l) :
    \A i \in LiveSlots(b.layers[l].tables[t]), j \in LiveSlots(b.layers[l].tables[u]) :
      b.layers[l].tables[t].slots[i].id = b.layers[l].tables[u].slots[j].id =>
        t = u /\ i = j

(* No two files of a board ever give one id to different entities           *)
(* (architecture.md, EntityId: "It is never reused").                       *)
IdsNeverReused == \A m, n \in named : m[1] = n[1] /\ m[2] = n[2] => m[3] = n[3]

(* Once save has returned PCBIR_OK the file holds the board (pcbir.h:       *)
(* "PCBIR_OK (0) means success").                                           *)
SavedWhenOk == acked # None => file = Full(acked[1])
=============================================================================
