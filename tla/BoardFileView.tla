---------------------------- MODULE BoardFileView ---------------------------
(***************************************************************************)
(* Memory-mapped views of a board file, on either platform.  A view owns   *)
(* what open() took from the system, in this order: a descriptor and a     *)
(* mapping on POSIX; a file handle, a mapping handle and a mapped view on  *)
(* Windows.  open() is modelled call by call, any of which may fail, while *)
(* other processes save, delete and replace the file.  The accessors and   *)
(* materialize() only read what is mapped and are no actions here.         *)
(***************************************************************************)
EXTENDS Naturals, FiniteSets, SequencesExt

CONSTANTS
  View,        (* the places a BoardFileView object may be in              *)
  Platforms,   (* the platforms looked at, of "posix" and "windows"        *)
  File,        (* bound: files that may exist at once, by number           *)
  Number       (* bound: handle numbers; a freed number may be used again  *)

ASSUME PlatformAssumption == Platforms \subseteq {"posix", "windows"}
ASSUME FileAssumption     == File \subseteq Nat \ {0}

VARIABLES
  platform,  (* which of the two implementations was built                 *)
  path,      (* the file the path names, 0 if none                         *)
  content,   (* what each file holds: "empty", "cut" or "whole"            *)
  writer,    (* the file some process has open for writing, 0 if none      *)
  os,        (* the process's open resources, by number                    *)
  call,      (* the open() in progress, if any                             *)
  view       (* the objects                                                *)

vars == <<platform, path, content, writer, os, call, view>>

None == << >>

(* What open() takes, in order; it is given back in the reverse order. *)
Kinds == IF platform = "posix" THEN <<"descriptor", "view">>
                               ELSE <<"file", "mapping", "view">>

-----------------------------------------------------------------------------
(* Defects of the code, used to show that the properties can fail. *)

SharedWithWriters == {"read", "write", "delete"}
AllButOne(held)   == Front(held)
SizeKept(o)       == [o EXCEPT !.held = << >>]
NeverSelf(v, w)   == FALSE

-----------------------------------------------------------------------------
(* CreateFileW's share mode: what others may do while the file is open. *)
ShareMode == {"read", "delete"}

Length(c) == CASE c = "empty" -> 0 [] c = "cut" -> 1 [] c = "whole" -> 2

Gone     == [alive |-> FALSE, held |-> << >>, size |-> 0, checked |-> FALSE]
Released == [alive |-> TRUE, held |-> << >>, size |-> 0, checked |-> FALSE]

Init ==
  /\ platform \in Platforms
  /\ path \in {0} \cup File
  /\ content \in [File -> {"empty", "cut", "whole"}]
  /\ writer = 0
  /\ os = << >>
  /\ call = None
  /\ view = [v \in View |-> Gone]

-----------------------------------------------------------------------------
(* The system's resources. *)

Unused == Number \ DOMAIN os

Take(r, resource) == [s \in DOMAIN os \cup {r} |-> IF s = r THEN resource ELSE os[s]]

Without(given) == [r \in DOMAIN os \ given |-> os[r]]

(* Windows: a handle open for reading keeps writers out, and is refused     *)
(* while there is one, unless it shares writing.                            *)
KeptOut(f) ==
  /\ platform = "windows"
  /\ "write" \notin ShareMode
  /\ \E r \in DOMAIN os : os[r].file = f

CannotShare(f) == platform = "windows" /\ "write" \notin ShareMode /\ writer = f

-----------------------------------------------------------------------------
(* BoardFileView::open().  call holds the kinds taken so far in order, the  *)
(* size found, and the object the result is for.                            *)

Opening(v, checked, file, size, step, held) ==
  <<[into |-> v, checked |-> checked, file |-> file, size |-> size,
     step |-> step, held |-> held]>>

BeginOpen(v, checked) ==
  /\ call = None
  /\ ~view[v].alive
  /\ path # 0
  /\ ~CannotShare(path)
  /\ \E r \in Unused :
       /\ os' = Take(r, [kind |-> Kinds[1], file |-> path, size |-> 0])
       /\ call' = Opening(v, checked, path, 0, "size", <<r>>)
  /\ UNCHANGED <<platform, path, content, writer, view>>

(* Every way out by an exception gives back what was taken. *)
GivenBack(held) == held

Throw ==
  /\ call' = None
  /\ os' = Without(ToSet(GivenBack(call[1].held)))
  /\ UNCHANGED <<platform, path, content, writer, view>>

(* fstat(), GetFileSizeEx(): an empty file is a FormatError. *)
FindSize ==
  /\ call # None /\ call[1].step = "size"
  /\ LET c    == call[1]
         size == Length(content[c.file])
     IN  /\ size # 0
         /\ call' = Opening(c.into, c.checked, c.file, size, "take", c.held)
  /\ UNCHANGED <<platform, path, content, writer, os, view>>

FailSize == call # None /\ call[1].step = "size" /\ Throw

(* mmap(); CreateFileMappingW(), then MapViewOfFile() *)
TakeNext ==
  /\ call # None /\ call[1].step = "take"
  /\ LET c    == call[1]
         kind == Kinds[Len(c.held) + 1]
     IN  \E r \in Unused :
           /\ os' = Take(r, [kind |-> kind, file |-> c.file, size |-> c.size])
           /\ call' = Opening(c.into, c.checked, c.file, c.size,
                              IF kind = "view" THEN "verify" ELSE "take",
                              Append(c.held, r))
  /\ UNCHANGED <<platform, path, content, writer, view>>

FailTake == call # None /\ call[1].step = "take" /\ Throw

Verifies == content[call[1].file] = "whole" /\ call[1].size = Length("whole")

Return ==
  /\ call # None /\ call[1].step = "verify"
  /\ call[1].checked => Verifies
  /\ call' = None
  /\ view' = [view EXCEPT ![call[1].into] =
                [alive |-> TRUE, held |-> call[1].held, size |-> call[1].size,
                 checked |-> call[1].checked]]
  /\ UNCHANGED <<platform, path, content, writer, os>>

FailVerify ==
  /\ call # None /\ call[1].step = "verify"
  /\ call[1].checked /\ ~Verifies
  /\ Throw

-----------------------------------------------------------------------------
(* release(), moves and destruction. *)

(* munmap() takes the size the object remembers and unmaps only that much;  *)
(* a number that is not open is closed to no effect.                        *)
Frees(o, r) ==
  /\ r \in DOMAIN os
  /\ platform = "posix" /\ os[r].kind = "view" => os[r].size = o.size

Release(o) == Without({r \in ToSet(o.held) : Frees(o, r)})

MovedFrom(o) == Released

MoveConstruct(v, w) ==
  /\ ~view[v].alive /\ view[w].alive
  /\ v \notin {c.into : c \in ToSet(call)}
  /\ view' = [view EXCEPT ![v] = view[w], ![w] = MovedFrom(view[w])]
  /\ UNCHANGED <<platform, path, content, writer, os, call>>

(* this == &other *)
Self(v, w) == v = w

MoveAssign(v, w) ==
  /\ view[v].alive /\ view[w].alive
  /\ IF Self(v, w)
       THEN UNCHANGED <<view, os>>
       ELSE /\ os' = Release(view[v])
            /\ view' = [view EXCEPT ![v] = view[w], ![w] = MovedFrom(view[w])]
  /\ UNCHANGED <<platform, path, content, writer, call>>

Destroy(v) ==
  /\ view[v].alive
  /\ os' = Release(view[v])
  /\ view' = [view EXCEPT ![v] = Gone]
  /\ UNCHANGED <<platform, path, content, writer, call>>

-----------------------------------------------------------------------------
(* Other users of the path: a save truncates the file in place and writes   *)
(* it, and the name may be deleted while the file is open.                  *)

Referred == {path, writer} \cup {os[r].file : r \in DOMAIN os}

BeginSave ==
  /\ writer = 0
  /\ \E f \in IF path = 0 THEN File \ Referred ELSE {path} :
       /\ ~KeptOut(f)
       /\ path' = f
       /\ writer' = f
       /\ content' = [content EXCEPT ![f] = "empty"]
  /\ UNCHANGED <<platform, os, call, view>>

SaveBytes(c) ==
  /\ writer # 0
  /\ Length(c) > Length(content[writer])
  /\ content' = [content EXCEPT ![writer] = c]
  /\ UNCHANGED <<platform, path, writer, os, call, view>>

EndSave ==
  /\ writer # 0
  /\ writer' = 0
  /\ UNCHANGED <<platform, path, content, os, call, view>>

Delete ==
  /\ path # 0
  /\ platform = "windows" =>
       /\ writer # path
       /\ "delete" \in ShareMode \/ path \notin {os[r].file : r \in DOMAIN os}
  /\ path' = 0
  /\ UNCHANGED <<platform, content, writer, os, call, view>>

Next ==
  \/ \E v \in View : \/ \E checked \in BOOLEAN : BeginOpen(v, checked)
                     \/ \E w \in View : MoveConstruct(v, w) \/ MoveAssign(v, w)
                     \/ Destroy(v)
  \/ FindSize
  \/ FailSize
  \/ TakeNext
  \/ FailTake
  \/ Return
  \/ FailVerify
  \/ BeginSave
  \/ \E c \in {"cut", "whole"} : SaveBytes(c)
  \/ EndSave
  \/ Delete

Spec == Init /\ [][Next]_vars

-----------------------------------------------------------------------------
Holders == {view[v] : v \in {w \in View : view[w].alive}} \cup ToSet(call)

Resources == [kind : ToSet(Kinds), file : File, size : 0 .. 2]

(* An object holds all that a view needs, and the size of its mapping, or   *)
(* nothing at all.                                                          *)
TypeOK ==
  /\ platform \in Platforms
  /\ path \in {0} \cup File /\ writer \in {0} \cup File
  /\ content \in [File -> {"empty", "cut", "whole"}]
  /\ DOMAIN os \subseteq Number /\ \A r \in DOMAIN os : os[r] \in Resources
  /\ Len(call) \in {0, 1}
  /\ \A v \in View :
       \/ view[v].held = << >> /\ view[v].size = 0
       \/ /\ view[v].alive
          /\ Len(view[v].held) = Len(Kinds)
          /\ os[Last(view[v].held)].size = view[v].size

(* Every open resource belongs to one object, or to the open() in progress, *)
(* and what an object remembers is open: nothing leaks, nothing is closed   *)
(* twice (and, its number being used again, closed under another view).     *)
OwnedOnce ==
  /\ \A r \in DOMAIN os :
       Cardinality({v \in View : view[v].alive /\ r \in ToSet(view[v].held)})
         + (IF call # None /\ r \in ToSet(call[1].held) THEN 1 ELSE 0) = 1
  /\ \A o \in Holders : \A k \in DOMAIN o.held :
       o.held[k] \in DOMAIN os /\ os[o.held[k]].kind = Kinds[k]

(* Assignment hands over what the source shows, to itself included. *)
AssignHandsOver ==
  [][\A v, w \in View : MoveAssign(v, w) =>
       /\ view'[v] = view[w]
       /\ ToSet(view[w].held) \subseteq DOMAIN os']_vars

(* What open() verified stays so for as long as a view shows it: on         *)
(* Windows, where the share mode keeps writers away.  On POSIX it does not: *)
(* a save to the path truncates the file under the view.                    *)
StaysVerified ==
  platform = "windows" =>
    \A v \in View : view[v].alive /\ view[v].checked /\ view[v].held # << >> =>
      content[os[Last(view[v].held)].file] = "whole"
=============================================================================
