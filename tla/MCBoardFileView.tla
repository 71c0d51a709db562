-------------------------- MODULE MCBoardFileView ---------------------------
(* Three objects on both platforms, and two files that may take the name. *)
EXTENDS BoardFileView

CONSTANTS a, b, d

MCView      == {a, b, d}
MCPlatforms == {"posix", "windows"}
MCFile      == 1 .. 2
MCNumber    == 1 .. 9

(* Which number the system gives matters only through who holds it: states  *)
(* that differ by a renaming of the numbers are one.                        *)
Claims(r) ==
  <<{<<v, k>> \in View \X (1 .. 3) : k <= Len(view[v].held) /\ view[v].held[k] = r},
    {k \in 1 .. 3 : call # None /\ k <= Len(call[1].held) /\ call[1].held[k] = r}>>

WithoutNumbers(o) == [o EXCEPT !.held = Len(@)]

ByOwner ==
  <<platform, path, content, writer,
    Cardinality(DOMAIN os), {<<os[r], Claims(r)>> : r \in DOMAIN os},
    {Claims(r) : r \in Number \ DOMAIN os},
    {WithoutNumbers(c) : c \in ToSet(call)}, [v \in View |-> WithoutNumbers(view[v])]>>
=============================================================================
