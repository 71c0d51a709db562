------------------------------- MODULE MCCAbi -------------------------------
(* CAbi on small sets.  Addresses are interchangeable: ByContent keeps what *)
(* each handle shows, which handles share each table, and what a kept name  *)
(* points at.  No call reads the answer of an earlier one or a last error,  *)
(* so states that differ in those only are not told apart; CallsContained   *)
(* is evaluated on every step all the same.                                 *)
EXTENDS CAbi, TLC

CONSTANTS n1, n2

Holding(id, v) == [id |-> id, value |-> v]
Whole == [via |-> <<Holding(1, n1)>>, net |-> << >>, pin |-> <<Holding(1, n1)>>,
          material |-> << >>, layer |-> <<Holding(1, n1)>>]
Bad(status) == [status |-> status, content |-> Whole]

MCFiles     == {Bad(OK), Bad(CORRUPT), Bad(UNSUPPORTED), Bad(IO)}
MCHandles   == {[index |-> 1, gen |-> 1], [index |-> 2, gen |-> 1]}
MCPositions == 0 .. 2
Symmetry    == Permutations(Board) \cup Permutations(Snap)

(* What the caller holds at a time is bounded together, not kind by kind.   *)
Budget == Cardinality(DOMAIN obj) + Cardinality(borrowed)
            + 2 * (Cardinality(DOMAIN lists) + Cardinality(buffer)) <= 3

Cell(p) == IF p \in DOMAIN heap THEN heap[p] ELSE EmptyArena
Shows(o) == [l \in DOMAIN obj[o] |->
               <<obj[o][l].nextId, [k \in Kinds[l] |-> Cell(obj[o][l].tables[k])]>>]
Sharing == {{o \in DOMAIN obj : p \in TablesOf(obj[o])} : p \in DOMAIN heap}
Kept == {<<n.owner, n.kind, n.slot, n.text, n.addr \in DOMAIN heap,
           n.addr \in TablesOf(obj[n.owner])>> : n \in borrowed}
ByContent == <<[o \in DOMAIN obj |-> Shows(o)], Sharing, Kept, lists, buffer>>
=============================================================================
