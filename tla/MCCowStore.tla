----------------------------- MODULE MCCowStore -----------------------------
(* CowStore on small sets.  Addresses are interchangeable, so two states    *)
(* that differ only in the names of addresses are the same state: ByContent *)
(* keeps what every object shows and which objects share which tables.      *)
EXTENDS CowStore, TLC

MCHandles == [index : 1 .. MaxSlots, gen : 1 .. 1]
Symmetry  == Permutations(Snap) \cup Permutations(Work) \cup Permutations(Value)

Sharing == {<<o, p, t>> \in Owner \X Owner \X Table :
              /\ o \in DOMAIN obj /\ p \in DOMAIN obj
              /\ obj[o].tables[t] = obj[p].tables[t]}

(* At most three objects at a time, and the second table, which is written  *)
(* and shares the allocator, is not followed once two objects show          *)
(* different arenas of it.                                                  *)
Budget ==
  /\ Cardinality(DOMAIN obj) <= 3
  /\ Cardinality({obj[o].tables["pin"] : o \in DOMAIN obj}) <= 1

ByContent == <<Views, Sharing>>
=============================================================================
