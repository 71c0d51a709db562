---------------------------- MODULE MCCowThreads ----------------------------
(* CowThreads on small sets.  Two states that differ only in the names of   *)
(* addresses are the same state: ByContent keeps, for every reference, the  *)
(* arena it leads to and its count, and which references lead to the same.  *)
EXTENDS CowThreads, TLC

MCHandles == [index : 1 .. MaxSlots, gen : 1 .. 1]
Symmetry  == Permutations(Thread) \cup Permutations(Snap) \cup Permutations(Work)
             \cup Permutations(Value)

Refs == [ref \in UNION {References(p) : p \in DOMAIN heap} |->
           CHOOSE p \in DOMAIN heap : ref \in References(p)]
ByContent ==
  <<[o \in DOMAIN obj |-> <<obj[o].version, obj[o].nextId>>],
    [ref \in DOMAIN Refs |-> <<heap[Refs[ref]], count[Refs[ref]]>>],
    {References(p) : p \in DOMAIN heap},
    [th \in Thread |-> [task[th] EXCEPT !.held = DOMAIN @]]>>
=============================================================================
