------------------------------- MODULE Arena --------------------------------
(***************************************************************************)
(* One core::Arena<T> and its clients, who keep every handle insert() ever *)
(* returned and may present any of them, fresh or stale, to erase().       *)
(* `erased' and `issued' are history: how often each slot was erased, and  *)
(* which entity each handle was issued for.                                *)
(***************************************************************************)
EXTENDS ArenaOps

CONSTANTS
  Ids,        (* the ids clients pass to insert()                      *)
  MaxIssued   (* bound: handles issued in one behaviour                *)

ASSUME IdsAssumption       == Ids \subseteq Nat
ASSUME MaxIssuedAssumption == MaxIssued \in Nat

VARIABLES
  arena,      (* the arena                                             *)
  erased,     (* erased[i]: how many times slot i has been erased      *)
  issued,     (* the handles returned so far, with their entities      *)
  clashed     (* TRUE once a live entity's id has been inserted again  *)

vars == <<arena, erased, issued, clashed>>

HandleOf(x) == [index |-> x.index, gen |-> x.gen]

Init ==
  /\ arena = EmptyArena
  /\ erased = [j \in {} |-> 0]
  /\ issued = {}
  /\ clashed = FALSE

InsertEntity(v, id) ==
  LET h == InsertHandle(arena)
      n == IF h.index \in DOMAIN erased THEN erased[h.index] ELSE 0
  IN  /\ Cardinality(issued) < MaxIssued
      /\ arena' = Insert(arena, v, id)
      /\ issued' = issued \cup
           {[index |-> h.index, gen |-> h.gen, epoch |-> n, id |-> id]}
      /\ erased' = [j \in DOMAIN erased \cup {h.index} |->
                      IF j \in DOMAIN erased THEN erased[j] ELSE 0]
      /\ clashed' = (clashed \/ id \in DOMAIN arena.idIndex)

EraseEntity(x) ==
  /\ arena' = Erase(arena, HandleOf(x))
  /\ erased' = IF Located(arena, HandleOf(x))
               THEN [erased EXCEPT ![x.index] = @ + 1]
               ELSE erased
  /\ UNCHANGED <<issued, clashed>>

Next ==
  \/ \E v \in Value, id \in Ids : InsertEntity(v, id)
  \/ \E x \in issued : EraseEntity(x)

Spec == Init /\ [][Next]_vars

-----------------------------------------------------------------------------
TypeOK ==
  /\ IsArena(arena)
  /\ erased \in [DOMAIN arena.slots -> Nat]
  /\ issued \in SUBSET [index : DOMAIN arena.slots, gen : 1 .. GenMod - 1,
                         epoch : Nat, id : Ids]
  /\ clashed \in BOOLEAN

(* The free list holds exactly the dead slots, each once: whatever stale    *)
(* handles erase() is given, no slot is ever handed to two entities and     *)
(* none is lost (arena.hpp, erase() and insert()).                          *)
FreeListExact == FreeExact(arena)

(* find() and size() agree with the slots.  An id that find() knows leads   *)
(* to a live entity with that id, even after ids clashed; and as long as no *)
(* live id was inserted twice, every live entity is found by its id.        *)
IdIndexExact == IndexSound(arena) /\ (~clashed => IndexComplete(arena))

(* What a handle denotes.  Until its entity is erased it leads to that      *)
(* entity.  Afterwards it leads nowhere, also when its slot has been reused,*)
(* until the slot's generation has gone all the way round: a slot has       *)
(* GenMod - 1 generations, 0 being reserved for the null handle.            *)
HandleIdentity ==
  \A x \in issued :
    LET age == erased[x.index] - x.epoch
    IN  /\ age = 0 => /\ Located(arena, HandleOf(x))
                      /\ arena.slots[x.index].id = x.id
        /\ age \in 1 .. GenMod - 2 => ~Located(arena, HandleOf(x))
=============================================================================
