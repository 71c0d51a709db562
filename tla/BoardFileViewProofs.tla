------------------------- MODULE BoardFileViewProofs ------------------------
(***************************************************************************)
(* For any number of objects, files and handle numbers, on both platforms: *)
(* every open resource has one owner, an object holds all that a view      *)
(* needs or nothing, and on Windows what was verified stays verified.  The *)
(* argument follows the sets of numbers that the objects and the open() in *)
(* progress remember: they are disjoint, they cover the open resources,    *)
(* and release() frees all of one, because the object's size is that of    *)
(* its mapping.                                                            *)
(***************************************************************************)
EXTENDS BoardFileView, FiniteSetTheorems, TLAPS

Object == [alive : BOOLEAN, held : Seq(Number), size : 0 .. 2, checked : BOOLEAN]

Attempt == [into : View, checked : BOOLEAN, file : File, size : 0 .. 2,
            step : {"size", "take", "verify"}, held : Seq(Number)]

StateOK ==
  /\ platform \in Platforms
  /\ path \in {0} \cup File
  /\ writer \in {0} \cup File
  /\ content \in [File -> {"empty", "cut", "whole"}]
  /\ DOMAIN os \subseteq Number
  /\ os \in [DOMAIN os -> Resources]
  /\ view \in [View -> Object]
  /\ call = None \/ call \in [{1} -> Attempt]

(* What o remembers is open, and of the kinds that open() takes, in order.  *)
Open(o) ==
  \A k \in DOMAIN o.held : o.held[k] \in DOMAIN os /\ os[o.held[k]].kind = Kinds[k]

Whole(o) ==
  /\ Len(o.held) = Len(Kinds)
  /\ os[o.held[Len(Kinds)]].size = o.size

Empty(o) == o.held = << >> /\ o.size = 0

ViewOK(o) ==
  /\ Open(o)
  /\ Empty(o) \/ (o.alive /\ Whole(o))

(* How far open() has come. *)
Stage(c) ==
  \/ (c.step = "size" /\ Len(c.held) = 1)
  \/ (c.step = "take" /\ Len(c.held) \in 1 .. Len(Kinds) - 1)
  \/ (c.step = "verify" /\ Whole(c))

CallOK(c) ==
  /\ ~view[c.into].alive
  /\ Open(c)
  /\ Stage(c)
  /\ \A k \in DOMAIN c.held : os[c.held[k]].file = c.file

Holds(v, r) == r \in ToSet(view[v].held)
InCall(r)   == call # None /\ r \in ToSet(call[1].held)

(* A resource has one owner at most, ... *)
Apart ==
  \A r \in Number :
    /\ \A v, w \in View : Holds(v, r) /\ Holds(w, r) => v = w
    /\ InCall(r) => \A v \in View : ~Holds(v, r)

(* ... and at least one. *)
Owned == \A r \in DOMAIN os : InCall(r) \/ \E v \in View : Holds(v, r)

(* Windows: a file that is open for reading has no writer, ... *)
WritersOut ==
  platform = "windows" => \A r \in DOMAIN os : os[r].file # writer

(* ... so what was verified is whole. *)
Verified ==
  platform = "windows" =>
    \A v \in View : view[v].checked /\ view[v].held # << >> =>
      content[os[view[v].held[Len(Kinds)]].file] = "whole"

IInv ==
  /\ StateOK
  /\ \A v \in View : ViewOK(view[v])
  /\ call # None => CallOK(call[1])
  /\ Apart
  /\ Owned
  /\ WritersOut
  /\ Verified

-----------------------------------------------------------------------------
(* Sequences of resources. *)

(* The kinds are two or three, and only the last is a view. *)
LEMMA KindsFacts ==
  ASSUME platform \in Platforms
  PROVE  /\ DOMAIN Kinds = 1 .. Len(Kinds)
         /\ Len(Kinds) \in {2, 3}
         /\ \A k \in 1 .. Len(Kinds) :
              Kinds[k] \in ToSet(Kinds) /\ (Kinds[k] = "view" <=> k = Len(Kinds))
<1>1. CASE platform = "posix"
  <2>1. Kinds = <<"descriptor", "view">>
    BY <1>1 DEF Kinds
  <2>2. Len(Kinds) = 2 /\ DOMAIN Kinds = 1 .. 2
    BY <2>1
  <2>3. Kinds[1] # "view" /\ Kinds[2] = "view"
    BY <2>1
  <2> QED BY <1>1, <2>2, <2>3 DEF ToSet
<1>2. CASE platform # "posix"
  <2>1. Kinds = <<"file", "mapping", "view">>
    BY <1>2 DEF Kinds
  <2>2. Len(Kinds) = 3 /\ DOMAIN Kinds = 1 .. 3
    BY <2>1
  <2>3. Kinds[1] # "view" /\ Kinds[2] # "view" /\ Kinds[3] = "view"
    BY <2>1
  <2> QED BY <1>2, <2>2, <2>3 DEF ToSet
<1> QED BY <1>1, <1>2

(* What a sequence of numbers remembers, and one more. *)
LEMMA MemberFacts ==
  /\ ToSet(<< >>) = {}
  /\ \A r \in Number : <<r>> \in Seq(Number) /\ ToSet(<<r>>) = {r}
  /\ \A h \in Seq(Number) :
       /\ DOMAIN h = 1 .. Len(h) /\ Len(h) \in Nat
       /\ ToSet(h) \subseteq Number
       /\ \A k \in 1 .. Len(h) : h[k] \in Number /\ h[k] \in ToSet(h)
       /\ h = << >> <=> Len(h) = 0
       /\ \A r \in Number : /\ Append(h, r) \in Seq(Number)
                            /\ ToSet(Append(h, r)) = ToSet(h) \cup {r}
<1>1. ToSet(<< >>) = {}
  BY DEF ToSet
<1>2. \A r \in Number : <<r>> \in Seq(Number) /\ ToSet(<<r>>) = {r}
  BY DEF ToSet
<1>3. ASSUME NEW h \in Seq(Number)
      PROVE  /\ DOMAIN h = 1 .. Len(h) /\ Len(h) \in Nat
             /\ ToSet(h) \subseteq Number
             /\ \A k \in 1 .. Len(h) : h[k] \in Number /\ h[k] \in ToSet(h)
             /\ h = << >> <=> Len(h) = 0
  BY DEF ToSet
<1>4. ASSUME NEW h \in Seq(Number), NEW r \in Number
      PROVE  /\ Append(h, r) \in Seq(Number)
             /\ ToSet(Append(h, r)) = ToSet(h) \cup {r}
  <2>1. Append(h, r) \in Seq(Number) /\ Len(Append(h, r)) = Len(h) + 1
    OBVIOUS
  <2>2. \A k \in 1 .. Len(h) + 1 : Append(h, r)[k] = IF k = Len(h) + 1 THEN r ELSE h[k]
    OBVIOUS
  <2> QED BY <2>1, <2>2, <1>3 DEF ToSet
<1> QED BY <1>1, <1>2, <1>3, <1>4

(* The types of the state, in a form the provers find. *)
LEMMA StateFacts ==
  ASSUME StateOK
  PROVE  /\ \A v \in View : view[v] \in Object /\ view[v].held \in Seq(Number)
         /\ call # None => call = <<call[1]>> /\ call[1] \in Attempt
         /\ \A r \in DOMAIN os : r \in Number /\ os[r] \in Resources
<1>1. \A v \in View : view[v] \in Object /\ view[v].held \in Seq(Number)
  BY DEF StateOK, Object
<1>2. call # None => call = <<call[1]>> /\ call[1] \in Attempt
  BY DEF StateOK, None
<1>3. \A r \in DOMAIN os : r \in Number /\ os[r] \in Resources
  BY DEF StateOK
<1> QED BY <1>1, <1>2, <1>3

(* An object that is gone, or moved from, remembers nothing. *)
LEMMA GoneFacts ==
  /\ Gone \in Object /\ Released \in Object
  /\ Empty(Gone) /\ Empty(Released) /\ ViewOK(Gone) /\ ViewOK(Released)
  /\ ToSet(Gone.held) = {} /\ ToSet(Released.held) = {}
BY MemberFacts DEF Gone, Released, Object, Empty, ViewOK, Open

(* release() frees all that the object remembers. *)
LEMMA ReleaseAll ==
  ASSUME StateOK, NEW v \in View, ViewOK(view[v])
  PROVE  Release(view[v]) = Without(ToSet(view[v].held))
<1>1. view[v].held \in Seq(Number) /\ DOMAIN view[v].held = 1 .. Len(view[v].held)
  BY StateFacts, MemberFacts
<1>2. ASSUME NEW k \in DOMAIN view[v].held
      PROVE  Frees(view[v], view[v].held[k])
  <2>1. Whole(view[v]) /\ view[v].held[k] \in DOMAIN os /\ os[view[v].held[k]].kind = Kinds[k]
    BY <1>1 DEF ViewOK, Empty, Open
  <2>2. Kinds[k] = "view" => k = Len(Kinds)
    BY <1>1, <2>1, KindsFacts DEF Whole, StateOK
  <2> QED BY <2>1, <2>2 DEF Frees, Whole
<1>3. {r \in ToSet(view[v].held) : Frees(view[v], r)} = ToSet(view[v].held)
  BY <1>2 DEF ToSet
<1> QED BY <1>3 DEF Release

-----------------------------------------------------------------------------
(* What a step keeps. *)

LEMMA KindsKept ==
  ASSUME platform' = platform
  PROVE  Kinds' = Kinds /\ Resources' = Resources
BY DEF Kinds, Resources

LEMMA TakeFacts ==
  ASSUME StateOK, NEW r \in Unused, NEW resource \in Resources
  PROVE  /\ DOMAIN Take(r, resource) = DOMAIN os \cup {r}
         /\ DOMAIN Take(r, resource) \subseteq Number
         /\ Take(r, resource)[r] = resource
         /\ \A s \in DOMAIN os : Take(r, resource)[s] = os[s]
         /\ Take(r, resource) \in [DOMAIN Take(r, resource) -> Resources]
<1>1. r \in Number /\ r \notin DOMAIN os
  BY DEF Unused
<1> QED BY <1>1 DEF Take, StateOK

LEMMA WithoutFacts ==
  ASSUME StateOK, NEW G
  PROVE  /\ DOMAIN Without(G) = DOMAIN os \ G
         /\ \A s \in DOMAIN os \ G : Without(G)[s] = os[s]
         /\ Without(G) \in [DOMAIN Without(G) -> Resources]
BY DEF Without, StateOK

(* An object that takes over what one held is as it was, if that stays open. *)
LEMMA ViewKept ==
  ASSUME StateOK, platform' = platform, NEW v \in View, NEW w \in View,
         ViewOK(view[w]), view'[v] = view[w],
         \A r \in ToSet(view[w].held) : r \in DOMAIN os' /\ os'[r] = os[r]
  PROVE  ViewOK(view[v])'
<1>1. view[w].held \in Seq(Number) /\ Kinds' = Kinds
  BY StateFacts, KindsKept
<1>2. \A k \in DOMAIN view[w].held :
        view[w].held[k] \in DOMAIN os' /\ os'[view[w].held[k]] = os[view[w].held[k]]
  BY <1>1, MemberFacts
<1>3. Open(view[v])'
  BY <1>1, <1>2 DEF ViewOK, Open
<1>4. Whole(view[w]) => Whole(view[v])'
  <2> SUFFICES ASSUME Whole(view[w]) PROVE Whole(view[v])'
    OBVIOUS
  <2>1. Len(Kinds) \in DOMAIN view[w].held
    BY <1>1, MemberFacts, KindsFacts DEF Whole, StateOK
  <2> QED BY <1>1, <1>2, <2>1 DEF Whole
<1> QED BY <1>3, <1>4 DEF ViewOK, Empty

(* The owners of the resources are the views and the call; what is         *)
(* remembered is open.                                                      *)
LEMMA HeldAreOpen ==
  IInv => /\ \A v \in View : \A r : Holds(v, r) => r \in DOMAIN os
          /\ \A r : InCall(r) => r \in DOMAIN os
<1> SUFFICES ASSUME IInv
             PROVE  /\ \A v \in View : \A r : Holds(v, r) => r \in DOMAIN os
                    /\ \A r : InCall(r) => r \in DOMAIN os
  OBVIOUS
<1>1. ASSUME NEW v \in View, NEW r, Holds(v, r)
      PROVE  r \in DOMAIN os
  BY <1>1 DEF IInv, ViewOK, Open, Holds, ToSet
<1>2. ASSUME NEW r, InCall(r)
      PROVE  r \in DOMAIN os
  BY <1>2 DEF IInv, CallOK, Open, InCall, ToSet
<1> QED BY <1>1, <1>2

(* An object that remembers anything has a mapping. *)
LEMMA LastFacts ==
  IInv => \A v \in View : view[v].held # << >> =>
            /\ view[v].alive /\ Whole(view[v])
            /\ view[v].held[Len(Kinds)] \in ToSet(view[v].held)
            /\ view[v].held[Len(Kinds)] \in DOMAIN os
<1> SUFFICES ASSUME IInv, NEW v \in View, view[v].held # << >>
             PROVE  /\ view[v].alive /\ Whole(view[v])
                    /\ view[v].held[Len(Kinds)] \in ToSet(view[v].held)
                    /\ view[v].held[Len(Kinds)] \in DOMAIN os
  OBVIOUS
<1>1. view[v].alive /\ Whole(view[v]) /\ Open(view[v])
  BY DEF IInv, ViewOK, Empty
<1>2. Len(Kinds) \in DOMAIN view[v].held
  BY <1>1, StateFacts, MemberFacts, KindsFacts DEF IInv, StateOK, Whole
<1> QED BY <1>1, <1>2 DEF Open, ToSet

LEMMA InitIInv == Init => IInv
<1> SUFFICES ASSUME Init PROVE IInv
  OBVIOUS
<1>1. DOMAIN os = {}
  BY DEF Init
<1>2. os \in [DOMAIN os -> Resources]
  BY <1>1 DEF Init
<1>3. \A v \in View : view[v] = Gone
  BY DEF Init
<1>4. StateOK
  BY <1>1, <1>2, GoneFacts DEF Init, StateOK
<1>5. \A r : ~InCall(r) /\ \A v \in View : ~Holds(v, r)
  BY <1>3, GoneFacts DEF Holds, InCall, Init
<1> QED BY <1>1, <1>3, <1>4, <1>5, GoneFacts
        DEF IInv, Apart, Owned, WritersOut, Verified, Init, Gone

-----------------------------------------------------------------------------
(* Other users of the path, and the calls that take nothing: the resources  *)
(* and what is remembered of them stay.                                     *)
LEMMA QuietIInv ==
  ASSUME IInv, UNCHANGED <<platform, os, view>>, StateOK', WritersOut', Verified',
         call' # None <=> call # None,
         call # None => /\ call'[1].held = call[1].held
                        /\ call'[1].into = call[1].into
                        /\ call'[1].file = call[1].file
                        /\ Stage(call[1])'
  PROVE  IInv'
<1>1. Kinds' = Kinds
  BY KindsKept
<1>2. \A v \in View : ViewOK(view[v])'
  BY <1>1 DEF IInv, ViewOK, Open, Whole, Empty
<1>3. (call # None)' => CallOK(call[1])'
  BY <1>1 DEF IInv, CallOK, Open
<1>4. \A r : (InCall(r)' <=> InCall(r)) /\ \A v \in View : Holds(v, r)' <=> Holds(v, r)
  BY DEF InCall, Holds
<1>5. Apart' /\ Owned'
  BY <1>4 DEF IInv, Apart, Owned
<1> QED BY <1>2, <1>3, <1>5 DEF IInv

(* A step that leaves the call as it is. *)
LEMMA StageKept ==
  ASSUME IInv, UNCHANGED <<platform, os, call>>, call # None
  PROVE  Stage(call[1])'
BY KindsKept DEF IInv, CallOK, Stage, Whole

LEMMA BeginSaveIInv == IInv /\ BeginSave => IInv'
<1> SUFFICES ASSUME IInv, BeginSave PROVE IInv'
  OBVIOUS
<1>1. PICK f \in File : ~KeptOut(f) /\ path' = f /\ writer' = f
                        /\ content' = [content EXCEPT ![f] = "empty"]
  BY DEF BeginSave, IInv, StateOK
<1>2. platform = "windows" => \A r \in DOMAIN os : os[r].file # f
  BY <1>1 DEF KeptOut, ShareMode
<1>3. StateOK'
  BY <1>1, KindsKept DEF IInv, StateOK, BeginSave
<1>4. WritersOut'
  BY <1>1, <1>2 DEF WritersOut, BeginSave
<1>5. Verified'
  <2> SUFFICES ASSUME platform = "windows", NEW v \in View, view[v].checked,
                      view[v].held # << >>
               PROVE  content'[os[view[v].held[Len(Kinds)]].file] = "whole"
    BY KindsKept DEF Verified, BeginSave
  <2>1. view[v].held[Len(Kinds)] \in DOMAIN os
    BY LastFacts
  <2>2. content[os[view[v].held[Len(Kinds)]].file] = "whole"
    BY DEF IInv, Verified
  <2> QED BY <1>1, <1>2, <2>1, <2>2, StateFacts DEF IInv, StateOK, Resources
<1> QED BY <1>3, <1>4, <1>5, QuietIInv, StageKept DEF BeginSave

LEMMA SaveBytesIInv == \A c \in {"cut", "whole"} : IInv /\ SaveBytes(c) => IInv'
<1> SUFFICES ASSUME NEW c \in {"cut", "whole"}, IInv, SaveBytes(c) PROVE IInv'
  OBVIOUS
<1>1. StateOK'
  BY KindsKept DEF IInv, StateOK, SaveBytes
<1>2. WritersOut'
  BY DEF IInv, WritersOut, SaveBytes
<1>3. Verified'
  <2> SUFFICES ASSUME platform = "windows", NEW v \in View, view[v].checked,
                      view[v].held # << >>
               PROVE  content'[os[view[v].held[Len(Kinds)]].file] = "whole"
    BY KindsKept DEF Verified, SaveBytes
  <2>1. view[v].held[Len(Kinds)] \in DOMAIN os
    BY LastFacts
  <2>2. content[os[view[v].held[Len(Kinds)]].file] = "whole"
    BY DEF IInv, Verified
  <2>3. os[view[v].held[Len(Kinds)]].file # writer
    BY <2>1 DEF IInv, WritersOut
  <2> QED BY <2>1, <2>2, <2>3, StateFacts DEF IInv, StateOK, Resources, SaveBytes
<1> QED BY <1>1, <1>2, <1>3, QuietIInv, StageKept DEF SaveBytes

LEMMA EndSaveIInv == IInv /\ EndSave => IInv'
<1> SUFFICES ASSUME IInv, EndSave PROVE IInv'
  OBVIOUS
<1>1. StateOK'
  BY KindsKept DEF IInv, StateOK, EndSave
<1>2. WritersOut'
  BY StateFacts, FileAssumption DEF IInv, WritersOut, EndSave, Resources
<1>3. Verified'
  BY KindsKept DEF IInv, Verified, EndSave
<1> QED BY <1>1, <1>2, <1>3, QuietIInv, StageKept DEF EndSave

LEMMA DeleteIInv == IInv /\ Delete => IInv'
<1> SUFFICES ASSUME IInv, Delete PROVE IInv'
  OBVIOUS
<1>1. StateOK'
  BY KindsKept DEF IInv, StateOK, Delete
<1>2. WritersOut' /\ Verified'
  BY KindsKept DEF IInv, WritersOut, Verified, Delete
<1> QED BY <1>1, <1>2, QuietIInv, StageKept DEF Delete

-----------------------------------------------------------------------------
(* open() *)

LEMMA FindSizeIInv == IInv /\ FindSize => IInv'
<1> SUFFICES ASSUME IInv, FindSize PROVE IInv'
  OBVIOUS
<1> DEFINE size == Length(content[call[1].file])
<1>1. call # None /\ call[1].step = "size" /\ call[1] \in Attempt
  BY StateFacts DEF FindSize, IInv
<1>2. size \in 0 .. 2
  BY <1>1 DEF IInv, StateOK, Attempt, Length
<1>3. call' = Opening(call[1].into, call[1].checked, call[1].file, size, "take", call[1].held)
  BY DEF FindSize
<1> HIDE DEF size
<1>4. PICK c \in Attempt : c = call[1]
  BY <1>1
<1>5. call'[1] \in Attempt /\ call'[1].held = c.held /\ call'[1].into = c.into
      /\ call'[1].file = c.file /\ call'[1].step = "take"
  BY <1>2, <1>3, <1>4 DEF Attempt, Opening
<1>6. call' \in [{1} -> Attempt] /\ call' # None
  BY <1>3, <1>5 DEF None, Opening
<1>7. Len(call[1].held) = 1
  BY <1>1 DEF IInv, CallOK, Stage
<1>8. Stage(call[1])'
  <2>1. Len(Kinds) \in {2, 3} /\ Kinds' = Kinds
    BY KindsFacts, KindsKept DEF FindSize, IInv, StateOK
  <2>2. Len(call'[1].held) = 1
    BY <1>4, <1>5, <1>7
  <2>3. Len(call'[1].held) \in 1 .. Len(Kinds') - 1
    BY <2>1, <2>2
  <2> QED BY <2>3, <1>5 DEF Stage
<1>9. StateOK'
  BY <1>6, KindsKept DEF FindSize, IInv, StateOK
<1>10. WritersOut' /\ Verified'
  BY KindsKept DEF FindSize, IInv, WritersOut, Verified
<1> QED BY <1>1, <1>4, <1>5, <1>6, <1>8, <1>9, <1>10, QuietIInv DEF FindSize

LEMMA ThrowIInv == IInv /\ call # None /\ Throw => IInv'
<1> SUFFICES ASSUME IInv, call # None, Throw PROVE IInv'
  OBVIOUS
<1> DEFINE G == ToSet(call[1].held)
<1>1. os' = Without(G) /\ call' = None
  BY DEF Throw, GivenBack
<1>2. \A r : InCall(r) <=> r \in G
  BY DEF InCall
<1> HIDE DEF G
<1>3. DOMAIN os' = DOMAIN os \ G /\ os' \in [DOMAIN os' -> Resources]
      /\ \A r \in DOMAIN os \ G : os'[r] = os[r]
  BY <1>1, WithoutFacts DEF IInv
<1>4. StateOK'
  BY <1>1, <1>3, KindsKept DEF IInv, StateOK, Throw
<1>5. \A v \in View : \A r \in ToSet(view[v].held) : r \in DOMAIN os \ G
  <2> SUFFICES ASSUME NEW v \in View, NEW r \in ToSet(view[v].held)
               PROVE  r \in DOMAIN os \ G
    OBVIOUS
  <2>1. Holds(v, r)
    BY DEF Holds
  <2>2. r \in DOMAIN os
    BY <2>1, HeldAreOpen
  <2>3. r \in Number
    BY <2>2 DEF IInv, StateOK
  <2> QED BY <2>1, <2>2, <2>3, <1>2 DEF IInv, Apart
<1>6. \A v \in View : ViewOK(view[v])'
  BY <1>3, <1>5, ViewKept DEF IInv, Throw
<1>7. (call # None)' => CallOK(call[1])'
  BY <1>1
<1>8. \A r : ~InCall(r)' /\ \A v \in View : Holds(v, r)' <=> Holds(v, r)
  BY <1>1 DEF InCall, Holds, Throw
<1>9. Apart' /\ Owned'
  BY <1>2, <1>3, <1>8 DEF IInv, Apart, Owned
<1>10. WritersOut'
  BY <1>3 DEF IInv, WritersOut, Throw
<1>11. Verified'
  <2> SUFFICES ASSUME platform = "windows", NEW v \in View, view[v].checked,
                      view[v].held # << >>
               PROVE  content[os'[view[v].held[Len(Kinds)]].file] = "whole"
    BY KindsKept DEF Verified, Throw
  <2>1. view[v].held[Len(Kinds)] \in ToSet(view[v].held)
    BY LastFacts
  <2> QED BY <2>1, <1>3, <1>5 DEF IInv, Verified
<1> QED BY <1>4, <1>6, <1>7, <1>9, <1>10, <1>11 DEF IInv

LEMMA BeginOpenIInv ==
  \A v \in View, checked \in BOOLEAN : IInv /\ BeginOpen(v, checked) => IInv'
<1> SUFFICES ASSUME NEW v \in View, NEW checked \in BOOLEAN, IInv, BeginOpen(v, checked)
             PROVE  IInv'
  OBVIOUS
<1> DEFINE resource == [kind |-> Kinds[1], file |-> path, size |-> 0]
<1>1. PICK r \in Unused :
        /\ os' = Take(r, resource)
        /\ call' = Opening(v, checked, path, 0, "size", <<r>>)
  BY DEF BeginOpen
<1>2. r \in Number /\ r \notin DOMAIN os
  BY DEF Unused
<1>3. /\ path \in File /\ resource \in Resources
      /\ resource.kind = Kinds[1] /\ resource.file = path
  BY KindsFacts DEF BeginOpen, IInv, StateOK, Resources
<1> HIDE DEF resource
<1>4. DOMAIN os' = DOMAIN os \cup {r} /\ DOMAIN os' \subseteq Number
      /\ os'[r] = resource /\ os' \in [DOMAIN os' -> Resources]
      /\ \A s \in DOMAIN os : os'[s] = os[s]
  BY <1>1, <1>3, TakeFacts DEF IInv
<1>5. call' # None /\ call'[1] \in Attempt /\ call' \in [{1} -> Attempt]
  <2>1. <<r>> \in Seq(Number)
    BY <1>2
  <2>2. call'[1] \in Attempt /\ call' # None
    BY <1>1, <1>3, <2>1 DEF None, Attempt, Opening
  <2> QED BY <1>1, <2>2 DEF Opening
<1>6. call'[1].held = <<r>> /\ call'[1].file = path /\ call'[1].into = v
      /\ call'[1].step = "size"
  BY <1>1 DEF Opening
<1>7. StateOK'
  BY <1>4, <1>5, KindsKept DEF IInv, StateOK, BeginOpen
<1>8. \A w \in View : ViewOK(view[w])'
  <2> SUFFICES ASSUME NEW w \in View PROVE ViewOK(view[w])'
    OBVIOUS
  <2>1. \A s \in ToSet(view[w].held) : s \in DOMAIN os
    BY HeldAreOpen DEF Holds
  <2> QED BY <2>1, <1>4, ViewKept DEF IInv, BeginOpen
<1>9. CallOK(call[1])'
  <2>1. ~view'[v].alive
    BY DEF BeginOpen
  <2>2. DOMAIN <<r>> = {1} /\ Len(<<r>>) = 1 /\ <<r>>[1] = r
    OBVIOUS
  <2>3. os'[r].kind = Kinds[1] /\ os'[r].file = path
    BY <1>3, <1>4
  <2> QED BY <2>1, <2>2, <2>3, <1>4, <1>6, KindsKept
          DEF CallOK, Open, Stage, BeginOpen
<1>10. \A s : (InCall(s)' <=> s = r) /\ \A w \in View : Holds(w, s)' <=> Holds(w, s)
  BY <1>2, <1>5, <1>6, MemberFacts DEF InCall, Holds, BeginOpen
<1>11. \A s : ~InCall(s)
  BY DEF InCall, BeginOpen
<1>12. Apart'
  <2>1. \A w \in View : ~Holds(w, r)
    BY <1>2, HeldAreOpen
  <2> QED BY <2>1, <1>10 DEF IInv, Apart
<1>13. Owned'
  BY <1>4, <1>10, <1>11 DEF IInv, Owned
<1>14. WritersOut'
  <2>1. platform = "windows" => path # writer
    BY DEF BeginOpen, CannotShare, ShareMode
  <2> QED BY <2>1, <1>3, <1>4 DEF IInv, WritersOut, BeginOpen
<1>15. Verified'
  <2> SUFFICES ASSUME platform = "windows", NEW w \in View, view[w].checked,
                      view[w].held # << >>
               PROVE  content[os'[view[w].held[Len(Kinds)]].file] = "whole"
    BY KindsKept DEF Verified, BeginOpen
  <2>1. view[w].held[Len(Kinds)] \in DOMAIN os
    BY LastFacts
  <2> QED BY <2>1, <1>4 DEF IInv, Verified
<1> QED BY <1>5, <1>7, <1>8, <1>9, <1>12, <1>13, <1>14, <1>15 DEF IInv

LEMMA TakeNextIInv == IInv /\ TakeNext => IInv'
<1> SUFFICES ASSUME IInv, TakeNext PROVE IInv'
  OBVIOUS
<1>1. call # None /\ call[1].step = "take" /\ call[1] \in Attempt /\ CallOK(call[1])
  BY StateFacts DEF TakeNext, IInv
<1>2. PICK c \in Attempt : c = call[1]
  BY <1>1
<1> DEFINE resource == [kind |-> Kinds[Len(c.held) + 1], file |-> c.file, size |-> c.size]
           step == IF resource.kind = "view" THEN "verify" ELSE "take"
<1>3. PICK r \in Unused :
        /\ os' = Take(r, resource)
        /\ call' = Opening(c.into, c.checked, c.file, c.size, step, Append(c.held, r))
  BY <1>2 DEF TakeNext
<1>4. UNCHANGED <<platform, path, content, writer, view>>
  BY DEF TakeNext
<1>5. r \in Number /\ r \notin DOMAIN os
  BY DEF Unused
<1>6. /\ c.held \in Seq(Number) /\ DOMAIN c.held = 1 .. Len(c.held)
      /\ Len(c.held) \in 1 .. Len(Kinds) - 1 /\ Len(Kinds) \in {2, 3}
      /\ c.into \in View /\ c.file \in File /\ c.size \in 0 .. 2 /\ c.checked \in BOOLEAN
  <2>1. c.held \in Seq(Number) /\ c.into \in View /\ c.file \in File /\ c.size \in 0 .. 2
        /\ c.checked \in BOOLEAN
    BY DEF Attempt
  <2>2. Len(c.held) \in 1 .. Len(Kinds) - 1
    BY <1>1, <1>2 DEF CallOK, Stage
  <2>3. Len(Kinds) \in {2, 3}
    BY KindsFacts DEF IInv, StateOK
  <2> QED BY <2>1, <2>2, <2>3
<1>7. Kinds[Len(c.held) + 1] \in ToSet(Kinds)
      /\ (Kinds[Len(c.held) + 1] = "view" <=> Len(c.held) + 1 = Len(Kinds))
  <2>1. Len(c.held) + 1 \in 1 .. Len(Kinds)
    BY <1>6
  <2> QED BY <2>1, KindsFacts DEF IInv, StateOK
<1>8. /\ resource \in Resources
      /\ resource.kind = Kinds[Len(c.held) + 1]
      /\ resource.file = c.file /\ resource.size = c.size
  BY <1>6, <1>7 DEF Resources
<1>9. step \in {"take", "verify"} /\ (step = "verify" <=> Len(c.held) + 1 = Len(Kinds))
  BY <1>7, <1>8
<1> HIDE DEF resource, step
<1>10. DOMAIN os' = DOMAIN os \cup {r} /\ DOMAIN os' \subseteq Number
      /\ os'[r] = resource /\ os' \in [DOMAIN os' -> Resources]
      /\ \A s \in DOMAIN os : os'[s] = os[s]
  BY <1>3, <1>8, TakeFacts DEF IInv
<1>11. PICK held \in Seq(Number) :
        /\ held = Append(c.held, r)
        /\ Len(held) = Len(c.held) + 1 /\ DOMAIN held = 1 .. Len(held)
        /\ held[Len(held)] = r /\ \A k \in 1 .. Len(c.held) : held[k] = c.held[k]
        /\ ToSet(held) = ToSet(c.held) \cup {r}
  <2>1. PICK held : held = Append(c.held, r)
    OBVIOUS
  <2>2. held \in Seq(Number) /\ ToSet(held) = ToSet(c.held) \cup {r}
    BY <2>1, <1>5, <1>6, MemberFacts
  <2>3. Len(held) = Len(c.held) + 1 /\ DOMAIN held = 1 .. Len(held)
    BY <2>1, <1>5, <1>6
  <2>4. held[Len(held)] = r /\ \A k \in 1 .. Len(c.held) : held[k] = c.held[k]
    BY <2>1, <1>5, <1>6
  <2> QED BY <2>1, <2>2, <2>3, <2>4
<1>12. /\ call'[1].held = held /\ call'[1].file = c.file /\ call'[1].into = c.into
       /\ call'[1].step = step /\ call'[1].size = c.size
       /\ call'[1] \in Attempt /\ call' = <<call'[1]>> /\ call' # None
  BY <1>3, <1>6, <1>9, <1>11 DEF Opening, Attempt, None
<1>13. call' \in [{1} -> Attempt]
  BY <1>12
<1>14. StateOK'
  BY <1>10, <1>13, KindsKept, <1>4 DEF IInv, StateOK
<1>15. \A w \in View : ViewOK(view[w])'
  <2> SUFFICES ASSUME NEW w \in View PROVE ViewOK(view[w])'
    OBVIOUS
  <2>1. \A s \in ToSet(view[w].held) : s \in DOMAIN os
    BY HeldAreOpen DEF Holds
  <2> QED BY <2>1, <1>10, <1>4, ViewKept DEF IInv
<1>16. CallOK(call[1])'
  <2>1. Kinds' = Kinds /\ view' = view
    BY <1>4, KindsKept
  <2>2. \A k \in DOMAIN c.held :
          c.held[k] \in DOMAIN os /\ os[c.held[k]].kind = Kinds[k] /\ os[c.held[k]].file = c.file
    BY <1>1, <1>2 DEF CallOK, Open
  <2>3. \A k \in DOMAIN held :
          held[k] \in DOMAIN os' /\ os'[held[k]].kind = Kinds[k] /\ os'[held[k]].file = c.file
    <3> SUFFICES ASSUME NEW k \in DOMAIN held
                 PROVE  held[k] \in DOMAIN os' /\ os'[held[k]].kind = Kinds[k]
                        /\ os'[held[k]].file = c.file
      OBVIOUS
    <3>1. CASE k \in DOMAIN c.held
      BY <3>1, <2>2, <1>6, <1>10, <1>11
    <3>2. CASE k = Len(held)
      BY <3>2, <1>8, <1>10, <1>11
    <3> QED BY <3>1, <3>2, <1>6, <1>11
  <2>4. Open(call[1])' /\ (\A k \in DOMAIN call[1].held : os[call[1].held[k]].file = call[1].file)'
    BY <2>1, <2>3, <1>12 DEF Open
  <2>5. Stage(call[1])'
    <3>1. CASE step = "take"
      <4>1. Len(held) \in 1 .. Len(Kinds) - 1
        BY <3>1, <1>6, <1>9, <1>11
      <4> QED BY <4>1, <3>1, <2>1, <1>12 DEF Stage
    <3>2. CASE step = "verify"
      <4>1. Len(held) = Len(Kinds) /\ os'[held[Len(Kinds)]].size = c.size
        BY <3>2, <1>8, <1>9, <1>10, <1>11
      <4> QED BY <4>1, <3>2, <2>1, <1>12 DEF Stage, Whole
    <3> QED BY <3>1, <3>2, <1>9
  <2> QED BY <2>1, <2>4, <2>5, <1>1, <1>2, <1>12 DEF CallOK
<1>17. \A s : (InCall(s)' <=> s = r \/ InCall(s)) /\ \A w \in View : Holds(w, s)' <=> Holds(w, s)
  BY <1>1, <1>2, <1>11, <1>12, <1>4 DEF InCall, Holds
<1>18. Apart'
  <2>1. \A w \in View : ~Holds(w, r)
    BY <1>5, HeldAreOpen
  <2> QED BY <2>1, <1>17 DEF IInv, Apart
<1>19. Owned'
  BY <1>10, <1>17 DEF IInv, Owned
<1>20. WritersOut'
  <2>1. c.held[1] \in DOMAIN os /\ os[c.held[1]].file = c.file
    BY <1>1, <1>2, <1>6 DEF CallOK, Open
  <2> QED BY <2>1, <1>8, <1>10, <1>4 DEF IInv, WritersOut
<1>21. Verified'
  <2> SUFFICES ASSUME platform = "windows", NEW w \in View, view[w].checked,
                      view[w].held # << >>
               PROVE  content[os'[view[w].held[Len(Kinds)]].file] = "whole"
    BY <1>4, KindsKept DEF Verified
  <2>1. view[w].held[Len(Kinds)] \in DOMAIN os
    BY LastFacts
  <2> QED BY <2>1, <1>10 DEF IInv, Verified
<1> QED BY <1>14, <1>15, <1>16, <1>18, <1>19, <1>20, <1>21 DEF IInv

LEMMA ReturnIInv == IInv /\ Return => IInv'
<1> SUFFICES ASSUME IInv, Return PROVE IInv'
  OBVIOUS
<1>1. call # None /\ call[1].step = "verify" /\ call[1] \in Attempt /\ CallOK(call[1])
  BY StateFacts DEF Return, IInv
<1>2. PICK c \in Attempt : c = call[1]
  BY <1>1
<1>3. PICK o \in Object : o = [alive |-> TRUE, held |-> c.held, size |-> c.size, checked |-> c.checked]
  BY <1>2 DEF Object, Attempt
<1>4. c.into \in View /\ ~view[c.into].alive /\ view[c.into].held = << >>
      /\ view' = [view EXCEPT ![c.into] = o] /\ call' = None
  BY <1>1, <1>2, <1>3 DEF Return, IInv, ViewOK, Empty, CallOK, Attempt
<1>5. StateOK'
  BY <1>4, KindsKept DEF IInv, StateOK, Return
<1>6. \A r : /\ InCall(r) <=> r \in ToSet(c.held)
             /\ ~InCall(r)'
             /\ \A w \in View : Holds(w, r)' <=> IF w = c.into THEN InCall(r) ELSE Holds(w, r)
             /\ ~Holds(c.into, r)
  BY <1>1, <1>2, <1>3, <1>4, MemberFacts DEF InCall, Holds, IInv, StateOK
<1>7. Apart' /\ Owned'
  BY <1>4, <1>6 DEF IInv, Apart, Owned, Return
<1>8. Whole(c) /\ Open(c)
  BY <1>1, <1>2 DEF CallOK, Stage
<1>9. ASSUME NEW w \in View PROVE ViewOK(view[w])'
  <2>1. CASE w = c.into
    BY <2>1, <1>3, <1>4, <1>8, KindsKept DEF IInv, StateOK, ViewOK, Open, Whole, Return
  <2>2. CASE w # c.into
    BY <2>2, <1>4, KindsKept DEF IInv, StateOK, ViewOK, Open, Whole, Empty, Return
  <2> QED BY <2>1, <2>2
<1>10. WritersOut'
  BY DEF IInv, WritersOut, Return
<1>11. Verified'
  <2> SUFFICES ASSUME platform = "windows", NEW w \in View, view'[w].checked,
                      view'[w].held # << >>
               PROVE  content[os[view'[w].held[Len(Kinds)]].file] = "whole"
    BY KindsKept DEF Verified, Return
  <2>1. CASE w = c.into
    <3>1. Len(Kinds) \in DOMAIN c.held
      BY <1>2, <1>8, KindsFacts, MemberFacts DEF Attempt, Whole, IInv, StateOK
    <3>2. os[c.held[Len(Kinds)]].file = c.file
      BY <3>1, <1>1, <1>2 DEF CallOK
    <3>3. c.checked => content[c.file] = "whole"
      BY <1>2 DEF Return, Verifies
    <3> QED BY <3>2, <3>3, <2>1, <1>3, <1>4 DEF IInv, StateOK
  <2>2. CASE w # c.into
    BY <2>2, <1>4 DEF IInv, StateOK, Verified
  <2> QED BY <2>1, <2>2
<1> QED BY <1>4, <1>5, <1>7, <1>9, <1>10, <1>11 DEF IInv

-----------------------------------------------------------------------------
(* Moves and destruction.  What v remembers is given up, and every other    *)
(* object is handed over as from says: u becomes what from[u] was.          *)
LEMMA HandOverIInv ==
  \A v \in View, from \in [View -> View] :
    /\ IInv
    /\ UNCHANGED <<platform, path, content, writer, call>>
    /\ call # None => ~view'[call[1].into].alive
    /\ os' = Without(ToSet(view[v].held))
    /\ view' \in [View -> Object]
    /\ \A u \in View : /\ from[u] = v => view'[u] \in {Gone, Released}
                       /\ from[u] # v => view'[u] = view[from[u]]
    /\ \A u, x \in View : from[u] = from[x] => u = x
    /\ \A u \in View : \E x \in View : from[x] = u
    => IInv'
<1> SUFFICES ASSUME NEW v \in View, NEW from \in [View -> View], IInv,
                    UNCHANGED <<platform, path, content, writer, call>>,
                    call # None => ~view'[call[1].into].alive,
                    os' = Without(ToSet(view[v].held)),
                    view' \in [View -> Object],
                    \A u \in View : /\ from[u] = v => view'[u] \in {Gone, Released}
                                    /\ from[u] # v => view'[u] = view[from[u]],
                    \A u, x \in View : from[u] = from[x] => u = x,
                    \A u \in View : \E x \in View : from[x] = u
             PROVE  IInv'
  OBVIOUS
<1> DEFINE G == ToSet(view[v].held)
<1>1. \A r : r \in G <=> Holds(v, r)
  BY DEF Holds
<1>2. os' = Without(G)
  OBVIOUS
<1> HIDE DEF G
<1>3. DOMAIN os' = DOMAIN os \ G /\ os' \in [DOMAIN os' -> Resources]
      /\ \A r \in DOMAIN os \ G : os'[r] = os[r]
  <2>1. StateOK
    BY DEF IInv
  <2> QED BY ONLY <1>2, <2>1, WithoutFacts
<1>4. \A u \in View : from[u] \in View
  OBVIOUS
<1>5. StateOK'
  BY <1>3, KindsKept DEF IInv, StateOK
<1>6. \A u \in View \ {v} : \A r \in ToSet(view[u].held) : r \in DOMAIN os \ G
  <2> SUFFICES ASSUME NEW u \in View \ {v}, NEW r \in ToSet(view[u].held)
               PROVE  r \in DOMAIN os \ G
    OBVIOUS
  <2>1. Holds(u, r)
    BY DEF Holds
  <2>2. r \in DOMAIN os
    BY <2>1, HeldAreOpen
  <2>3. r \in Number
    BY <2>2 DEF IInv, StateOK
  <2> QED BY <2>1, <2>2, <2>3, <1>1 DEF IInv, Apart
<1>7. ASSUME NEW u \in View PROVE ViewOK(view[u])'
  <2>1. CASE from[u] = v
    BY <2>1, MemberFacts DEF ViewOK, Empty, Open, Gone, Released
  <2>2. CASE from[u] # v
    BY <2>2, <1>3, <1>4, <1>6, ViewKept DEF IInv
  <2> QED BY <2>1, <2>2
<1>8. call # None => CallOK(call[1])'
  <2> SUFFICES ASSUME call # None PROVE CallOK(call[1])'
    OBVIOUS
  <2>1. call[1] \in Attempt /\ CallOK(call[1])
    BY StateFacts DEF IInv
  <2>2. \A k \in DOMAIN call[1].held : call[1].held[k] \in DOMAIN os \ G
    <3> SUFFICES ASSUME NEW k \in DOMAIN call[1].held
                 PROVE  call[1].held[k] \in DOMAIN os \ G
      OBVIOUS
    <3>1. InCall(call[1].held[k])
      BY DEF InCall, ToSet
    <3>2. call[1].held[k] \in DOMAIN os
      BY <2>1 DEF CallOK, Open
    <3>3. call[1].held[k] \in Number
      BY <3>2 DEF IInv, StateOK
    <3> QED BY <3>1, <3>2, <3>3, <1>1 DEF IInv, Apart
  <2>3. Open(call[1])' /\ (\A k \in DOMAIN call[1].held : os[call[1].held[k]].file = call[1].file)'
    BY <2>1, <2>2, <1>3, KindsKept DEF CallOK, Open
  <2>4. Whole(call[1]) => Whole(call[1])'
    <3> SUFFICES ASSUME Whole(call[1]) PROVE Whole(call[1])'
      OBVIOUS
    <3>1. call[1].held \in Seq(Number)
      BY <2>1 DEF Attempt
    <3>2. Len(Kinds) \in DOMAIN call[1].held
      BY <3>1, MemberFacts, KindsFacts DEF Whole, IInv, StateOK
    <3> QED BY <3>2, <2>2, <1>3, KindsKept DEF Whole
  <2>5. Stage(call[1])'
    BY <2>1, <2>4, KindsKept DEF CallOK, Stage
  <2>6. ~view'[call[1].into].alive
    OBVIOUS
  <2> QED BY <2>3, <2>5, <2>6 DEF CallOK
<1>9. \A r : /\ InCall(r)' <=> InCall(r)
             /\ \A u \in View : Holds(u, r)' <=> from[u] # v /\ Holds(from[u], r)
  <2>1. \A r : InCall(r)' <=> InCall(r)
    BY DEF InCall
  <2>2. ASSUME NEW u \in View, NEW r
        PROVE  Holds(u, r)' <=> from[u] # v /\ Holds(from[u], r)
    BY GoneFacts DEF Holds
  <2> QED BY <2>1, <2>2
<1>10. Apart'
  BY <1>4, <1>9 DEF IInv, Apart
<1>11. Owned'
  <2> SUFFICES ASSUME NEW r \in DOMAIN os'
               PROVE  InCall(r)' \/ \E u \in View : Holds(u, r)'
    BY DEF Owned
  <2>1. r \in DOMAIN os /\ ~Holds(v, r)
    BY <1>1, <1>3
  <2>2. InCall(r) \/ \E x \in View \ {v} : Holds(x, r)
    BY <2>1 DEF IInv, Owned
  <2>3. InCall(r) \/ \E u \in View : from[u] # v /\ Holds(from[u], r)
    BY <2>2
  <2> QED BY <2>3, <1>9
<1>12. WritersOut'
  BY <1>3 DEF IInv, WritersOut
<1>13. Verified'
  <2> SUFFICES ASSUME platform = "windows", NEW u \in View, view'[u].checked,
                      view'[u].held # << >>
               PROVE  content[os'[view'[u].held[Len(Kinds)]].file] = "whole"
    BY KindsKept DEF Verified
  <2>1. PICK x \in View \ {v} : view'[u] = view[x]
    BY <1>4 DEF Gone, Released
  <2>2. view[x].held[Len(Kinds)] \in ToSet(view[x].held)
    BY <2>1, LastFacts
  <2> QED BY <2>1, <2>2, <1>3, <1>6 DEF IInv, Verified
<1> QED BY <1>5, <1>7, <1>8, <1>10, <1>11, <1>12, <1>13 DEF IInv

(* v takes over what w shows, which is left with nothing. *)
LEMMA ExchangeIInv ==
  \A v, w \in View :
    /\ IInv
    /\ UNCHANGED <<platform, path, content, writer, call>>
    /\ call # None => v # call[1].into /\ w # call[1].into
    /\ v # w
    /\ os' = Without(ToSet(view[v].held))
    /\ view' = [view EXCEPT ![v] = view[w], ![w] = Released]
    => IInv'
<1> SUFFICES ASSUME NEW v \in View, NEW w \in View, IInv,
                    UNCHANGED <<platform, path, content, writer, call>>,
                    call # None => v # call[1].into /\ w # call[1].into,
                    v # w,
                    os' = Without(ToSet(view[v].held)),
                    view' = [view EXCEPT ![v] = view[w], ![w] = Released]
             PROVE  IInv'
  OBVIOUS
<1>1. PICK from \in [View -> View] :
        from = [u \in View |-> IF u = v THEN w ELSE IF u = w THEN v ELSE u]
  OBVIOUS
<1>2. /\ view' \in [View -> Object]
      /\ view'[v] = view[w] /\ view'[w] = Released
      /\ \A u \in View \ {v, w} : view'[u] = view[u]
  BY GoneFacts DEF IInv, StateOK
<1>3. /\ \A u \in View : /\ from[u] = v => view'[u] \in {Gone, Released}
                         /\ from[u] # v => view'[u] = view[from[u]]
      /\ \A u, x \in View : from[u] = from[x] => u = x
      /\ \A u \in View : \E x \in View : from[x] = u
  <2>1. ASSUME NEW u \in View
        PROVE  /\ from[u] = v => view'[u] \in {Gone, Released}
               /\ from[u] # v => view'[u] = view[from[u]]
    BY <1>1, <1>2
  <2>2. ASSUME NEW u \in View, NEW x \in View, from[u] = from[x] PROVE u = x
    BY <1>1, <2>2
  <2>3. ASSUME NEW u \in View PROVE \E x \in View : from[x] = u
    <3>1. from[from[u]] = u /\ from[u] \in View
      BY <1>1
    <3> QED BY <3>1
  <2> QED BY <2>1, <2>2, <2>3
<1>4. call # None => ~view'[call[1].into].alive
  BY <1>2, StateFacts DEF IInv, CallOK, Attempt
<1>5. /\ IInv /\ v \in View /\ from \in [View -> View] /\ view' \in [View -> Object]
      /\ UNCHANGED <<platform, path, content, writer, call>>
      /\ os' = Without(ToSet(view[v].held))
  BY <1>2
<1> QED BY ONLY <1>3, <1>4, <1>5, HandOverIInv

LEMMA DestroyIInv == \A v \in View : IInv /\ Destroy(v) => IInv'
<1> SUFFICES ASSUME NEW v \in View, IInv, Destroy(v) PROVE IInv'
  OBVIOUS
<1>1. /\ view[v].alive
      /\ os' = Without(ToSet(view[v].held))
      /\ view' = [view EXCEPT ![v] = Gone]
      /\ UNCHANGED <<platform, path, content, writer, call>>
  BY ReleaseAll DEF Destroy, IInv
<1>2. PICK from \in [View -> View] : from = [u \in View |-> u]
  OBVIOUS
<1>3. /\ view' \in [View -> Object]
      /\ view'[v] = Gone
      /\ \A u \in View \ {v} : view'[u] = view[u]
  BY <1>1, GoneFacts DEF IInv, StateOK
<1>4. \A u \in View : /\ from[u] = v => view'[u] \in {Gone, Released}
                      /\ from[u] # v => view'[u] = view[from[u]]
  BY <1>2, <1>3
<1>5. /\ \A u, x \in View : from[u] = from[x] => u = x
      /\ \A u \in View : \E x \in View : from[x] = u
  BY <1>2
<1>6. call # None => ~view'[call[1].into].alive
  BY <1>1, <1>3, StateFacts DEF IInv, CallOK, Attempt
<1> QED BY <1>1, <1>3, <1>4, <1>5, <1>6, HandOverIInv

(* No move is into the place that open() is going to fill. *)
LEMMA MoveConstructIInv == \A v, w \in View : IInv /\ MoveConstruct(v, w) => IInv'
<1> SUFFICES ASSUME NEW v \in View, NEW w \in View, IInv, MoveConstruct(v, w) PROVE IInv'
  OBVIOUS
<1>1. /\ ~view[v].alive /\ view[w].alive /\ v # w
      /\ view' = [view EXCEPT ![v] = view[w], ![w] = Released]
      /\ UNCHANGED <<platform, path, content, writer, os, call>>
  BY DEF MoveConstruct, MovedFrom
<1>2. call # None => v # call[1].into /\ w # call[1].into
  <2> SUFFICES ASSUME call # None PROVE v # call[1].into /\ w # call[1].into
    OBVIOUS
  <2>1. call = <<call[1]>> /\ CallOK(call[1])
    BY StateFacts DEF IInv
  <2>2. call[1] \in ToSet(call)
    BY <2>1 DEF ToSet
  <2>3. v # call[1].into
    BY <2>2 DEF MoveConstruct
  <2> QED BY <2>1, <2>3, <1>1 DEF CallOK
<1>3. ToSet(view[v].held) = {}
  BY <1>1, MemberFacts DEF IInv, ViewOK, Empty
<1>4. os' = Without(ToSet(view[v].held))
  BY <1>1, <1>3 DEF Without, IInv, StateOK
<1> QED BY <1>1, <1>2, <1>4, ExchangeIInv

LEMMA MoveAssignIInv == \A v, w \in View : IInv /\ MoveAssign(v, w) => IInv'
<1> SUFFICES ASSUME NEW v \in View, NEW w \in View, IInv, MoveAssign(v, w) PROVE IInv'
  OBVIOUS
<1>1. CASE v = w
  <2>1. UNCHANGED vars
    BY <1>1 DEF MoveAssign, Self, vars
  <2>2. StateOK' /\ WritersOut' /\ Verified'
    BY <2>1, KindsKept DEF IInv, StateOK, WritersOut, Verified, vars
  <2> QED BY <2>1, <2>2, QuietIInv, StageKept DEF vars
<1>2. CASE v # w
  <2>1. /\ view[v].alive /\ view[w].alive
        /\ os' = Without(ToSet(view[v].held))
        /\ view' = [view EXCEPT ![v] = view[w], ![w] = Released]
        /\ UNCHANGED <<platform, path, content, writer, call>>
    BY <1>2, ReleaseAll DEF MoveAssign, Self, MovedFrom, IInv
  <2>2. call # None => v # call[1].into /\ w # call[1].into
    BY <2>1 DEF IInv, CallOK
  <2> QED BY <1>2, <2>1, <2>2, ExchangeIInv
<1> QED BY <1>1, <1>2

-----------------------------------------------------------------------------
LEMMA NextIInv == IInv /\ [Next]_vars => IInv'
<1> SUFFICES ASSUME IInv, [Next]_vars PROVE IInv'
  OBVIOUS
<1>1. CASE \E v \in View, checked \in BOOLEAN : BeginOpen(v, checked)
  BY <1>1, BeginOpenIInv
<1>2. CASE \E v, w \in View : MoveConstruct(v, w) \/ MoveAssign(v, w)
  BY <1>2, MoveConstructIInv, MoveAssignIInv
<1>3. CASE \E v \in View : Destroy(v)
  BY <1>3, DestroyIInv
<1>4. CASE FindSize \/ TakeNext \/ Return
  BY <1>4, FindSizeIInv, TakeNextIInv, ReturnIInv
<1>5. CASE FailSize \/ FailTake \/ FailVerify
  BY <1>5, ThrowIInv DEF FailSize, FailTake, FailVerify
<1>6. CASE BeginSave \/ EndSave \/ Delete \/ \E c \in {"cut", "whole"} : SaveBytes(c)
  BY <1>6, BeginSaveIInv, EndSaveIInv, DeleteIInv, SaveBytesIInv
<1>7. CASE UNCHANGED vars
  <2>1. StateOK' /\ WritersOut' /\ Verified'
    BY <1>7, KindsKept DEF IInv, StateOK, WritersOut, Verified, vars
  <2> QED BY <1>7, <2>1, QuietIInv, StageKept DEF vars
<1> QED BY <1>1, <1>2, <1>3, <1>4, <1>5, <1>6, <1>7 DEF Next

LEMMA SpecIInv == Spec => []IInv
BY InitIInv, NextIInv, PTL DEF Spec

(* At all times the state is as the type invariant says: an object holds    *)
(* all that a view needs, and the size of its mapping, or nothing.          *)
THEOREM TypeCorrect == Spec => []TypeOK
<1>1. IInv => TypeOK
  <2> SUFFICES ASSUME IInv PROVE TypeOK
    OBVIOUS
  <2>1. Len(call) \in {0, 1}
    BY StateFacts DEF IInv, None
  <2>2. ASSUME NEW v \in View
        PROVE  \/ view[v].held = << >> /\ view[v].size = 0
               \/ /\ view[v].alive
                  /\ Len(view[v].held) = Len(Kinds)
                  /\ os[Last(view[v].held)].size = view[v].size
    BY DEF IInv, ViewOK, Empty, Whole, Last
  <2> QED BY <2>1, <2>2 DEF TypeOK, IInv, StateOK
<1> QED BY <1>1, SpecIInv, PTL

(* Nothing leaks and nothing is given back twice: every open resource has   *)
(* one owner, and what an object or open() remembers is open.               *)
THEOREM ResourcesAreOwnedOnce == Spec => []OwnedOnce
<1>1. IInv => OwnedOnce
  <2> SUFFICES ASSUME IInv PROVE OwnedOnce
    OBVIOUS
  <2>1. ASSUME NEW r \in DOMAIN os
        PROVE  Cardinality({v \in View : view[v].alive /\ r \in ToSet(view[v].held)})
                 + (IF call # None /\ r \in ToSet(call[1].held) THEN 1 ELSE 0) = 1
    <3> DEFINE H == {v \in View : view[v].alive /\ r \in ToSet(view[v].held)}
    <3>1. \A v \in View : v \in H <=> Holds(v, r)
      BY MemberFacts DEF IInv, ViewOK, Empty, Holds
    <3>2. r \in Number
      BY DEF IInv, StateOK
    <3>3. CASE InCall(r)
      <4>1. H = {}
        BY <3>1, <3>2, <3>3 DEF IInv, Apart
      <4>2. Cardinality(H) = 0
        BY <4>1, FS_EmptySet
      <4> QED BY <4>2, <3>3 DEF InCall
    <3>4. CASE ~InCall(r)
      <4>1. PICK v \in View : Holds(v, r)
        BY <3>4 DEF IInv, Owned
      <4>2. H = {v}
        BY <4>1, <3>1, <3>2 DEF IInv, Apart
      <4>3. Cardinality(H) = 1
        BY <4>2, FS_Singleton
      <4> QED BY <4>3, <3>4 DEF InCall
    <3> QED BY <3>3, <3>4
  <2>2. ASSUME NEW o \in Holders, NEW k \in DOMAIN o.held
        PROVE  o.held[k] \in DOMAIN os /\ os[o.held[k]].kind = Kinds[k]
    <3>1. CASE \E v \in View : o = view[v]
      BY <3>1 DEF IInv, ViewOK, Open
    <3>2. CASE o \in ToSet(call)
      <4>1. call # None /\ o = call[1]
        BY <3>2, StateFacts DEF IInv, ToSet, None
      <4> QED BY <4>1 DEF IInv, CallOK, Open
    <3> QED BY <3>1, <3>2 DEF Holders
  <2> QED BY <2>1, <2>2 DEF OwnedOnce
<1> QED BY <1>1, SpecIInv, PTL

(* On Windows the file under a verified view stays as it was verified.      *)
THEOREM VerifiedStaysVerified == Spec => []StaysVerified
<1>1. IInv => StaysVerified
  <2> SUFFICES ASSUME IInv, platform = "windows", NEW v \in View,
                      view[v].alive, view[v].checked, view[v].held # << >>
               PROVE  content[os[Last(view[v].held)].file] = "whole"
    BY DEF StaysVerified
  <2>1. Len(view[v].held) = Len(Kinds)
    BY LastFacts DEF Whole
  <2> QED BY <2>1 DEF IInv, Verified, Last
<1> QED BY <1>1, SpecIInv, PTL

(* Assignment hands over what the source shows, and closes nothing of it:   *)
(* what release() closes is the target's alone.                             *)
THEOREM AssignmentHandsOver == Spec => AssignHandsOver
<1> DEFINE Hands == \A v, w \in View : MoveAssign(v, w) =>
                      /\ view'[v] = view[w]
                      /\ ToSet(view[w].held) \subseteq DOMAIN os'
<1>1. IInv => Hands
  <2> SUFFICES ASSUME IInv, NEW v \in View, NEW w \in View, MoveAssign(v, w)
               PROVE  /\ view'[v] = view[w]
                      /\ ToSet(view[w].held) \subseteq DOMAIN os'
    OBVIOUS
  <2>1. \A r \in ToSet(view[w].held) : Holds(w, r) /\ r \in DOMAIN os /\ r \in Number
    BY HeldAreOpen DEF Holds, IInv, StateOK
  <2>2. CASE v = w
    BY <2>1, <2>2 DEF MoveAssign, Self
  <2>3. CASE v # w
    <3>1. os' = Without(ToSet(view[v].held))
      BY <2>3, ReleaseAll DEF MoveAssign, Self, IInv
    <3>2. view'[v] = view[w]
      BY <2>3 DEF MoveAssign, Self, IInv, StateOK
    <3>3. \A r \in ToSet(view[w].held) : r \notin ToSet(view[v].held)
      BY <2>1, <2>3 DEF IInv, Apart, Holds
    <3> QED BY <2>1, <3>1, <3>2, <3>3 DEF Without
  <2> QED BY <2>2, <2>3
<1> HIDE DEF Hands
<1>2. Spec => [][Hands]_vars
  BY <1>1, SpecIInv, PTL DEF Spec
<1> QED BY <1>2 DEF Hands, AssignHandsOver
=============================================================================
