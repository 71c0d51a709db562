-------------------------- MODULE BoardFileProofs ---------------------------
(***************************************************************************)
(* Sessions with a board file, for any layers, tables and format versions, *)
(* and any number of entities: whatever is edited, saved, cut short,       *)
(* relabelled and loaded, an id of a layer names one live entity, a file   *)
(* loads as the board that was written, entity by entity, and writing that *)
(* board again gives the same bytes.                                       *)
(*                                                                         *)
(* The inductive invariant holds the same facts of the board in memory, of *)
(* the file and of the bytes a save has under way, so that it survives a   *)
(* save that fails or a crash between any two of its steps.                *)
(***************************************************************************)
EXTENDS BoardFile, ArenaOpsProofs, FiniteSetTheorems, FunctionTheorems, TLAPS

Entity == [id : Nat, value : Value]

-----------------------------------------------------------------------------
(* The inductive invariant.                                                 *)

IdsApart(l, w) ==
  \A t, u \in TableSet(l) :
    \A i \in LiveSlots(w.tables[t]) : \A j \in LiveSlots(w.tables[u]) :
      w.tables[t].slots[i].id = w.tables[u].slots[j].id => t = u /\ i = j

(* a layer: sound tables, and ids that differ across them, all of them      *)
(* behind the allocator                                                     *)
WorkspaceOK(l, w) ==
  /\ w = [nextId |-> w.nextId, tables |-> w.tables]
  /\ w.nextId \in Nat \ {0}
  /\ w.tables = [t \in TableSet(l) |-> w.tables[t]]
  /\ \A t \in TableSet(l) : Sound(w.tables[t])
  /\ IdsApart(l, w)
  /\ \A t \in TableSet(l) : \A i \in LiveSlots(w.tables[t]) :
       w.tables[t].slots[i].id < w.nextId

BoardOK(b) ==
  /\ b = [version |-> b.version, layers |-> b.layers, extensions |-> b.extensions]
  /\ b.version \in Versions
  /\ b.layers = [l \in Layer |-> b.layers[l]]
  /\ \A l \in Layer : WorkspaceOK(l, b.layers[l])

(* the vectors of a layer: entities, no two of them with one id             *)
VectorsOK(l, v) ==
  /\ v = [k \in DOMAIN TablesOf[l] |-> v[k]]
  /\ \A k \in DOMAIN TablesOf[l] : v[k] \in Seq(Entity)
  /\ \A j, k \in DOMAIN TablesOf[l] : \A m \in DOMAIN v[j], n \in DOMAIN v[k] :
       v[j][m].id = v[k][n].id => j = k /\ m = n

BytesOK(bytes) ==
  /\ bytes = [version |-> bytes.version, layers |-> bytes.layers,
              extensions |-> bytes.extensions]
  /\ bytes.version \in Versions
  /\ bytes.layers = [l \in Layer |-> bytes.layers[l]]
  /\ \A l \in Layer : VectorsOK(l, bytes.layers[l])

FileOK == file = Absent \/ file = Cut \/ \E bytes : BytesOK(bytes) /\ file = Full(bytes)

InMemoryOK == board = None \/ \E b : BoardOK(b) /\ board = <<b>>

SavingOK ==
  \/ saving = None
  \/ \E bytes : \E step \in {"write", "close"} :
       BytesOK(bytes) /\ saving = <<[step |-> step, bytes |-> bytes]>>

IInv == FileOK /\ InMemoryOK /\ SavingOK /\ born \in 0 .. MaxBorn

-----------------------------------------------------------------------------
(* The places of a layer's tables.                                          *)

LEMMA Places ==
  ASSUME NEW l \in Layer
  PROVE  /\ Len(TablesOf[l]) \in Nat
         /\ DOMAIN TablesOf[l] = 1 .. Len(TablesOf[l])
         /\ \A k \in 1 .. Len(TablesOf[l]) : TablesOf[l][k] \in TableSet(l)
         /\ \A t \in TableSet(l) : \E k \in 1 .. Len(TablesOf[l]) : t = TablesOf[l][k]
         /\ \A j, k \in 1 .. Len(TablesOf[l]) : TablesOf[l][j] = TablesOf[l][k] => j = k
<1>1. TablesOf[l] \in Seq(TableSet(l))
  BY TablesAssumption
<1>2. Len(TablesOf[l]) \in Nat /\ DOMAIN TablesOf[l] = 1 .. Len(TablesOf[l])
  BY <1>1
<1>3. \A k \in DOMAIN TablesOf[l] : TablesOf[l][k] \in TableSet(l)
  BY DEF TableSet
<1>4. \A t \in TableSet(l) : \E k \in DOMAIN TablesOf[l] : t = TablesOf[l][k]
  BY DEF TableSet
<1>5. \A j, k \in DOMAIN TablesOf[l] : TablesOf[l][j] = TablesOf[l][k] => j = k
  BY TablesAssumption
<1> QED BY <1>2, <1>3, <1>4, <1>5

-----------------------------------------------------------------------------
(* Editing a layer.                                                         *)

LEMMA EmptyWorkspaceOK ==
  ASSUME NEW l \in Layer
  PROVE  WorkspaceOK(l, EmptyWorkspace(l))
<1>1. LiveSlots(EmptyArena) = {}
  BY DEF LiveSlots, EmptyArena
<1> QED BY <1>1, EmptySound DEF WorkspaceOK, IdsApart, EmptyWorkspace

(* One table replaced by one with the same live ids, less some, and new     *)
(* ones from the allocator.                                                 *)
LEMMA TableReplaced ==
  ASSUME NEW l \in Layer, NEW w, WorkspaceOK(l, w), NEW t \in TableSet(l),
         NEW b, Sound(b), IdsDiffer(b), NEW n \in Nat, n >= w.nextId,
         \A j \in LiveSlots(b) :
           \/ b.slots[j].id >= w.nextId /\ b.slots[j].id < n
           \/ \E i \in LiveSlots(w.tables[t]) : b.slots[j].id = w.tables[t].slots[i].id
  PROVE  WorkspaceOK(l, [nextId |-> n, tables |-> [w.tables EXCEPT ![t] = b]])
<1> DEFINE x == [nextId |-> n, tables |-> [w.tables EXCEPT ![t] = b]]
<1>1. x.nextId = n /\ x.tables = [w.tables EXCEPT ![t] = b]
      /\ x = [nextId |-> x.nextId, tables |-> x.tables]
  OBVIOUS
<1>2. DOMAIN w.tables = TableSet(l)
  BY DEF WorkspaceOK
<1>3. /\ x.tables = [u \in TableSet(l) |-> x.tables[u]]
      /\ x.tables[t] = b
      /\ \A u \in TableSet(l) \ {t} : x.tables[u] = w.tables[u]
  BY <1>1, <1>2
<1> HIDE DEF x
<1>4. \A u \in TableSet(l) : \A i \in LiveSlots(w.tables[u]) :
        /\ w.tables[u].slots[i].id \in Nat
        /\ w.tables[u].slots[i].id < w.nextId
  <2> SUFFICES ASSUME NEW u \in TableSet(l), NEW i \in LiveSlots(w.tables[u])
               PROVE  /\ w.tables[u].slots[i].id \in Nat
                      /\ w.tables[u].slots[i].id < w.nextId
    OBVIOUS
  <2>1. Sound(w.tables[u]) /\ w.tables[u].slots[i].id < w.nextId
    BY DEF WorkspaceOK
  <2> QED BY <2>1, SlotFields DEF Sound, LiveSlots
<1>5. w.nextId \in Nat \ {0} /\ n \in Nat \ {0}
  BY DEF WorkspaceOK
<1>6. \A j \in LiveSlots(b) : b.slots[j].id \in Nat /\ b.slots[j].id < n
  <2> SUFFICES ASSUME NEW j \in LiveSlots(b)
               PROVE  b.slots[j].id \in Nat /\ b.slots[j].id < n
    OBVIOUS
  <2>1. b.slots[j].id \in Nat
    BY SlotFields DEF Sound, LiveSlots
  <2> QED BY <1>4, <1>5, <2>1
<1>7. ASSUME NEW u \in TableSet(l) PROVE Sound(x.tables[u])
  BY <1>3 DEF WorkspaceOK
<1>8. ASSUME NEW u \in TableSet(l), NEW i \in LiveSlots(x.tables[u])
      PROVE  x.tables[u].slots[i].id < n
  <2>1. CASE u = t
    BY <1>3, <1>6, <2>1
  <2>2. CASE u # t
    <3>1. x.tables[u] = w.tables[u]
      BY <1>3, <2>2
    <3>2. w.tables[u].slots[i].id \in Nat /\ w.tables[u].slots[i].id < w.nextId
      BY <1>4, <3>1
    <3> QED BY <1>5, <3>1, <3>2
  <2> QED BY <2>1, <2>2
(* against a table that stays *)
<1>9. ASSUME NEW u \in TableSet(l) \ {t}, NEW i \in LiveSlots(w.tables[u]),
             NEW j \in LiveSlots(b)
      PROVE  w.tables[u].slots[i].id # b.slots[j].id
  <2>1. w.tables[u].slots[i].id \in Nat /\ w.tables[u].slots[i].id < w.nextId
    BY <1>4
  <2>2. CASE b.slots[j].id >= w.nextId
    BY <1>5, <1>6, <2>1, <2>2
  <2>3. CASE \E k \in LiveSlots(w.tables[t]) : b.slots[j].id = w.tables[t].slots[k].id
    BY <2>3 DEF WorkspaceOK, IdsApart
  <2> QED BY <2>2, <2>3
<1>10. ASSUME NEW u \in TableSet(l), NEW v \in TableSet(l),
              NEW i \in LiveSlots(x.tables[u]), NEW j \in LiveSlots(x.tables[v]),
              x.tables[u].slots[i].id = x.tables[v].slots[j].id
       PROVE  u = v /\ i = j
  <2>1. CASE u = t /\ v = t
    BY <1>3, <1>10, <2>1 DEF IdsDiffer
  <2>2. CASE u = t /\ v # t
    BY <1>3, <1>9, <1>10, <2>2
  <2>3. CASE u # t /\ v = t
    BY <1>3, <1>9, <1>10, <2>3
  <2>4. CASE u # t /\ v # t
    BY <1>3, <1>10, <2>4 DEF WorkspaceOK, IdsApart
  <2> QED BY <2>1, <2>2, <2>3, <2>4
<1>11. WorkspaceOK(l, x)
  BY <1>1, <1>3, <1>5, <1>7, <1>8, <1>10 DEF WorkspaceOK, IdsApart
<1> QED BY <1>11 DEF x

LEMMA InsertOK ==
  ASSUME NEW l \in Layer, NEW w, WorkspaceOK(l, w), NEW t \in TableSet(l), NEW v \in Value
  PROVE  WorkspaceOK(l, InsertWithId(w, t, [id |-> w.nextId, value |-> v]))
<1> DEFINE a == w.tables[t]
           n == w.nextId
           b == Insert(a, v, n)
<1>1. /\ n \in Nat \ {0} /\ Sound(a) /\ IdsDiffer(a)
      /\ \A i \in LiveSlots(a) : a.slots[i].id < n
  BY DEF WorkspaceOK, IdsApart, IdsDiffer
<1>2. InsertWithId(w, t, [id |-> w.nextId, value |-> v])
        = [nextId |-> n + 1, tables |-> [w.tables EXCEPT ![t] = b]]
  <2>1. Advanced(n, n) = n + 1
    BY <1>1 DEF Advanced
  <2> QED BY <2>1 DEF InsertWithId
<1> HIDE DEF a, n
<1>3. \A i \in LiveSlots(a) : a.slots[i].id # n
  <2> SUFFICES ASSUME NEW i \in LiveSlots(a) PROVE a.slots[i].id # n
    OBVIOUS
  <2>1. a.slots[i].id \in Nat
    BY <1>1, SlotFields DEF Sound, LiveSlots
  <2> QED BY <1>1, <2>1
<1>4. /\ Sound(b) /\ IdsDiffer(b)
      /\ \A j \in LiveSlots(b) :
           b.slots[j].id = n \/ \E i \in LiveSlots(a) : b.slots[j].id = a.slots[i].id
  BY <1>1, <1>3, InsertSound, InsertIdsDiffer
<1> HIDE DEF b
<1>5. /\ n + 1 \in Nat /\ n + 1 >= n
      /\ \A j \in LiveSlots(b) :
           \/ b.slots[j].id >= n /\ b.slots[j].id < n + 1
           \/ \E i \in LiveSlots(a) : b.slots[j].id = a.slots[i].id
  BY <1>1, <1>4
<1>6. WorkspaceOK(l, [nextId |-> n + 1, tables |-> [w.tables EXCEPT ![t] = b]])
  BY <1>4, <1>5, TableReplaced DEF a, n
<1> QED BY <1>2, <1>6

LEMMA EraseOK ==
  ASSUME NEW l \in Layer, NEW w, WorkspaceOK(l, w), NEW t \in TableSet(l), NEW h,
         Located(w.tables[t], h)
  PROVE  WorkspaceOK(l, [w EXCEPT !.tables[t] = Erase(@, h)])
<1> DEFINE a == w.tables[t]
           n == w.nextId
           b == Erase(a, h)
<1>1. n \in Nat \ {0} /\ Sound(a) /\ IdsDiffer(a)
  BY DEF WorkspaceOK, IdsApart, IdsDiffer
<1>2. [w EXCEPT !.tables[t] = Erase(@, h)] = [nextId |-> n, tables |-> [w.tables EXCEPT ![t] = b]]
  <2> DEFINE T == [w.tables EXCEPT ![t] = b]
  <2>1. w = [nextId |-> w.nextId, tables |-> w.tables]
    BY DEF WorkspaceOK
  <2>2. [w EXCEPT !.tables[t] = Erase(@, h)] = [w EXCEPT !.tables = T]
    BY Zenon
  <2> HIDE DEF T
  <2>3. [w EXCEPT !.tables = T] = [nextId |-> n, tables |-> T]
    BY <2>1
  <2> QED BY <2>2, <2>3 DEF T
<1> HIDE DEF n
<1>3. Located(a, h)
  OBVIOUS
<1> HIDE DEF a
<1>4. Sound(b)
  BY <1>1, <1>3, EraseEffect, EraseFreeExact, EraseIndexSound DEF Sound
<1>5. /\ LiveSlots(b) = LiveSlots(a) \ {h.index}
      /\ \A j \in LiveSlots(b) : b.slots[j] = a.slots[j]
  <2>1. LiveSlots(b) = LiveSlots(a) \ {h.index}
    BY <1>1, <1>3, EraseLive DEF Sound
  <2>2. \A j \in DOMAIN a.slots \ {h.index} : b.slots[j] = a.slots[j]
    BY <1>1, <1>3, EraseEffect DEF Sound
  <2> QED BY <2>1, <2>2 DEF LiveSlots
<1> HIDE DEF b
<1>6. IdsDiffer(b)
  BY <1>1, <1>5 DEF IdsDiffer
<1>7. \A j \in LiveSlots(b) : \E i \in LiveSlots(a) : b.slots[j].id = a.slots[i].id
  BY <1>5
<1>8. n >= n /\ n \in Nat
  BY <1>1
<1>9. WorkspaceOK(l, [nextId |-> n, tables |-> [w.tables EXCEPT ![t] = b]])
  BY <1>4, <1>6, <1>7, <1>8, TableReplaced DEF a, n
<1> QED BY <1>2, <1>9

-----------------------------------------------------------------------------
(* Writing.                                                                 *)

(* A vector lists live slots of its table, each once. *)
StandsFor(a, v, pos) ==
  \A m \in DOMAIN v :
    /\ pos[m] \in LiveSlots(a) /\ v[m].id = a.slots[pos[m]].id
    /\ \A n \in DOMAIN v : pos[m] = pos[n] => m = n

LEMMA TableWritten ==
  ASSUME NEW a, IsArena(a)
  PROVE  /\ SerializeTable(a) \in Seq(Entity)
         /\ \E pos : StandsFor(a, SerializeTable(a), pos)
<1> DEFINE e == Entries(a)
           v == SerializeTable(a)
<1>1. PICK pos : Lists(a, Len(a.slots), e, pos)
  BY EntriesAreLiveSlots
<1>2. e \in Seq(Slot) /\ \A i \in DOMAIN e : e[i].value \in Value /\ e[i].id \in Nat
  BY EntriesTyped
<1>3. v = [k \in DOMAIN e |-> [id |-> e[k].id, value |-> e[k].value]]
  BY DEF SerializeTable
<1> HIDE DEF e, v
<1>4. Len(e) \in Nat /\ DOMAIN e = 1 .. Len(e)
  BY <1>2
<1>5. \A k \in DOMAIN e : [id |-> e[k].id, value |-> e[k].value] \in Entity
  BY <1>2 DEF Entity
<1>6. v \in Seq(Entity)
  BY <1>3, <1>4, <1>5
<1>7. ASSUME NEW m \in DOMAIN v
      PROVE  /\ pos[m] \in LiveSlots(a) /\ v[m].id = a.slots[pos[m]].id
             /\ \A n \in DOMAIN v : pos[m] = pos[n] => m = n
  <2>1. m \in 1 .. Len(e) /\ v[m].id = e[m].id /\ DOMAIN v = 1 .. Len(e)
    BY <1>3, <1>4
  <2>2. /\ pos[m] \in LiveSlots(a) /\ e[m] = a.slots[pos[m]]
        /\ \A n \in 1 .. Len(e) : pos[m] = pos[n] => m = n
    BY <1>1, <2>1 DEF Lists
  <2> QED BY <2>1, <2>2
<1>8. StandsFor(a, v, pos)
  BY <1>7 DEF StandsFor
<1> QED BY <1>6, <1>8 DEF v

LEMMA LayerWritten ==
  ASSUME NEW l \in Layer, NEW w, WorkspaceOK(l, w)
  PROVE  VectorsOK(l, SerializeLayer(l, w))
<1> DEFINE T == TablesOf[l]
           v == SerializeLayer(l, w)
<1>1. v = [k \in DOMAIN T |-> SerializeTable(w.tables[T[k]])]
  BY DEF SerializeLayer
<1>2. \A k \in DOMAIN T : /\ T[k] \in TableSet(l) /\ IsArena(w.tables[T[k]])
                          /\ v[k] = SerializeTable(w.tables[T[k]])
  BY <1>1 DEF TableSet, WorkspaceOK, Sound
<1>3. \A j, k \in DOMAIN T : T[j] = T[k] => j = k
  BY TablesAssumption
<1>4. v = [k \in DOMAIN T |-> v[k]]
  BY <1>1
<1>5. IdsApart(l, w)
  BY DEF WorkspaceOK
<1> HIDE DEF v, T
<1>6. \A k \in DOMAIN T : v[k] \in Seq(Entity) /\ \E pos : StandsFor(w.tables[T[k]], v[k], pos)
  BY <1>2, TableWritten
<1>7. ASSUME NEW j \in DOMAIN T, NEW k \in DOMAIN T, NEW m \in DOMAIN v[j], NEW n \in DOMAIN v[k],
             v[j][m].id = v[k][n].id
      PROVE  j = k /\ m = n
  <2>1. PICK p : StandsFor(w.tables[T[j]], v[j], p)
    BY <1>6
  <2>2. PICK q : StandsFor(w.tables[T[k]], v[k], q)
    BY <1>6
  <2>3. /\ p[m] \in LiveSlots(w.tables[T[j]]) /\ v[j][m].id = w.tables[T[j]].slots[p[m]].id
        /\ q[n] \in LiveSlots(w.tables[T[k]]) /\ v[k][n].id = w.tables[T[k]].slots[q[n]].id
    BY <2>1, <2>2 DEF StandsFor
  <2>4. T[j] \in TableSet(l) /\ T[k] \in TableSet(l)
    BY <1>2
  <2>5. w.tables[T[j]].slots[p[m]].id = w.tables[T[k]].slots[q[n]].id
    BY <1>7, <2>3
  <2>6. T[j] = T[k] /\ p[m] = q[n]
    <3>1. \A x \in LiveSlots(w.tables[T[j]]) : \A y \in LiveSlots(w.tables[T[k]]) :
            w.tables[T[j]].slots[x].id = w.tables[T[k]].slots[y].id => T[j] = T[k] /\ x = y
      BY <1>5, <2>4 DEF IdsApart
    <3> QED BY <2>3, <2>5, <3>1
  <2>7. j = k
    BY <1>3, <2>6
  <2>8. /\ p[n] \in LiveSlots(w.tables[T[j]]) /\ v[j][n].id = w.tables[T[j]].slots[p[n]].id
        /\ p[m] = p[n] => m = n
    BY <2>1, <2>7 DEF StandsFor
  <2>9. w.tables[T[j]].slots[p[m]].id = w.tables[T[j]].slots[p[n]].id
    BY <1>7, <2>3, <2>7, <2>8
  <2>10. p[m] = p[n]
    BY <1>5, <2>3, <2>4, <2>8, <2>9 DEF IdsApart
  <2> QED BY <2>7, <2>8, <2>10
<1>8. VectorsOK(l, v)
  BY <1>4, <1>6, <1>7 DEF VectorsOK, T
<1> QED BY <1>8 DEF v

LEMMA BoardWritten ==
  ASSUME NEW b, BoardOK(b)
  PROVE  BytesOK(Serialize(b))
<1> DEFINE bytes == Serialize(b)
<1>1. bytes = [version |-> b.version,
               layers  |-> [l \in Layer |-> SerializeLayer(l, b.layers[l])],
               extensions |-> b.extensions]
  BY DEF Serialize
<1> HIDE DEF bytes
<1>2. /\ bytes.version = b.version /\ bytes.extensions = b.extensions
      /\ bytes.layers = [l \in Layer |-> SerializeLayer(l, b.layers[l])]
      /\ bytes = [version |-> bytes.version, layers |-> bytes.layers,
                  extensions |-> bytes.extensions]
  BY <1>1
<1>3. \A l \in Layer : VectorsOK(l, bytes.layers[l])
  BY <1>2, LayerWritten DEF BoardOK
<1>4. bytes.layers = [l \in Layer |-> bytes.layers[l]]
  BY <1>2
<1>5. BytesOK(bytes)
  BY <1>2, <1>3, <1>4 DEF BytesOK, BoardOK
<1> QED BY <1>5 DEF bytes

-----------------------------------------------------------------------------
(* Reading: DeserializeTable and DeserializeLayer as their recursion        *)
(* computes them.                                                           *)

(* insert_entries(), entry by entry. *)
LEMMA TableByCounting ==
  ASSUME NEW w, NEW t, NEW entries \in Seq(Entity)
  PROVE  \E f : /\ DeserializeTable(w, t, entries) = f[Len(entries)]
               /\ f[0] = w
               /\ \A n \in 1 .. Len(entries) :
                    f[n] = InsertWithId(f[n - 1], t, entries[n])
<1> DEFINE N == Len(entries)
           Step(f, n) == IF n = 0 THEN w
                         ELSE InsertWithId(f[n - 1], t, entries[n])
           Upto(m) == \E f : f = [n \in 0 .. m |-> Step(f, n)]
           after[n \in 0 .. N] ==
             IF n = 0 THEN w
             ELSE InsertWithId(after[n - 1], t, entries[n])
<1>1. N \in Nat
  OBVIOUS
<1>2. Upto(N)
  <2> DEFINE S == {m \in 0 .. N : Upto(m)}
  <2>1. Upto(0)
    <3>1. [n \in 0 .. 0 |-> w]
            = [n \in 0 .. 0 |-> Step([m \in 0 .. 0 |-> w], n)]
      OBVIOUS
    <3> QED BY <3>1
  <2>2. ASSUME NEW m \in 0 .. N - 1, Upto(m) PROVE Upto(m + 1)
    <3>1. PICK f : f = [n \in 0 .. m |-> Step(f, n)]
      BY <2>2
    <3> DEFINE g == [n \in 0 .. m + 1 |-> IF n = m + 1 THEN Step(f, n) ELSE f[n]]
    <3>2. ASSUME NEW n \in 0 .. m + 1 PROVE g[n] = Step(g, n)
      <4>1. CASE n = 0
        BY <4>1, <3>1
      <4>2. CASE n # 0
        <5>1. n - 1 \in 0 .. m /\ n - 1 # m + 1
          BY <4>2
        <5>2. g[n - 1] = f[n - 1]
          BY <5>1
        <5>3. g[n] = Step(f, n)
          BY <3>1
        <5> QED BY <5>2, <5>3
      <4> QED BY <4>1, <4>2
    <3> HIDE DEF Step
    <3>3. g = [n \in 0 .. m + 1 |-> Step(g, n)]
      BY <3>2
    <3> QED BY <3>3
  <2> HIDE DEF Upto
  <2>3. 0 \in S
    BY <2>1, <1>1
  <2>4. \A m \in 0 .. N - 1 : m \in S => m + 1 \in S
    BY <2>2, <1>1
  <2>5. N \in S
    BY <2>3, <2>4, <1>1, CountUp
  <2> QED BY <2>5
<1>3. after = CHOOSE f : f = [n \in 0 .. N |-> Step(f, n)]
  BY DEF after
<1>4. DeserializeTable(w, t, entries) = after[N]
  BY DEF DeserializeTable, after
<1> HIDE DEF after
<1>5. after = [n \in 0 .. N |-> Step(after, n)]
  BY <1>2, <1>3
<1>6. after[0] = w
  BY <1>1, <1>5
<1>7. ASSUME NEW n \in 1 .. N
      PROVE  after[n] = InsertWithId(after[n - 1], t, entries[n])
  <2>1. n \in 0 .. N /\ n # 0
    BY <1>1
  <2> QED BY <1>5, <2>1
<1> QED BY <1>4, <1>6, <1>7

(* A layer, table by table. *)
Stages(l, v, f) ==
  /\ f[0] = EmptyWorkspace(l)
  /\ \A n \in 1 .. Len(TablesOf[l]) :
       f[n] = DeserializeTable(f[n - 1], TablesOf[l][n], v[VectorOf(l, n)])

LEMMA LayerByCounting ==
  ASSUME NEW l \in Layer, NEW v
  PROVE  \E f : DeserializeLayer(l, v) = f[Len(TablesOf[l])] /\ Stages(l, v, f)
<1> DEFINE N == Len(TablesOf[l])
           Step(f, n) == IF n = 0 THEN EmptyWorkspace(l)
                         ELSE DeserializeTable(f[n - 1], TablesOf[l][n], v[VectorOf(l, n)])
           Upto(m) == \E f : f = [n \in 0 .. m |-> Step(f, n)]
           after[n \in 0 .. N] ==
             IF n = 0 THEN EmptyWorkspace(l)
             ELSE DeserializeTable(after[n - 1], TablesOf[l][n], v[VectorOf(l, n)])
<1>1. N \in Nat
  BY Places
<1>2. Upto(N)
  <2> DEFINE S == {m \in 0 .. N : Upto(m)}
  <2>1. Upto(0)
    <3>1. [n \in 0 .. 0 |-> EmptyWorkspace(l)]
            = [n \in 0 .. 0 |-> Step([m \in 0 .. 0 |-> EmptyWorkspace(l)], n)]
      OBVIOUS
    <3> QED BY <3>1
  <2>2. ASSUME NEW m \in 0 .. N - 1, Upto(m) PROVE Upto(m + 1)
    <3>1. PICK f : f = [n \in 0 .. m |-> Step(f, n)]
      BY <2>2
    <3> DEFINE g == [n \in 0 .. m + 1 |-> IF n = m + 1 THEN Step(f, n) ELSE f[n]]
    <3>2. ASSUME NEW n \in 0 .. m + 1 PROVE g[n] = Step(g, n)
      <4>1. CASE n = 0
        BY <4>1, <3>1
      <4>2. CASE n # 0
        <5>1. n - 1 \in 0 .. m /\ n - 1 # m + 1
          BY <4>2
        <5>2. g[n - 1] = f[n - 1]
          BY <5>1
        <5>3. g[n] = Step(f, n)
          BY <3>1
        <5> QED BY <5>2, <5>3
      <4> QED BY <4>1, <4>2
    <3> HIDE DEF Step
    <3>3. g = [n \in 0 .. m + 1 |-> Step(g, n)]
      BY <3>2
    <3> QED BY <3>3
  <2> HIDE DEF Upto
  <2>3. 0 \in S
    BY <2>1, <1>1
  <2>4. \A m \in 0 .. N - 1 : m \in S => m + 1 \in S
    BY <2>2, <1>1
  <2>5. N \in S
    BY <2>3, <2>4, <1>1, CountUp
  <2> QED BY <2>5
<1>3. after = CHOOSE f : f = [n \in 0 .. N |-> Step(f, n)]
  BY DEF after
<1>4. DeserializeLayer(l, v) = after[N]
  BY DEF DeserializeLayer, after
<1> HIDE DEF after
<1>5. after = [n \in 0 .. N |-> Step(after, n)]
  BY <1>2, <1>3
<1>6. after[0] = EmptyWorkspace(l)
  BY <1>1, <1>5
<1>7. ASSUME NEW n \in 1 .. N
      PROVE  after[n] = DeserializeTable(after[n - 1], TablesOf[l][n], v[VectorOf(l, n)])
  <2>1. n \in 0 .. N /\ n # 0
    BY <1>1
  <2> QED BY <1>5, <2>1
<1>8. Stages(l, v, after)
  BY <1>6, <1>7 DEF Stages
<1> QED BY <1>4, <1>8

-----------------------------------------------------------------------------
(* The first m entries of a vector, read into an empty table: slot by slot, *)
(* with no generation used up and none of the slots free.                   *)

Loaded(a, entries, m) ==
  /\ Sound(a)
  /\ a.free = << >>
  /\ a.slots = [i \in 1 .. m |->
                  [value |-> entries[i].value, id |-> entries[i].id, gen |-> 1]]
  /\ DOMAIN a.idIndex = {entries[i].id : i \in 1 .. m}
  /\ \A i \in 1 .. m : a.idIndex[entries[i].id] = i

DistinctIds(entries) ==
  \A i, j \in DOMAIN entries : entries[i].id = entries[j].id => i = j

LEMMA LoadedNext ==
  ASSUME NEW entries \in Seq(Entity), DistinctIds(entries),
         NEW m \in 0 .. Len(entries) - 1, NEW a, Loaded(a, entries, m)
  PROVE  Loaded(Insert(a, entries[m + 1].value, entries[m + 1].id), entries, m + 1)
<1> DEFINE e == entries[m + 1]
           b == Insert(a, e.value, e.id)
           s == [value |-> e.value, id |-> e.id, gen |-> 1]
<1>1. /\ m \in Nat /\ Len(entries) \in Nat /\ DOMAIN entries = 1 .. Len(entries)
      /\ m + 1 \in DOMAIN entries /\ 1 .. m \subseteq DOMAIN entries
      /\ 1 .. m + 1 = (1 .. m) \cup {m + 1} /\ m + 1 \notin 1 .. m
  OBVIOUS
<1>2. e \in Entity
  BY <1>1
<1>3. e.value \in Value /\ e.id \in Nat
  BY <1>2 DEF Entity
<1>4. /\ Sound(a) /\ a.free = << >>
      /\ a.slots = [i \in 1 .. m |-> [value |-> entries[i].value, id |-> entries[i].id, gen |-> 1]]
      /\ DOMAIN a.idIndex = {entries[i].id : i \in 1 .. m}
      /\ \A i \in 1 .. m : a.idIndex[entries[i].id] = i
  BY DEF Loaded
<1>5. DOMAIN a.slots = 1 .. m /\ Len(a.slots) = m /\ a.slots \in Seq(Slot)
  BY <1>1, <1>4 DEF Sound, IsArena
<1>6. TargetSlot(a) = m + 1 /\ SlotGen(a) = 1
  BY <1>1, <1>4, <1>5 DEF TargetSlot, SlotGen, LiftGen
<1> HIDE DEF e
<1>7. /\ b.free = << >>
      /\ b.slots = Append(a.slots, s)
      /\ b.idIndex = [x \in DOMAIN a.idIndex \cup {e.id} |->
                        IF x = e.id THEN m + 1 ELSE a.idIndex[x]]
  BY <1>4, <1>6 DEF Insert
<1>8. Sound(b)
  BY <1>3, <1>4, InsertSound
<1>9. b.slots = [i \in 1 .. m + 1 |->
                   [value |-> entries[i].value, id |-> entries[i].id, gen |-> 1]]
  <2>1. /\ DOMAIN b.slots = 1 .. m + 1
        /\ b.slots[m + 1] = s
        /\ \A i \in 1 .. m : b.slots[i] = a.slots[i]
        /\ b.slots = [i \in 1 .. m + 1 |-> b.slots[i]]
    <3> HIDE DEF b, s
    <3> QED BY <1>1, <1>5, <1>7
  <2>2. s = [value |-> entries[m + 1].value, id |-> entries[m + 1].id, gen |-> 1]
    BY DEF e
  <2>3. \A i \in 1 .. m :
          b.slots[i] = [value |-> entries[i].value, id |-> entries[i].id, gen |-> 1]
    BY <1>4, <2>1
  <2> HIDE DEF b, s
  <2>4. \A i \in 1 .. m + 1 :
          b.slots[i] = [value |-> entries[i].value, id |-> entries[i].id, gen |-> 1]
    BY <1>1, <2>1, <2>2, <2>3
  <2> QED BY <2>1, <2>4
<1>10. DOMAIN b.idIndex = {entries[i].id : i \in 1 .. m + 1}
  <2>1. DOMAIN b.idIndex = {entries[i].id : i \in 1 .. m} \cup {entries[m + 1].id}
    BY <1>4, <1>7 DEF e
  <2> HIDE DEF b
  <2> QED BY <1>1, <2>1
<1>11. ASSUME NEW i \in 1 .. m + 1 PROVE b.idIndex[entries[i].id] = i
  <2>1. CASE i = m + 1
    BY <1>7, <2>1 DEF e
  <2>2. CASE i # m + 1
    <3>1. i \in 1 .. m /\ entries[i].id # e.id
      BY <1>1, <2>2 DEF DistinctIds, e
    <3>2. entries[i].id \in DOMAIN a.idIndex /\ a.idIndex[entries[i].id] = i
      BY <1>4, <3>1
    <3> HIDE DEF b
    <3> QED BY <1>7, <3>1, <3>2
  <2> QED BY <2>1, <2>2
<1> HIDE DEF b
<1>12. Loaded(b, entries, m + 1)
  BY <1>7, <1>8, <1>9, <1>10, <1>11 DEF Loaded
<1> QED BY <1>12 DEF b, e

LEMMA LoadedEmpty ==
  ASSUME NEW entries
  PROVE  Loaded(EmptyArena, entries, 0)
<1>1. EmptyArena.slots = << >> /\ EmptyArena.free = << >> /\ DOMAIN EmptyArena.idIndex = {}
  BY DEF EmptyArena
<1>2. 1 .. 0 = {} /\ << >> = [i \in {} |->
                               [value |-> entries[i].value, id |-> entries[i].id, gen |-> 1]]
  OBVIOUS
<1>3. {entries[i].id : i \in {}} = {}
  OBVIOUS
<1> QED BY <1>1, <1>2, <1>3, EmptySound DEF Loaded

(* What is read is found, by its id, and listed again as it was.            *)
LEMMA LoadedTable ==
  ASSUME NEW v \in Seq(Entity), DistinctIds(v), NEW a, Loaded(a, v, Len(v))
  PROVE  /\ SerializeTable(a) = v
         /\ \A i \in DOMAIN v : TryGet(a, Find(a, v[i].id)) = v[i].value
         /\ Size(a) = Len(v)
<1> DEFINE N == Len(v)
           slot(i) == [value |-> v[i].value, id |-> v[i].id, gen |-> 1]
<1>1. /\ N \in Nat /\ DOMAIN v = 1 .. N /\ \A i \in 1 .. N : v[i] \in Entity
      /\ v = [i \in 1 .. N |-> v[i]]
  OBVIOUS
<1>2. /\ Sound(a) /\ a.slots = [i \in 1 .. N |-> slot(i)]
      /\ DOMAIN a.idIndex = {v[i].id : i \in 1 .. N}
      /\ \A i \in 1 .. N : a.idIndex[v[i].id] = i
  BY DEF Loaded
<1>3. \A i \in 1 .. N : /\ v[i] = [id |-> v[i].id, value |-> v[i].value]
                        /\ v[i].value \in Value /\ v[i].value # NoValue
  BY <1>1, NoValueAssumption DEF Entity
<1>4. DOMAIN a.slots = 1 .. N /\ \A i \in 1 .. N : a.slots[i] = slot(i)
  BY <1>2
<1>5. \A i \in 1 .. N : /\ slot(i).value = v[i].value /\ slot(i).id = v[i].id
                        /\ slot(i).gen = 1
  OBVIOUS
<1> HIDE DEF slot, N
<1>6. LiveSlots(a) = DOMAIN a.slots
  BY <1>3, <1>4, <1>5 DEF LiveSlots, IsLive
<1>7. SerializeTable(a) = v
  <2>1. Entries(a) = a.slots
    BY <1>2, <1>6, EntriesOfFullArena DEF Sound
  <2>2. SerializeTable(a)
          = [k \in DOMAIN a.slots |-> [id |-> a.slots[k].id, value |-> a.slots[k].value]]
    BY <2>1 DEF SerializeTable
  <2>3. \A k \in 1 .. N : [id |-> a.slots[k].id, value |-> a.slots[k].value] = v[k]
    BY <1>3, <1>4, <1>5
  <2> QED BY <1>1, <1>4, <2>2, <2>3
<1>8. ASSUME NEW i \in 1 .. N PROVE TryGet(a, Find(a, v[i].id)) = v[i].value
  <2> DEFINE h == Find(a, v[i].id)
  <2>1. v[i].id \in DOMAIN a.idIndex /\ a.idIndex[v[i].id] = i
    BY <1>2
  <2>2. h = [index |-> i, gen |-> 1]
    BY <1>4, <1>5, <2>1 DEF Find
  <2> HIDE DEF h
  <2>3. h.index = i /\ h.gen = 1
    BY <2>2
  <2>4. /\ i \in DOMAIN a.slots /\ a.slots[i].gen = 1
        /\ a.slots[i].value = v[i].value /\ v[i].value # NoValue
    BY <1>3, <1>4, <1>5
  <2>5. Located(a, h)
    BY <2>3, <2>4 DEF Located, IsLive
  <2>6. TryGet(a, h) = v[i].value
    BY <2>3, <2>4, <2>5 DEF TryGet
  <2> QED BY <2>6 DEF h
<1>9. Size(a) = N
  <2> DEFINE f == [i \in 1 .. N |-> v[i].id]
  <2>1. f \in [1 .. N -> DOMAIN a.idIndex]
    BY <1>2
  <2>2. \A i, j \in 1 .. N : f[i] = f[j] => i = j
    BY <1>1 DEF DistinctIds
  <2>3. \A x \in DOMAIN a.idIndex : \E i \in 1 .. N : f[i] = x
    BY <1>2
  <2> HIDE DEF f
  <2>4. f \in Bijection(1 .. N, DOMAIN a.idIndex)
    BY <2>1, <2>2, <2>3, Fun_IsBij
  <2>5. ExistsBijection(1 .. N, DOMAIN a.idIndex)
    BY <2>4 DEF ExistsBijection
  <2>6. IsFiniteSet(1 .. N) /\ Cardinality(1 .. N) = N
    BY <1>1, FS_Interval
  <2> QED BY <2>5, <2>6, FS_Bijection DEF Size
<1> QED BY <1>1, <1>7, <1>8, <1>9 DEF N

(* u is workspace w, of tables D, after m entries of v were read into t.    *)
ReadInto(D, w, t, v, m, u) ==
  /\ u = [nextId |-> u.nextId, tables |-> u.tables]
  /\ u.nextId \in Nat \ {0} /\ u.nextId >= w.nextId
  /\ \A i \in 1 .. m : v[i].id < u.nextId
  /\ u.tables = [x \in D |-> u.tables[x]]
  /\ \A x \in D \ {t} : u.tables[x] = w.tables[x]
  /\ Loaded(u.tables[t], v, m)

LEMMA ReadNext ==
  ASSUME NEW D, NEW t \in D, NEW w, w.nextId \in Nat,
         NEW v \in Seq(Entity), DistinctIds(v), NEW m \in 0 .. Len(v) - 1,
         NEW u, ReadInto(D, w, t, v, m, u)
  PROVE  ReadInto(D, w, t, v, m + 1, InsertWithId(u, t, v[m + 1]))
<1> DEFINE e == v[m + 1]
           b == Insert(u.tables[t], e.value, e.id)
           n == Advanced(u.nextId, e.id)
           T == [u.tables EXCEPT ![t] = b]
           x == InsertWithId(u, t, e)
<1>1. /\ m \in Nat /\ Len(v) \in Nat /\ m + 1 \in 1 .. Len(v)
      /\ 1 .. m + 1 = (1 .. m) \cup {m + 1} /\ 1 .. m \subseteq 1 .. Len(v)
  OBVIOUS
<1>2. \A i \in 1 .. Len(v) : v[i] \in Entity
  OBVIOUS
<1>3. \A i \in 1 .. Len(v) : v[i].id \in Nat
  BY <1>2 DEF Entity
<1>4. x = [nextId |-> n, tables |-> T]
  BY DEF InsertWithId
<1>5. /\ u.nextId \in Nat \ {0} /\ u.nextId >= w.nextId
      /\ \A i \in 1 .. m : v[i].id < u.nextId
      /\ u.tables = [y \in D |-> u.tables[y]]
      /\ \A y \in D \ {t} : u.tables[y] = w.tables[y]
      /\ Loaded(u.tables[t], v, m)
  BY DEF ReadInto
<1>6. Loaded(b, v, m + 1)
  BY <1>5, LoadedNext
<1> HIDE DEF b
<1>7. /\ T = [y \in D |-> T[y]] /\ T[t] = b
      /\ \A y \in D \ {t} : T[y] = w.tables[y]
  BY <1>5
<1>8. n \in Nat \ {0} /\ n >= u.nextId /\ e.id < n
  BY <1>1, <1>3, <1>5 DEF Advanced
<1> HIDE DEF e, n, T, x
<1>9. n >= w.nextId
  BY <1>5, <1>8
<1>10. \A i \in 1 .. m + 1 : v[i].id < n
  <2> SUFFICES ASSUME NEW i \in 1 .. m + 1 PROVE v[i].id < n
    OBVIOUS
  <2>1. CASE i = m + 1
    BY <1>8, <2>1 DEF e
  <2>2. CASE i \in 1 .. m
    <3>1. v[i].id < u.nextId /\ v[i].id \in Nat
      BY <1>1, <1>3, <1>5, <2>2
    <3> QED BY <1>5, <1>8, <3>1
  <2> QED BY <1>1, <2>1, <2>2
<1>11. x.nextId = n /\ x.tables = T
  BY <1>4
<1>12. ReadInto(D, w, t, v, m + 1, x)
  BY <1>4, <1>6, <1>7, <1>8, <1>9, <1>10, <1>11 DEF ReadInto
<1> QED BY <1>12 DEF x, e

LEMMA TableRead ==
  ASSUME NEW D, NEW t \in D, NEW w, w.nextId \in Nat \ {0},
         w = [nextId |-> w.nextId, tables |-> w.tables],
         w.tables = [x \in D |-> w.tables[x]], w.tables[t] = EmptyArena,
         NEW v \in Seq(Entity), DistinctIds(v)
  PROVE  ReadInto(D, w, t, v, Len(v), DeserializeTable(w, t, v))
<1> DEFINE N == Len(v)
<1>1. N \in Nat
  OBVIOUS
<1>2. PICK f : /\ DeserializeTable(w, t, v) = f[N]
               /\ f[0] = w
               /\ \A n \in 1 .. N : f[n] = InsertWithId(f[n - 1], t, v[n])
  BY TableByCounting
<1> DEFINE S == {m \in 0 .. N : ReadInto(D, w, t, v, m, f[m])}
<1>3. 0 \in S
  <2>1. Loaded(w.tables[t], v, 0)
    BY LoadedEmpty
  <2>2. ReadInto(D, w, t, v, 0, w)
    BY <2>1 DEF ReadInto
  <2> QED BY <1>1, <1>2, <2>2
<1>4. ASSUME NEW m \in 0 .. N - 1, m \in S PROVE m + 1 \in S
  <2>1. m + 1 \in 1 .. N /\ m + 1 \in 0 .. N /\ (m + 1) - 1 = m
    BY <1>1
  <2>2. f[m + 1] = InsertWithId(f[m], t, v[m + 1])
    BY <1>2, <2>1
  <2>3. ReadInto(D, w, t, v, m, f[m])
    BY <1>4
  <2>4. ReadInto(D, w, t, v, m + 1, f[m + 1])
    BY <2>2, <2>3, ReadNext
  <2> QED BY <2>1, <2>4
<1>5. N \in S
  <2>1. \A m \in 0 .. N - 1 : m \in S => m + 1 \in S
    BY <1>4
  <2> HIDE DEF S
  <2> QED BY <1>1, <1>3, <2>1, CountUp
<1> QED BY <1>2, <1>5

(* w is layer l after the vectors of its first m tables were read.          *)
Stage(l, v, m, w) ==
  /\ w = [nextId |-> w.nextId, tables |-> w.tables]
  /\ w.nextId \in Nat \ {0}
  /\ w.tables = [t \in TableSet(l) |-> w.tables[t]]
  /\ \A k \in 1 .. m : /\ Loaded(w.tables[TablesOf[l][k]], v[k], Len(v[k]))
                       /\ \A i \in 1 .. Len(v[k]) : v[k][i].id < w.nextId
  /\ \A k \in m + 1 .. Len(TablesOf[l]) : w.tables[TablesOf[l][k]] = EmptyArena

LEMMA VectorDistinct ==
  ASSUME NEW l \in Layer, NEW v, VectorsOK(l, v), NEW k \in DOMAIN TablesOf[l]
  PROVE  v[k] \in Seq(Entity) /\ DistinctIds(v[k])
BY DEF VectorsOK, DistinctIds

LEMMA StageNext ==
  ASSUME NEW l \in Layer, NEW v, VectorsOK(l, v), NEW m \in 0 .. Len(TablesOf[l]) - 1,
         NEW w, Stage(l, v, m, w)
  PROVE  Stage(l, v, m + 1,
               DeserializeTable(w, TablesOf[l][m + 1], v[VectorOf(l, m + 1)]))
<1> DEFINE T == TablesOf[l]
           N == Len(TablesOf[l])
           t == T[m + 1]
           u == DeserializeTable(w, t, v[m + 1])
<1>1. /\ N \in Nat /\ DOMAIN T = 1 .. N
      /\ \A k \in 1 .. N : T[k] \in TableSet(l)
      /\ \A j, k \in 1 .. N : T[j] = T[k] => j = k
  BY Places
<1>2. /\ m + 1 \in 1 .. N /\ 1 .. m \subseteq 1 .. N
      /\ 1 .. m + 1 = (1 .. m) \cup {m + 1}
      /\ m + 1 \in m + 1 .. N /\ m + 1 + 1 .. N \subseteq m + 1 .. N
      /\ m + 1 .. N \subseteq 1 .. N
      /\ m + 1 \notin 1 .. m /\ m + 1 \notin m + 1 + 1 .. N
  BY <1>1
<1>3. /\ w = [nextId |-> w.nextId, tables |-> w.tables]
      /\ w.nextId \in Nat \ {0}
      /\ w.tables = [x \in TableSet(l) |-> w.tables[x]]
      /\ \A k \in 1 .. m : /\ Loaded(w.tables[T[k]], v[k], Len(v[k]))
                           /\ \A i \in 1 .. Len(v[k]) : v[k][i].id < w.nextId
      /\ \A k \in m + 1 .. N : w.tables[T[k]] = EmptyArena
  BY DEF Stage
<1>4. \A k \in 1 .. N : v[k] \in Seq(Entity) /\ DistinctIds(v[k])
  BY <1>1, VectorDistinct
<1>5. t \in TableSet(l) /\ w.tables[t] = EmptyArena
  BY <1>1, <1>2, <1>3
<1>6. ReadInto(TableSet(l), w, t, v[m + 1], Len(v[m + 1]), u)
  <2> HIDE DEF t
  <2> QED BY <1>2, <1>3, <1>4, <1>5, TableRead
<1>7. t = T[m + 1]
  OBVIOUS
<1> HIDE DEF u, t, T, N
<1>8. /\ u = [nextId |-> u.nextId, tables |-> u.tables]
      /\ u.nextId \in Nat \ {0} /\ u.nextId >= w.nextId
      /\ \A i \in 1 .. Len(v[m + 1]) : v[m + 1][i].id < u.nextId
      /\ u.tables = [x \in TableSet(l) |-> u.tables[x]]
      /\ \A x \in TableSet(l) \ {t} : u.tables[x] = w.tables[x]
      /\ Loaded(u.tables[t], v[m + 1], Len(v[m + 1]))
  BY <1>6 DEF ReadInto
<1>9. \A k \in 1 .. N : k # m + 1 => u.tables[T[k]] = w.tables[T[k]]
  BY <1>1, <1>2, <1>7, <1>8
<1>10. ASSUME NEW k \in 1 .. m + 1
       PROVE  /\ Loaded(u.tables[T[k]], v[k], Len(v[k]))
              /\ \A i \in 1 .. Len(v[k]) : v[k][i].id < u.nextId
  <2>1. CASE k = m + 1
    BY <1>7, <1>8, <2>1
  <2>2. CASE k \in 1 .. m
    <3>1. Loaded(u.tables[T[k]], v[k], Len(v[k]))
      BY <1>2, <1>3, <1>9, <2>2
    <3>2. ASSUME NEW i \in 1 .. Len(v[k]) PROVE v[k][i].id < u.nextId
      <4>1. v[k] \in Seq(Entity)
        BY <1>2, <1>4, <2>2
      <4>2. v[k][i] \in Entity
        BY <4>1
      <4>3. v[k][i].id \in Nat /\ v[k][i].id < w.nextId
        BY <1>3, <2>2, <4>2 DEF Entity
      <4> QED BY <1>3, <1>8, <4>3
    <3> QED BY <3>1, <3>2
  <2> QED BY <1>2, <2>1, <2>2
<1>11. \A k \in m + 1 + 1 .. N : u.tables[T[k]] = EmptyArena
  BY <1>2, <1>3, <1>9
<1>12. Stage(l, v, m + 1, u)
  BY <1>8, <1>10, <1>11 DEF Stage, T, N
<1>13. VectorOf(l, m + 1) = m + 1
  BY DEF VectorOf
<1> QED BY <1>7, <1>12, <1>13 DEF u, T

LEMMA LayerRead ==
  ASSUME NEW l \in Layer, NEW v, VectorsOK(l, v)
  PROVE  Stage(l, v, Len(TablesOf[l]), DeserializeLayer(l, v))
<1> DEFINE N == Len(TablesOf[l])
<1>1. N \in Nat
  BY Places
<1>2. PICK f : DeserializeLayer(l, v) = f[Len(TablesOf[l])] /\ Stages(l, v, f)
  BY LayerByCounting
<1> DEFINE S == {m \in 0 .. N : Stage(l, v, m, f[m])}
<1>3. 0 \in S
  <2>1. \A k \in 1 .. N : TablesOf[l][k] \in TableSet(l)
    BY Places
  <2>2. Stage(l, v, 0, EmptyWorkspace(l))
    BY <1>1, <2>1 DEF Stage, EmptyWorkspace
  <2> QED BY <1>1, <1>2, <2>2 DEF Stages
<1>4. ASSUME NEW m \in 0 .. N - 1, m \in S PROVE m + 1 \in S
  <2>1. m + 1 \in 1 .. N /\ m + 1 \in 0 .. N /\ (m + 1) - 1 = m
    BY <1>1
  <2>2. f[m + 1] = DeserializeTable(f[m], TablesOf[l][m + 1], v[VectorOf(l, m + 1)])
    BY <1>2, <2>1 DEF Stages
  <2>3. Stage(l, v, m, f[m])
    BY <1>4
  <2>4. Stage(l, v, m + 1, f[m + 1])
    BY <2>2, <2>3, StageNext
  <2> QED BY <2>1, <2>4
<1>5. N \in S
  <2>1. \A m \in 0 .. N - 1 : m \in S => m + 1 \in S
    BY <1>4
  <2> HIDE DEF S
  <2> QED BY <1>1, <1>3, <2>1, CountUp
<1> QED BY <1>2, <1>5

(* Where an id of a layer's vectors stands. *)
LEMMA VectorsApart ==
  ASSUME NEW l \in Layer, NEW v, VectorsOK(l, v),
         NEW j \in DOMAIN TablesOf[l], NEW k \in DOMAIN TablesOf[l],
         NEW m \in DOMAIN v[j], NEW n \in DOMAIN v[k], v[j][m].id = v[k][n].id
  PROVE  j = k /\ m = n
BY DEF VectorsOK

(* The slots of a loaded table, with their ids. *)
LEMMA LoadedSlots ==
  ASSUME NEW v \in Seq(Entity), NEW a, Loaded(a, v, Len(v)), NEW i \in LiveSlots(a)
  PROVE  i \in 1 .. Len(v) /\ i \in DOMAIN v /\ a.slots[i].id = v[i].id
<1>1. i \in DOMAIN a.slots
  BY DEF LiveSlots
<1>2. a.slots = [x \in 1 .. Len(v) |->
                   [value |-> v[x].value, id |-> v[x].id, gen |-> 1]]
  BY DEF Loaded
<1>3. DOMAIN v = 1 .. Len(v)
  OBVIOUS
<1> QED BY <1>1, <1>2, <1>3

(* Every entity of every vector is found in its own table. *)
Finds(l, v, w) ==
  \A k \in DOMAIN TablesOf[l] :
    /\ \A i \in DOMAIN v[k] :
         TryGet(w.tables[TablesOf[l][k]], Find(w.tables[TablesOf[l][k]], v[k][i].id))
           = v[k][i].value
    /\ Size(w.tables[TablesOf[l][k]]) = Len(v[k])

LEMMA LayerLoaded ==
  ASSUME NEW l \in Layer, NEW v, VectorsOK(l, v)
  PROVE  /\ WorkspaceOK(l, DeserializeLayer(l, v))
         /\ SerializeLayer(l, DeserializeLayer(l, v)) = v
         /\ Finds(l, v, DeserializeLayer(l, v))
<1> DEFINE T == TablesOf[l]
           N == Len(TablesOf[l])
           w == DeserializeLayer(l, v)
<1>1. Stage(l, v, N, w)
  BY LayerRead
<1> HIDE DEF w
<1>2. /\ N \in Nat /\ DOMAIN T = 1 .. N
      /\ \A k \in 1 .. N : T[k] \in TableSet(l)
      /\ \A t \in TableSet(l) : \E k \in 1 .. N : t = T[k]
      /\ \A j, k \in 1 .. N : T[j] = T[k] => j = k
  BY Places
<1>3. \A k \in 1 .. N : v[k] \in Seq(Entity) /\ DistinctIds(v[k])
  BY <1>2, VectorDistinct
<1>4. /\ w = [nextId |-> w.nextId, tables |-> w.tables]
      /\ w.nextId \in Nat \ {0}
      /\ w.tables = [t \in TableSet(l) |-> w.tables[t]]
      /\ \A k \in 1 .. N : /\ Loaded(w.tables[T[k]], v[k], Len(v[k]))
                           /\ \A i \in 1 .. Len(v[k]) : v[k][i].id < w.nextId
  BY <1>1 DEF Stage
<1>5. \A k \in 1 .. N : \A i \in LiveSlots(w.tables[T[k]]) :
        i \in 1 .. Len(v[k]) /\ i \in DOMAIN v[k] /\ w.tables[T[k]].slots[i].id = v[k][i].id
  BY <1>3, <1>4, LoadedSlots
<1>6. \A k \in 1 .. N : /\ SerializeTable(w.tables[T[k]]) = v[k]
                        /\ \A i \in DOMAIN v[k] :
                             TryGet(w.tables[T[k]], Find(w.tables[T[k]], v[k][i].id)) = v[k][i].value
                        /\ Size(w.tables[T[k]]) = Len(v[k])
  BY <1>3, <1>4, LoadedTable
<1>7. \A j, k \in 1 .. N : \A m \in DOMAIN v[j] : \A n \in DOMAIN v[k] :
        v[j][m].id = v[k][n].id => j = k /\ m = n
  BY <1>2, VectorsApart
<1>8. v = [k \in DOMAIN T |-> v[k]]
  BY DEF VectorsOK
<1>9. SerializeLayer(l, w) = v
  <2>1. SerializeLayer(l, w) = [k \in DOMAIN T |-> SerializeTable(w.tables[T[k]])]
    BY DEF SerializeLayer
  <2> HIDE DEF T, N
  <2> QED BY <1>2, <1>6, <1>8, <2>1
<1>10. Finds(l, v, w)
  BY <1>2, <1>6 DEF Finds
<1> HIDE DEF T, N
<1>11. ASSUME NEW t \in TableSet(l)
       PROVE  /\ Sound(w.tables[t])
              /\ \A i \in LiveSlots(w.tables[t]) : w.tables[t].slots[i].id < w.nextId
  <2>1. PICK k \in 1 .. N : t = T[k]
    BY <1>2
  <2>2. Loaded(w.tables[t], v[k], Len(v[k]))
    BY <1>4, <2>1
  <2>3. ASSUME NEW i \in LiveSlots(w.tables[t]) PROVE w.tables[t].slots[i].id < w.nextId
    BY <1>4, <1>5, <2>1
  <2> QED BY <2>2, <2>3 DEF Loaded
<1>12. ASSUME NEW t \in TableSet(l), NEW u \in TableSet(l),
              NEW i \in LiveSlots(w.tables[t]), NEW j \in LiveSlots(w.tables[u]),
              w.tables[t].slots[i].id = w.tables[u].slots[j].id
       PROVE  t = u /\ i = j
  <2>1. PICK k \in 1 .. N : t = T[k]
    BY <1>2
  <2>2. PICK m \in 1 .. N : u = T[m]
    BY <1>2
  <2>3. i \in DOMAIN v[k] /\ w.tables[t].slots[i].id = v[k][i].id
    BY <1>5, <2>1
  <2>4. j \in DOMAIN v[m] /\ w.tables[u].slots[j].id = v[m][j].id
    BY <1>5, <2>2
  <2>5. k \in 1 .. N /\ m \in 1 .. N /\ v[k][i].id = v[m][j].id
    BY <1>12, <2>1, <2>2, <2>3, <2>4
  <2>6. k = m /\ i = j
    BY <1>7, <2>3, <2>4, <2>5
  <2> QED BY <2>1, <2>2, <2>6
<1>13. WorkspaceOK(l, w)
  BY <1>4, <1>11, <1>12 DEF WorkspaceOK, IdsApart
<1> QED BY <1>9, <1>10, <1>13 DEF w

LEMMA BoardLoaded ==
  ASSUME NEW bytes, BytesOK(bytes)
  PROVE  /\ BoardOK(DeserializeBoard(bytes))
         /\ Serialize(DeserializeBoard(bytes)) = bytes
         /\ \A l \in Layer : Finds(l, bytes.layers[l], DeserializeBoard(bytes).layers[l])
<1> DEFINE b == DeserializeBoard(bytes)
<1>1. b = [version |-> bytes.version,
           layers  |-> [l \in Layer |-> DeserializeLayer(l, bytes.layers[l])],
           extensions |-> bytes.extensions]
  BY DEF DeserializeBoard
<1> HIDE DEF b
<1>2. /\ b.version = bytes.version /\ b.extensions = bytes.extensions
      /\ b.layers = [l \in Layer |-> DeserializeLayer(l, bytes.layers[l])]
      /\ b = [version |-> b.version, layers |-> b.layers, extensions |-> b.extensions]
  BY <1>1
<1>3. /\ bytes = [version |-> bytes.version, layers |-> bytes.layers,
                  extensions |-> bytes.extensions]
      /\ bytes.version \in Versions
      /\ bytes.layers = [l \in Layer |-> bytes.layers[l]]
      /\ \A l \in Layer : VectorsOK(l, bytes.layers[l])
  BY DEF BytesOK
<1>4. \A l \in Layer : /\ WorkspaceOK(l, b.layers[l])
                       /\ SerializeLayer(l, b.layers[l]) = bytes.layers[l]
                       /\ Finds(l, bytes.layers[l], b.layers[l])
  BY <1>2, <1>3, LayerLoaded
<1>5. b.layers = [l \in Layer |-> b.layers[l]]
  BY <1>2
<1>6. BoardOK(b)
  BY <1>2, <1>3, <1>4, <1>5 DEF BoardOK
<1>7. Serialize(b) = bytes
  <2>1. [l \in Layer |-> SerializeLayer(l, b.layers[l])] = bytes.layers
    BY <1>3, <1>4
  <2>2. Serialize(b) = [version |-> bytes.version, layers |-> bytes.layers,
                        extensions |-> bytes.extensions]
    BY <1>2, <2>1 DEF Serialize
  <2> QED BY <1>3, <2>2
<1> QED BY <1>4, <1>6, <1>7 DEF b

-----------------------------------------------------------------------------
(* What each change does to a board and to a file.                          *)

LEMMA EmptyBoardOK == BoardOK(EmptyBoard)
<1> DEFINE b == EmptyBoard
<1>1. b = [version |-> CurrentFormatVersion,
           layers  |-> [l \in Layer |-> EmptyWorkspace(l)],
           extensions |-> << >>]
  BY DEF EmptyBoard
<1> HIDE DEF b
<1>2. /\ b.version \in Versions
      /\ b.layers = [l \in Layer |-> EmptyWorkspace(l)]
      /\ b = [version |-> b.version, layers |-> b.layers, extensions |-> b.extensions]
  BY <1>1, VersionAssumption
<1>3. \A l \in Layer : WorkspaceOK(l, b.layers[l])
  BY <1>2, EmptyWorkspaceOK
<1>4. b.layers = [l \in Layer |-> b.layers[l]]
  BY <1>2
<1>5. BoardOK(b)
  BY <1>2, <1>3, <1>4 DEF BoardOK
<1> QED BY <1>5 DEF b

LEMMA CommitOK ==
  ASSUME NEW b, BoardOK(b), NEW l \in Layer, NEW w, WorkspaceOK(l, w)
  PROVE  BoardOK([b EXCEPT !.layers[l] = w])
<1> DEFINE L == [b.layers EXCEPT ![l] = w]
           c == [b EXCEPT !.layers[l] = w]
<1>1. /\ b = [version |-> b.version, layers |-> b.layers, extensions |-> b.extensions]
      /\ b.version \in Versions
      /\ b.layers = [m \in Layer |-> b.layers[m]]
      /\ \A m \in Layer : WorkspaceOK(m, b.layers[m])
  BY DEF BoardOK
<1>2. L = [m \in Layer |-> L[m]] /\ \A m \in Layer : WorkspaceOK(m, L[m])
  BY <1>1
<1>3. c = [b EXCEPT !.layers = L]
  BY Zenon
<1> HIDE DEF L, c
<1>4. c = [version |-> b.version, layers |-> L, extensions |-> b.extensions]
  BY <1>1, <1>3
<1>5. BoardOK(c)
  BY <1>1, <1>2, <1>4 DEF BoardOK
<1> QED BY <1>5 DEF c

LEMMA ExtendedOK ==
  ASSUME NEW b, BoardOK(b), NEW e
  PROVE  BoardOK([b EXCEPT !.extensions = e])
<1>1. /\ b = [version |-> b.version, layers |-> b.layers, extensions |-> b.extensions]
      /\ b.version \in Versions
      /\ b.layers = [m \in Layer |-> b.layers[m]]
      /\ \A m \in Layer : WorkspaceOK(m, b.layers[m])
  BY DEF BoardOK
<1>2. [b EXCEPT !.extensions = e]
        = [version |-> b.version, layers |-> b.layers, extensions |-> e]
  BY <1>1
<1> QED BY <1>1, <1>2 DEF BoardOK

LEMMA RelabelledOK ==
  ASSUME NEW bytes, BytesOK(bytes), NEW version \in Versions
  PROVE  BytesOK([bytes EXCEPT !.version = version])
<1>1. /\ bytes = [version |-> bytes.version, layers |-> bytes.layers,
                  extensions |-> bytes.extensions]
      /\ bytes.layers = [l \in Layer |-> bytes.layers[l]]
      /\ \A l \in Layer : VectorsOK(l, bytes.layers[l])
  BY DEF BytesOK
<1>2. [bytes EXCEPT !.version = version]
        = [version |-> version, layers |-> bytes.layers, extensions |-> bytes.extensions]
  BY <1>1
<1> QED BY <1>1, <1>2 DEF BytesOK

(* The board in memory, the whole file, the bytes under way.                *)
LEMMA InMemory ==
  ASSUME InMemoryOK, board # None
  PROVE  board = <<board[1]>> /\ BoardOK(board[1])
<1>1. PICK b : BoardOK(b) /\ board = <<b>>
  BY DEF InMemoryOK
<1> QED BY <1>1

LEMMA OnFile ==
  ASSUME FileOK, Whole
  PROVE  BytesOK(file.bytes)
<1>1. Absent.state # "whole" /\ Cut.state # "whole"
  BY DEF Absent, Cut
<1>2. PICK bytes : BytesOK(bytes) /\ file = Full(bytes)
  BY <1>1 DEF FileOK, Whole
<1>3. file.bytes = bytes
  BY <1>2 DEF Full
<1> QED BY <1>2, <1>3

LEMMA UnderWay ==
  ASSUME SavingOK, saving # None
  PROVE  /\ BytesOK(saving[1].bytes) /\ saving[1].step \in {"write", "close"}
         /\ saving = <<[step |-> saving[1].step, bytes |-> saving[1].bytes]>>
<1>1. PICK bytes : \E step \in {"write", "close"} :
        BytesOK(bytes) /\ saving = <<[step |-> step, bytes |-> bytes]>>
  BY DEF SavingOK
<1>2. PICK step \in {"write", "close"} :
        BytesOK(bytes) /\ saving = <<[step |-> step, bytes |-> bytes]>>
  BY <1>1
<1>3. saving[1].bytes = bytes /\ saving[1].step = step
  BY <1>2
<1> QED BY <1>2, <1>3

-----------------------------------------------------------------------------
(* The invariant is inductive.                                              *)

LEMMA Initially == Init => IInv
BY ValueAssumption DEF Init, IInv, FileOK, InMemoryOK, SavingOK

LEMMA InsertStep ==
  ASSUME IInv, NEW l \in Layer, NEW t \in TableSet(l), InsertEntity(l, t)
  PROVE  IInv'
<1> DEFINE b == board[1]
           w == b.layers[l]
           x == InsertWithId(w, t, [id |-> w.nextId, value |-> born + 1])
<1>1. /\ board # None /\ born < MaxBorn /\ born' = born + 1
      /\ board' = <<[b EXCEPT !.layers[l] = x]>>
      /\ UNCHANGED <<file, saving>>
  BY DEF InsertEntity, Have, CommitLayer
<1>2. BoardOK(b)
  BY <1>1, InMemory DEF IInv
<1>3. WorkspaceOK(l, w)
  BY <1>2 DEF BoardOK
<1>4. born + 1 \in Value /\ born' \in 0 .. MaxBorn
  BY <1>1, ValueAssumption DEF IInv
<1>5. WorkspaceOK(l, x)
  BY <1>3, <1>4, InsertOK
<1> HIDE DEF x, w, b
<1>6. BoardOK([b EXCEPT !.layers[l] = x])
  BY <1>2, <1>5, CommitOK
<1>7. InMemoryOK'
  BY <1>1, <1>6 DEF InMemoryOK
<1> QED BY <1>1, <1>4, <1>7 DEF IInv, FileOK, SavingOK

LEMMA EraseStep ==
  ASSUME IInv, NEW l \in Layer, NEW t \in TableSet(l), NEW h, EraseEntity(l, t, h)
  PROVE  IInv'
<1> DEFINE b == board[1]
           w == b.layers[l]
           x == [w EXCEPT !.tables[t] = Erase(@, h)]
<1>1. /\ board # None /\ Located(w.tables[t], h)
      /\ board' = <<[b EXCEPT !.layers[l] = x]>>
      /\ UNCHANGED <<file, saving, born>>
  BY DEF EraseEntity, Have, CommitLayer
<1>2. BoardOK(b)
  BY <1>1, InMemory DEF IInv
<1>3. WorkspaceOK(l, w)
  BY <1>2 DEF BoardOK
<1>4. WorkspaceOK(l, x)
  BY <1>1, <1>3, EraseOK
<1> HIDE DEF x, w, b
<1>5. BoardOK([b EXCEPT !.layers[l] = x])
  BY <1>2, <1>4, CommitOK
<1>6. InMemoryOK'
  BY <1>1, <1>5 DEF InMemoryOK
<1> QED BY <1>1, <1>6 DEF IInv, FileOK, SavingOK

LEMMA ExtensionStep ==
  ASSUME IInv, NEW l \in Layer, NEW t \in TableSet(l), NEW h, AddExtension(l, t, h)
  PROVE  IInv'
<1> DEFINE b == board[1]
           e == Append(b.extensions,
                       [domain |-> l, id |-> IdOf(b.layers[l].tables[t], h)])
<1>1. /\ board # None
      /\ board' = <<[b EXCEPT !.extensions = e]>>
      /\ UNCHANGED <<file, saving, born>>
  BY DEF AddExtension, Have
<1>2. BoardOK(b)
  BY <1>1, InMemory DEF IInv
<1> HIDE DEF e, b
<1>3. BoardOK([b EXCEPT !.extensions = e])
  BY <1>2, ExtendedOK
<1>4. InMemoryOK'
  BY <1>1, <1>3 DEF InMemoryOK
<1> QED BY <1>1, <1>4 DEF IInv, FileOK, SavingOK

LEMMA BeginSaveStep ==
  ASSUME IInv, BeginSave
  PROVE  IInv'
<1>1. /\ board # None /\ file' = Cut
      /\ saving' = <<[step |-> "write", bytes |-> Serialize(board[1])]>>
      /\ UNCHANGED <<board, born>>
  BY DEF BeginSave, Have, Holds
<1>2. BytesOK(Serialize(board[1]))
  BY <1>1, InMemory, BoardWritten DEF IInv
<1>3. SavingOK'
  BY <1>1, <1>2 DEF SavingOK
<1> QED BY <1>1, <1>3 DEF IInv, FileOK, InMemoryOK

LEMMA WriteStep ==
  ASSUME IInv, WriteBytes
  PROVE  IInv'
<1> DEFINE bytes == saving[1].bytes
<1>1. /\ saving # None
      /\ saving' = <<[saving[1] EXCEPT !.step = "close"]>>
      /\ file' = Cut \/ file' = Full(bytes)
      /\ UNCHANGED <<board, born>>
  BY DEF WriteBytes, Idle, Holds
<1>2. /\ BytesOK(bytes)
      /\ saving = <<[step |-> saving[1].step, bytes |-> bytes]>>
  BY <1>1, UnderWay DEF IInv
<1>3. saving' = <<[step |-> "close", bytes |-> bytes]>>
  <2>1. saving[1] = [step |-> saving[1].step, bytes |-> bytes]
    BY <1>2
  <2>2. [saving[1] EXCEPT !.step = "close"] = [step |-> "close", bytes |-> bytes]
    BY <2>1
  <2> QED BY <1>1, <2>2
<1> HIDE DEF bytes
<1>4. SavingOK' /\ FileOK'
  BY <1>1, <1>2, <1>3 DEF SavingOK, FileOK
<1> QED BY <1>1, <1>4 DEF IInv, InMemoryOK

LEMMA CloseStep ==
  ASSUME IInv, CloseFile
  PROVE  IInv'
<1> DEFINE bytes == saving[1].bytes
<1>1. /\ saving # None /\ saving' = None
      /\ file' = file \/ file' = Full(bytes)
      /\ UNCHANGED <<board, born>>
  BY DEF CloseFile, Idle, Holds
<1>2. BytesOK(bytes)
  BY <1>1, UnderWay DEF IInv
<1> HIDE DEF bytes
<1>3. FileOK'
  BY <1>1, <1>2 DEF IInv, FileOK
<1> QED BY <1>1, <1>3 DEF IInv, InMemoryOK, SavingOK

LEMMA LoadStep ==
  ASSUME IInv, Load
  PROVE  IInv'
<1>1. /\ Whole
      /\ board' = <<DeserializeBoard(file.bytes)>>
      /\ UNCHANGED <<file, saving, born>>
  BY DEF Load
<1>2. BoardOK(DeserializeBoard(file.bytes))
  BY <1>1, OnFile, BoardLoaded DEF IInv
<1>3. InMemoryOK'
  BY <1>1, <1>2 DEF InMemoryOK
<1> QED BY <1>1, <1>3 DEF IInv, FileOK, SavingOK

LEMMA RelabelStep ==
  ASSUME IInv, NEW version \in Versions, Relabel(version)
  PROVE  IInv'
<1>1. /\ Whole
      /\ file' = Full([file.bytes EXCEPT !.version = version])
      /\ UNCHANGED <<board, saving, born>>
  BY DEF Relabel, Holds
<1>2. BytesOK([file.bytes EXCEPT !.version = version])
  BY <1>1, OnFile, RelabelledOK DEF IInv
<1>3. FileOK'
  BY <1>1, <1>2 DEF FileOK
<1> QED BY <1>1, <1>3 DEF IInv, InMemoryOK, SavingOK

LEMMA Inductive == IInv /\ [Next]_vars => IInv'
<1> SUFFICES ASSUME IInv, [Next]_vars PROVE IInv'
  OBVIOUS
<1> USE DEF IInv, FileOK, InMemoryOK, SavingOK
<1>1. CASE NewBoard
  <2>1. board' = <<EmptyBoard>> /\ UNCHANGED <<file, saving, born>>
    BY <1>1 DEF NewBoard
  <2> QED BY <2>1, EmptyBoardOK
<1>2. ASSUME NEW l \in Layer, NEW t \in TableSet(l), InsertEntity(l, t) PROVE IInv'
  BY <1>2, InsertStep
<1>3. ASSUME NEW l \in Layer, NEW t \in TableSet(l), NEW h \in Handles, EraseEntity(l, t, h)
      PROVE  IInv'
  BY <1>3, EraseStep
<1>4. ASSUME NEW l \in Layer, NEW t \in TableSet(l), NEW h \in Handles, AddExtension(l, t, h)
      PROVE  IInv'
  BY <1>4, ExtensionStep
<1>5. CASE BeginSave
  BY <1>5, BeginSaveStep
<1>6. CASE WriteBytes
  BY <1>6, WriteStep
<1>7. CASE FailWrite
  BY <1>7 DEF FailWrite
<1>8. CASE CloseFile
  BY <1>8, CloseStep
<1>9. CASE Crash
  BY <1>9 DEF Crash
<1>10. CASE Load
  BY <1>10, LoadStep
<1>11. ASSUME NEW version \in Versions, Relabel(version) PROVE IInv'
  BY <1>11, RelabelStep
<1>12. CASE UNCHANGED vars
  BY <1>12 DEF vars
<1> HIDE DEF IInv, FileOK, InMemoryOK, SavingOK
<1> QED BY <1>1, <1>2, <1>3, <1>4, <1>5, <1>6, <1>7, <1>8, <1>9, <1>10, <1>11, <1>12
        DEF Next

-----------------------------------------------------------------------------
(* What the invariant gives.                                                *)

LEMMA BoardInMemory ==
  ASSUME IInv, NEW b \in Boards
  PROVE  BoardOK(b)
BY InMemory DEF Boards, IInv

LEMMA BytesOfFile ==
  ASSUME IInv, NEW bytes \in Files
  PROVE  BytesOK(bytes)
BY OnFile DEF Files, IInv

(* At every step of a session the board in memory is one of the versions    *)
(* files carry, with sound tables and an allocator past the null id; a save *)
(* is writing or closing; the births stay within their bound.               *)
THEOREM TypeCorrect == Spec => []TypeOK
<1>1. IInv => TypeOK
  <2> SUFFICES ASSUME IInv PROVE TypeOK
    OBVIOUS
  <2>1. ASSUME NEW b \in Boards
        PROVE  /\ b.version \in Versions
               /\ \A l \in Layer : /\ b.layers[l].nextId \in Nat \ {0}
                                   /\ \A t \in TableSet(l) : IsArena(b.layers[l].tables[t])
    BY BoardInMemory DEF BoardOK, WorkspaceOK, Sound
  <2>2. saving = None \/ saving[1].step \in {"write", "close"}
    BY UnderWay DEF IInv
  <2> QED BY <2>1, <2>2 DEF TypeOK, IInv
<1> QED BY <1>1, Initially, Inductive, PTL DEF Spec

(* Whatever was edited before it was saved, a file that this build can read *)
(* is written again, byte for byte, by loading and saving it.               *)
THEOREM FilesAreStable == Spec => []FileStable
<1>1. IInv => FileStable
  BY BytesOfFile, BoardLoaded DEF FileStable
<1> QED BY <1>1, Initially, Inductive, PTL DEF Spec

(* Every entity of a file is found in the board it loads as, by its id and  *)
(* in its own table, and the board holds no other.                          *)
THEOREM LoadsFindEverything == Spec => []LoadFindsEverything
<1>1. IInv => LoadFindsEverything
  <2> SUFFICES ASSUME IInv, NEW bytes \in Files, NEW l \in Layer, NEW k \in DOMAIN TablesOf[l]
               PROVE  LET a == DeserializeBoard(bytes).layers[l].tables[TablesOf[l][k]]
                          v == bytes.layers[l][k]
                      IN  /\ \A i \in DOMAIN v : TryGet(a, Find(a, v[i].id)) = v[i].value
                          /\ Size(a) = Len(v)
    BY DEF LoadFindsEverything
  <2>1. Finds(l, bytes.layers[l], DeserializeBoard(bytes).layers[l])
    BY BytesOfFile, BoardLoaded
  <2> QED BY <2>1 DEF Finds
<1> QED BY <1>1, Initially, Inductive, PTL DEF Spec

(* Within a layer of a board, new, edited or loaded, an id names one live   *)
(* entity, whichever table it is in.                                        *)
THEOREM IdsAreUnambiguous == Spec => []IdsUnambiguous
<1>1. IInv => IdsUnambiguous
  <2> SUFFICES ASSUME IInv, NEW b \in Boards, NEW l \in Layer PROVE IdsApart(l, b.layers[l])
    BY DEF IdsUnambiguous, IdsApart
  <2> QED BY BoardInMemory DEF BoardOK, WorkspaceOK
<1> QED BY <1>1, Initially, Inductive, PTL DEF Spec
=============================================================================
