SPECIFICATION Spec
CONSTANTS
  NoValue = NoValue
  Value = {v1, v2}
  GenMod = 4
  Thread = {th1, th2}
  Snap = {s1}
  Work = {w1, w2}
  Table = {net}
  Addr = {a1, a2, a3, a4, a5}
  RestoredIds = {1}
  Handles <- MCHandles
  MaxVersion = 1
  MaxId = 1
  MaxSlots = 1
INVARIANTS
  TypeOK
  CountsExact
  EditsExclusive
PROPERTIES
  ThreadsImplementSnapshotStore
VIEW ByContent
SYMMETRY Symmetry
CHECK_DEADLOCK FALSE
