SPECIFICATION Spec
CONSTANTS
  NoValue = NoValue
  Value = {v1, v2}
  GenMod = 4
  Snap = {s1, s2}
  Work = {w1, w2}
  Table = {"net", "pin"}
  Addr = {a1, a2, a3, a4}
  RestoredIds = {1, 2}
  Handles <- MCHandles
  MaxVersion = 1
  MaxId = 2
  MaxSlots = 1
INVARIANTS
  TypeOK
PROPERTIES
  AllocatorAhead
  ImplementsSnapshotStore
  EditsStayPrivate
  ClonesOnlyShared
CONSTRAINT Budget
VIEW ByContent
SYMMETRY Symmetry
CHECK_DEADLOCK FALSE
