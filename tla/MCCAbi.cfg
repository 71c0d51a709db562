SPECIFICATION Spec
CONSTANTS
  NoValue = NoValue
  n1 = n1
  n2 = n2
  Value = {n1, n2}
  Names = {n2}
  GenMod = 4
  Thread = {t1, t2}
  Board = {b1, b2}
  Snap = {s1, s2}
  Work = {w1}
  List = {d1}
  Files <- MCFiles
  Handles <- MCHandles
  Ids = {1}
  Positions <- MCPositions
  MaxId = 2
  MaxFaults = 1
INVARIANTS
  TypeOK
  NamesStayValid
  PositionsSound
PROPERTIES
  CallsContained
CONSTRAINT Budget
VIEW ByContent
SYMMETRY Symmetry
CHECK_DEADLOCK FALSE
