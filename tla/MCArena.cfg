SPECIFICATION Spec
CONSTANTS
  Value = {v1}
  NoValue = NoValue
  GenMod = 4
  Ids <- MCIds
  MaxIssued = 5
INVARIANTS
  TypeOK
  FreeListExact
  IdIndexExact
  HandleIdentity
CHECK_DEADLOCK FALSE
