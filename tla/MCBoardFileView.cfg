SPECIFICATION Spec
CONSTANTS
  a = a
  b = b
  d = d
  View <- MCView
  Platforms <- MCPlatforms
  File <- MCFile
  Number <- MCNumber
VIEW ByOwner
INVARIANTS
  TypeOK
  OwnedOnce
  StaysVerified
PROPERTIES
  AssignHandsOver
