SPECIFICATION Spec
CONSTANTS
  NoValue = NoValue
  GenMod = 8
  Value <- MCValue
  Layer <- MCLayer
  TablesOf <- MCTablesOf
  Versions <- MCVersions
  MaxBorn = 3
  MaxExtensions = 1
INVARIANT IdsNeverReused
CHECK_DEADLOCK FALSE
