SPECIFICATION Spec
CONSTANTS
  NoValue = NoValue
  GenMod = 8
  Value <- MCValue
  Layer <- MCLayer
  TablesOf <- MCTablesOf
  Versions <- MCVersions
  MaxBorn = 3
  MaxExtensions = 1
INVARIANTS
  TypeOK
  FileStable
  LoadFindsEverything
  IdsUnambiguous
CHECK_DEADLOCK FALSE
