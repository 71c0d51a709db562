SPECIFICATION Spec
CHECK_DEADLOCK FALSE
CONSTANTS
    MaxInt = 1023
    CopperNames = {"F.Cu", "In1.Cu", "In2.Cu", "B.Cu", "Extra.Cu", "*.Cu"}
    NetNames <- MCNetNames
    RatioScale = 100
    MaxCopperLayers = 3
    Lattice <- MCLattice
    Files <- MCFiles
    MIN_SUPPORTED_KICAD_VERSION = 20260206
    MaxTrips = 2
INVARIANT NoNullId
