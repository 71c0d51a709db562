SPECIFICATION Spec
CONSTANTS
    CellSize = 2
    MaxBoxes = 0
    MaxInt = 1023
    FractionDigits = 2
    Boxes <- MCBoxes
    Numbers <- MCNumbers
    Texts <- MCTexts
    PadParams <- MCPadParams
    Loops <- MCLoops
    Points <- MCPoints
INVARIANT
    CapsBulgeOutward
CHECK_DEADLOCK FALSE
