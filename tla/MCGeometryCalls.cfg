SPECIFICATION Spec
CONSTANTS
    CellSize = 2
    MaxBoxes = 2
    MaxInt = 1023
    FractionDigits = 2
    Boxes <- MCBoxes
    Numbers <- MCNumbers
    Texts <- MCTexts
    PadParams <- MCPadParams
    Loops <- MCLoops
    Points <- MCPoints
INVARIANTS
    TypeOK
    QueryExact
    CheckedExact
    ParseNearest
    FormatParses
    PadOutlineSound
    OutlineTestsIntrinsic
    ContainsExact
CHECK_DEADLOCK FALSE
