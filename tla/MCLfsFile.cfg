SPECIFICATION MCSpec
CONSTANTS
    Handles <- MCHandles
    Appenders = {1}
    BlockCount = 4
    BlockSize = 2
    InlineMax = 2
    Lookahead = 3
    Seeds = {0, 2, 3}
    Layouts <- MCLayouts
    Places <- MCPlaces
    Amounts <- MCAmounts
    MaxSize = 6
    MaxOps = 3
    MaxFails = 1
    Careful = TRUE
INVARIANTS
    PointersAgree
    NoSpaceButPhantom
PROPERTIES
    KeepsBytes
CHECK_DEADLOCK FALSE
