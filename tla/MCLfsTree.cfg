SPECIFICATION Spec
CONSTANTS
    Pairs <- MCPairs
    Names <- MCNames
    Depth = 2
    Cap = 3
    MaxOps = 3
    MaxMoves = 1
    Careful = TRUE
INVARIANTS
    StateAddsUp
    ListHoldsTree
PROPERTIES
    KeepsTree
CHECK_DEADLOCK FALSE
