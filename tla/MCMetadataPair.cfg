SPECIFICATION Spec
CONSTANTS
    Names <- MCNames
    Structs = {fresh, written}
    Fresh = fresh
    Blocks <- MCBlocks
    Handles = {h1}
    Units = 5
    Revs = 4
    BlockCycles = 2
    MaxBad = 1
    MaxOps = 2
    RenamesOpen = FALSE
    RenamesItself = FALSE
INVARIANTS
    LookupsAgree
    HandlesFollow
PROPERTIES
    KeepsDirectory
    CommitEnds
CHECK_DEADLOCK FALSE
