SPECIFICATION MCSpec
CONSTANTS
    a = a
    b = b
    c = c
    NoTask = NoTask
    Tasks <- MCTasks
    Loaded <- AllLoaded
    Owned <- NoneOwned
    Returns <- DelayOnly
    TimerIds <- MacIds
    NoId = 0
    MaxListed = 2
INVARIANTS
    DelayNeverLost
CHECK_DEADLOCK FALSE
