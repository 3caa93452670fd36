SPECIFICATION MCSpec
CONSTANTS
    a = a
    b = b
    c = c
    NoTask = NoTask
    Tasks <- MCTasks
    Loaded <- SomeLoaded
    Owned <- MCOwned
    Returns <- AnyReturn
    TimerIds <- EspIds
    NoId = NoId
    MaxListed = 3
INVARIANTS
    NoDuplicates
    DelayNeverLost
    ZombiesReplaceLostTasks
PROPERTIES
    ReadyTaskRuns
    KeepsPromiseAlone
CHECK_DEADLOCK FALSE
