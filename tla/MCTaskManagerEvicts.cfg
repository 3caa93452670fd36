SPECIFICATION MCSpec
CONSTANTS
    a = a
    b = b
    c = c
    NoTask = NoTask
    Tasks <- MCTasks
    Loaded <- AllLoaded
    Owned <- NoneOwned
    Returns <- YieldOrEnd
    TimerIds <- EspIds
    NoId = NoId
    MaxListed = 2
PROPERTIES
    EndedTaskStaysEnded
CHECK_DEADLOCK FALSE
