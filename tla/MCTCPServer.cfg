SPECIFICATION FairSpec
CONSTANTS
    c1 = c1
    c2 = c2
    c3 = c3
    Conns <- MCConns
    NoConn = NoConn
    MaxConnections = 2
    MaxClients = 3
    Talking <- MCTalking
    Finishing <- MCFinishing
    HangingUp <- MCHangingUp
INVARIANTS
    SlotsAreDistinctConnections
    DataReachesItsTask
PROPERTIES
    TaskEndsForItsSlot
    HangUpEndsTask
CHECK_DEADLOCK FALSE
