SPECIFICATION Spec
CONSTANTS
    c1 = c1
    c2 = c2
    c3 = c3
    c4 = c4
    Clients <- MCClients
    NoClient = NoClient
    MaxConnections = 2
    Splitting <- MCSplitting
    Missing <- MCMissing
    HangingUp <- MCHangingUp
    ReconnectTries = 1
    MaxAddresses = 3
    MaxQueue = 2
    Plans <- MCPlans
INVARIANTS
    AnswersGoHome
    BlocksOnHangUp
    OneStartPerAddress
PROPERTIES
    StationReturns
    AddressStartsServers
    RequestIsAnswered
CHECK_DEADLOCK FALSE
