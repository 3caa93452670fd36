SPECIFICATION FairMacSpec
CONSTANTS
    heart = heart
    slice = slice
    Owners <- MCOwners
    NoOwner = NoOwner
    MaxIds = 4
    Heartbeat = heart
    Expiring <- MCHeart
    OncePeriods = {TRUE, FALSE}
INVARIANTS
    IdsConserved
    OneShotFiresOnce
PROPERTIES
    RemovedByItsTimer
    HeartbeatGoesOn
CHECK_DEADLOCK FALSE
