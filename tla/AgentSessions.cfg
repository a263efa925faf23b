SPECIFICATION FairSpec
CONSTANTS
    Starts = {1, 2}
    Limits = {1, 2}
    MaxEvents = 2
    MaxResults = 1
    MaxMishaps = 1
INVARIANTS
    OneSignalPerTurn
PROPERTIES
    WorkKeepsPin
    PendingTurnNotReported
    
CHECK_DEADLOCK FALSE
