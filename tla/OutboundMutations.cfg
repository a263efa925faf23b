SPECIFICATION Spec
CONSTANTS
    Mutations = {m1, m2}
    MaxDrops = 1
    MaxTimeouts = 1
    MaxCrashes = 1
    MaxRestarts = 1
INVARIANTS
    AssumedNotLost
    OfflineOrder
    PerformedOnce
CHECK_DEADLOCK FALSE
