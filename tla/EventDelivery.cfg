SPECIFICATION FairSpec
CONSTANTS
    Events = {e1, e2}
    MaxDrops = 1
    MaxCrashes = 1
    MaxRestarts = 1
    MaxRestores = 0
INVARIANTS
    TypeOK
    NoLoss
    DispatchInOrder
    DispatchBound
PROPERTIES
    EventuallyDispatched
CHECK_DEADLOCK FALSE
