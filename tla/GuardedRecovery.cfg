SPECIFICATION FairSpec
CONSTANTS
    Devices = {c1, l1}
    Containers = {c1}
    NoDevice = NoDevice
    Ops = {o1}
    MaxClock = 2
PROPERTIES
    ReleaseSparesWork
    LiveRunKeepsClaims
    OutcomeKept
    RecoveredMeansFree
    EveryOperationSettles
CHECK_DEADLOCK FALSE
