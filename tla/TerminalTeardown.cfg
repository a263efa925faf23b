SPECIFICATION FairSpec
CONSTANTS
    MaxDevices = 2
    MaxWebhooks = 3
    MaxFaults = 2
    MaxRestarts = 1
    MaxOps = 1
    MaxSwitches = 1
INVARIANTS
    CallbackOwed
    DeletedLeavesNoBundle
PROPERTIES
    RowGoesOnlyWhenEnded
    TeardownCompletes
CHECK_DEADLOCK FALSE
