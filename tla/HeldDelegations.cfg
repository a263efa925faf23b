SPECIFICATION FairSpec
CONSTANTS
    Sessions = {s1, s2}
    Versions = {v1, v2}
    NoVersion = NoVersion
    MaxPrompts = 2
    MaxFaults = 1
    MaxCrashes = 1
    MaxOutside = 1
INVARIANTS
    DelegationAccounted
    DeliveredOnce
    HeldOnBuild
PROPERTIES
    EveryDelegationSettles
CHECK_DEADLOCK FALSE
