SPECIFICATION FairSpec
CONSTANTS
    Sessions = {s1, s2}
    Settle = 0
    IdleStop = 0
    AffinityGrace = 1
    OfflineAgeOut = 0
    Reclaim = 1
    StaleDestroy = 2
    MaxRoutes = 2
    MaxMishaps = 1
PROPERTIES
    StopSparesWork
    DestroyOnlyQuiet
    
    IdleContainerStops
CHECK_DEADLOCK FALSE
