SPECIFICATION Spec
CONSTANTS
    Calls = {c1, c2, c3}
    Notifying = {c1, c2}
    NoCall = NoCall
    MaxBootJoins = 2
    MaxAged = 1
    MaxStops = 1
    MaxMisreads = 1
INVARIANTS
    BootNotDropped
    
CHECK_DEADLOCK FALSE
