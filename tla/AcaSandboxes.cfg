SPECIFICATION Spec
CONSTANTS
    Disks = {k1, k2}
    KeepSnapshots = 1
    MaxBoxes = 3
    MaxSnaps = 2
    MaxFaults = 2
INVARIANTS
    TokensCurrent
    RejectedNotRestored
CHECK_DEADLOCK FALSE
