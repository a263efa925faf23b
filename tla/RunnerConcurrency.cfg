SPECIFICATION SemSpec
CONSTANTS
    Starts = {1, 2, 3, 4, 5}
    Limits = {1, 2, 3}
INVARIANTS
    NoIdleSlot
PROPERTIES
    ImplementsGate
CHECK_DEADLOCK FALSE
