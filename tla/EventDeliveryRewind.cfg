SPECIFICATION Spec
CONSTANTS
    Events = {e1, e2, e3}
    MaxDrops = 0
    MaxCrashes = 0
    MaxRestarts = 0
    MaxRestores = 1
INVARIANTS
    NotDeaf
PROPERTIES
    RepairKeepsLiveRows
CHECK_DEADLOCK FALSE
