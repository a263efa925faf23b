SPECIFICATION FairSpec
CONSTANTS
    Sessions = {s1}
    Issues = {i1}
    Devices = {d1, d2}
    Containers = {d2}
    NoDevice = NoDevice
    IssueOf <- OneIssue
    IssueLock = TRUE
INVARIANTS
    ClaimsWereRouted
    RecoveredStaysReleased
PROPERTIES
    StrandedLockFreed
CHECK_DEADLOCK FALSE
