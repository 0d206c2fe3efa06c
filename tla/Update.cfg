SPECIFICATION FairSpec
CONSTANTS
    Nodes = {n1, n2}
    NoNode = NoNode
    Absent = Absent
    Invalid = Invalid
    Horizon = 1
    Period = 1
    UpdateLimit = 1
    UpdateLock = 2
    UpdateLockError = 1
    ScaledownLock = 1
    FailedThreshold = 2
    RepairStates <- DefaultStates
    Reimage = TRUE
    DrainEnable = TRUE
    DrainRetry = FALSE
    DrainIgnoreFailure = FALSE
    DryRun = FALSE
    RepairEnabled = TRUE
    Hosts = {n1, NoNode}
    WatchRace = FALSE
    Downtime = TRUE
    MaxFaults = 2
    MaxOutside = 1
INVARIANTS
    TypeOK
    CordonTracked
    WithinLimit
PROPERTIES
    StartsAlone
    OngoingEndsUpdated
    ImplementsProtocol
    EventuallyMaintained
