SPECIFICATION Spec
CONSTANTS
    Nodes = {n1, n2}
    NoNode = NoNode
    Absent = Absent
    Invalid = Invalid
    Horizon = 2
    Period = 2
    UpdateLimit = 1
    UpdateLock = 3
    UpdateLockError = 2
    ScaledownLock = 0
    FailedThreshold = 2
    RepairStates <- DefaultStates
    Reimage = TRUE
    DrainEnable = TRUE
    DrainRetry = FALSE
    DrainIgnoreFailure = FALSE
    DryRun = FALSE
    RepairEnabled = FALSE
    Hosts <- HostedElsewhere
    WatchRace = FALSE
    Downtime = TRUE
    MaxFaults = 0
    MaxOutside = 2
PROPERTIES
    ThresholdStops
