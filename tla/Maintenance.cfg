SPECIFICATION MaintenanceSpec
CONSTANTS
    Nodes = {n1}
    NoNode = NoNode
    Absent = Absent
    Invalid = Invalid
    Horizon = 1
    Period = 1
    UpdateLimit = 0
    UpdateLock = 1
    UpdateLockError = 1
    ScaledownLock = 0
    FailedThreshold = 2
    RepairStates <- DefaultStates
    Reimage = TRUE
    DrainEnable = TRUE
    DrainRetry = FALSE
    DrainIgnoreFailure = FALSE
    DryRun = FALSE
    RepairEnabled = FALSE
    Hosts <- HostedElsewhere
    WatchRace = FALSE
    Downtime = FALSE
    MaxFaults = 1
    MaxOutside = 1
    RepairPeriod = 2
    NotReadyThreshold = 1
    RepairLimit = 1
    RepairLock = 2
    RepairLockError = 1
INVARIANT CordonTracked
PROPERTIES
    HealthyMaintained
    BrokenRepaired
