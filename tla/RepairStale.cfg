SPECIFICATION Spec
CONSTANTS
    Nodes = {n1, n2}
    NoNode = NoNode
    Absent = Absent
    Invalid = Invalid
    Horizon = 2
    Period = 2
    NotReadyThreshold = 1
    RepairLimit = 2
    RepairLock = 3
    RepairLockError = 2
    ScaledownLock = 0
    RepairStates <- DefaultStates
    DryRuns = {FALSE}
    UpdateEnabled = TRUE
    Hosts <- HostedElsewhere
    WatchLags = FALSE
    Downtime = TRUE
    MaxFaults = 1
    MaxOutside = 4
PROPERTIES
    RepairsNeeded
