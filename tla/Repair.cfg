SPECIFICATION FairSpec
CONSTANTS
    Nodes = {n1, n2}
    NoNode = NoNode
    Absent = Absent
    Invalid = Invalid
    Horizon = 1
    Period = 2
    NotReadyThreshold = 1
    RepairLimit = 1
    RepairLock = 3
    RepairLockError = 2
    ScaledownLock = 0
    RepairStates <- DefaultStates
    DryRuns = {TRUE, FALSE}
    UpdateEnabled = TRUE
    Hosts <- HostedAnywhere
    WatchLags = TRUE
    Downtime = TRUE
    MaxFaults = 1
    MaxOutside = 2
INVARIANTS
    TypeOK
    WithinLimit
PROPERTIES
    RepairsNeeded
    RepairsNotRepeated
    KeepsRepairing
