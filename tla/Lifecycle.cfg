SPECIFICATION FairSpec
CONSTANTS
    Pods = {p1, p2}
    NoPod = NoPod
    NodeNames = {n1, n2}
    Replicas = 2
    Setups <- AllSetups
    MaxFaults = 1
    MaxOutside = 2
INVARIANTS
    TypeOK
    OneWorker
PROPERTIES
    ImplementsLeadership
    LeavesWhenSound
    Served
CHECK_DEADLOCK FALSE
