SPECIFICATION FairSpec
CONSTANTS
    Pods = {p1, p2}
    NoPod = NoPod
    NodeNames = {n1, n2}
    Replicas = 2
    Setups <- RepairOnly
    MaxFaults = 1
    MaxOutside = 2
PROPERTIES
    LeavesAffectedNode
