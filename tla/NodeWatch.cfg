SPECIFICATION FairSpec
CONSTANTS
    Nodes = {n1, n2}
    NoNode = NoNode
    s1 = s1
    s2 = s2
    ScaleSetOf <- OwnScaleSets
    MaxFaults = 1
    MaxOutside = 3
INVARIANTS
    TypeOK
    ListComplete
    ViewsAreFresh
PROPERTIES
    EventuallyListed
    RunsGoOn
