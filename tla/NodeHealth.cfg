SPECIFICATION Spec
CONSTANTS
    AgentConditions = {"KernelDeadlock", "ReadonlyFilesystem"}
    NotReadyThreshold = 2
    NoHeartbeat = 3
INVARIANTS
    TypeOK
    HeardOfSpared
    KubeletDecides
