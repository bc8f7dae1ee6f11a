SPECIFICATION Spec
CONSTANTS
    Names = {n1, n2}
    Replicas = 2
    Lagging = {"galera", "pods"}
    MaxHandlers = 1
    MaxFaults = 1
CHECK_DEADLOCK FALSE
INVARIANTS TypeOK OnlyLostCopiesAreMissing
PROPERTIES ClusterIsSpared RestoreEnds
