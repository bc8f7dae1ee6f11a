SPECIFICATION Spec
CONSTANTS
    Names = {n1, n2, n3, n4}
    Revs = {1, 2, 3, 4, 5, 6}
    FirstRev = 1
    Edits <- AnyImage
    Image <- MCImage
    ClaimSpec <- MCClaimSpec
    CanUpgrade <- MCCanUpgrade
    InitReplicas = 3
    Scales <- NoScaling
    Lagging = {}
    MaxGen = 3
    MaxErrors = 0
    MaxFailures = 2
    MaxPartitions = 0
    MaxEvents = 9
SYMMETRY NamesSymmetry
INVARIANTS OneDatabase NoIdleNode FailureInv RolesInv
PROPERTIES NoPodBesideUnready NoDowngrade
