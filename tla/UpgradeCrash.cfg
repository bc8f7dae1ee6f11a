SPECIFICATION Spec
CONSTANTS
    Names = {n1, n2, n3, n4}
    Revs = {1, 2, 3, 4, 5, 6}
    FirstRev = 1
    Edits <- EitherUpgrade
    Image <- MCImage
    ClaimSpec <- MCClaimSpec
    CanUpgrade <- MCCanUpgrade
    InitReplicas = 3
    Scales <- NoScaling
    Lagging = {}
    MaxGen = 2
    MaxErrors = 1
    MaxFailures = 0
    MaxPartitions = 1
    MaxEvents = 9
SYMMETRY NamesSymmetry
INVARIANTS TypeOK UpgradedBeforeJoin OneNodeAtATime LastCopyKept UpgradeInv AvailabilityInv
PROPERTIES AdoptedWhenDeployed
