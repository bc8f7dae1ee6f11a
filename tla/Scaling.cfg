SPECIFICATION Spec
CONSTANTS
    Names = {n1, n2, n3, n4, n5}
    Revs = {1, 2, 3, 4, 5, 6}
    FirstRev = 1
    Edits <- NoEdits
    Image <- MCImage
    ClaimSpec <- MCClaimSpec
    CanUpgrade <- MCCanUpgrade
    InitReplicas = 3
    Scales <- UpAndDown
    Lagging = {"galera"}
    MaxGen = 3
    MaxErrors = 1
    MaxFailures = 0
    MaxPartitions = 0
    MaxEvents = 9
SYMMETRY NamesSymmetry
INVARIANTS NoIdleNode CrashInv
PROPERTIES RolesSpared
