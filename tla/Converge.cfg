SPECIFICATION FairSpec
CONSTANTS
    Names = {n1, n2, n3}
    Revs = {1, 2, 3, 4, 5, 6}
    FirstRev = 1
    Edits <- EitherUpgrade
    Image <- MCImage
    ClaimSpec <- MCClaimSpec
    CanUpgrade <- MCCanUpgrade
    InitReplicas = 3
    Scales <- NoScaling
    Lagging = {}
    MaxGen = 2
    MaxErrors = 0
    MaxFailures = 1
    MaxPartitions = 0
    MaxEvents = 2
PROPERTIES Converges
