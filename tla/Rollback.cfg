SPECIFICATION FairSpec
CONSTANTS
    Names = {n1, n2, n3}
    Revs = {1, 2, 3, 4, 5, 6}
    FirstRev = 1
    Edits <- ThereAndBack
    Image <- MCImage
    ClaimSpec <- MCClaimSpec
    CanUpgrade <- MCCanUpgrade
    InitReplicas = 3
    Scales <- NoScaling
    Lagging = {}
    MaxGen = 3
    MaxErrors = 0
    MaxFailures = 0
    MaxPartitions = 0
    MaxEvents = 9
PROPERTIES Converges
