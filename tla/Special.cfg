SPECIFICATION Spec
CONSTANTS
    Names = {n1, n2, n3}
    MaxRev = 3
    NewVolumes = {3}
    MaxEdits = 2
    MaxFaults = 1
CHECK_DEADLOCK FALSE
INVARIANTS TypeOK SpecialUpgradedBeforeJoin
PROPERTIES VolumeKeptForSpecial SpecialSettles
