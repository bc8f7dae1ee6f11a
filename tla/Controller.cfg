SPECIFICATION Spec
CONSTANTS
    Pods = {p}
    Claims = {c}
    Resource = galera
    Workers = {w1, w2}
    NameFits = TRUE
    MaxChanges = 4
    MaxUid = 2
    MaxFaults = 1
CHECK_DEADLOCK FALSE
INVARIANTS TypeOK NoLostChange NoForeignObject
PROPERTIES OrphansAreAdopted ImplementsWatch
