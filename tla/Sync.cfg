SPECIFICATION Spec
CONSTANTS
    Templates = {"A", "B", "C"}
    FirstTemplate = "A"
    LabelSets = {{"l"}, {"l", "m"}}
    FirstLabels = {"l"}
    Services = {"special", "pdb"}
    Pods = {p1, p2}
    HistoryLimit = 0
    Lagging = {}
    MaxEdits = 2
    MaxFaults = 1
INVARIANTS TypeOK NamedRevisionsExist
PROPERTIES HistorySettles ServicesComeUp
