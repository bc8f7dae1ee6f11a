SPECIFICATION Spec
CONSTANTS
    Backups = {b1, b2}
    Threads = 2
    RetrySteps = 3
    MaxJobs = 2
    MaxFaults = 1
    MaxRestarts = 1
INVARIANTS TypeOK CompleteIsStored WholeWhenAlone
