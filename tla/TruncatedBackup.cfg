SPECIFICATION Spec
CONSTANTS
    Backups = {b1}
    Threads = 2
    RetrySteps = 4
    MaxJobs = 1
    MaxFaults = 1
    MaxRestarts = 0
INVARIANTS CompleteIsWhole
