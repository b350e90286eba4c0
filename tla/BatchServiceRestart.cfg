SPECIFICATION Spec
CONSTANTS
    Procs = {p1, p2}
    Boot = boot
    MaxJobs = 5
    Widths = {2}
    KeepTopN <- MCKeepTopN
    Score <- MCScore
    PromoteItems <- MCNoPromote
    MaxCrashes = 1
    MaxFaults = 0
    MaxPoison = 0
    MaxBadRefs = 0
    MaxAdvances = 0
PROPERTIES
    CancelledItemsNeverRun
CHECK_DEADLOCK FALSE
