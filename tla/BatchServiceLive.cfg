SPECIFICATION FairSpec
CONSTANTS
    Procs = {p1, p2}
    Boot = boot
    MaxJobs = 5
    Widths = {1}
    KeepTopN <- MCKeepTopN
    Score <- MCScore
    PromoteItems <- MCPromote
    MaxCrashes = 1
    MaxFaults = 0
    MaxPoison = 0
    MaxBadRefs = 0
    MaxAdvances = 0
PROPERTIES
    CancelSettles
    BatchSettles
CHECK_DEADLOCK FALSE
