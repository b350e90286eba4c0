SPECIFICATION Spec
CONSTANTS
    Procs = {p1, p2}
    Boot = boot
    MaxJobs = 3
    Widths = {1, 2}
    KeepTopN <- MCKeepTopN
    Score <- MCScore
    PromoteItems <- MCNoPromote
    MaxCrashes = 1
    MaxFaults = 1
    MaxPoison = 1
    MaxBadRefs = 1
    MaxAdvances = 1
SYMMETRY MCSymmetry
CONSTRAINT Trouble
INVARIANTS
    ChildrenAreAccounted
    StagesFollowWinners
    QuietIsDone
PROPERTIES
    DecisionsAreKept
CHECK_DEADLOCK FALSE
