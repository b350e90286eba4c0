CONSTANTS
    w1 = w1
    loop = loop
    none = none
    untitled = untitled
    t1 = t1
    t2 = t2
    Jobs <- TwoJobs
    Workers <- OneWorker
    Loop <- loop
    None <- none
    MaxCrashes = 1
    MaxEdits = 2
    MaxFaults = 1
    MaxTrouble = 2
SPECIFICATION MCSpec
INVARIANT RolesAreKept
PROPERTY ReplayNeverOverwrites EditsSurvive Settles
