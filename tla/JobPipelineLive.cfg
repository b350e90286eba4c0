SPECIFICATION LiveSpec
CONSTANTS
    j1 = j1
    w1 = w1
    w2 = w2
    c1 = c1
    default = default
    Jobs = {j1}
    Workers = {w1, w2}
    Clients = {c1}
    Retry = Retry
    Boot = Boot
    NoJob = NoJob
    Lanes = {default}
    LaneOf <- OneLaneOf
    WorkerLane <- OneLaneWorkers
    MaxFaults = 1
    MaxCrashes = 2
    MaxCorruptions = 0
PROPERTY AcceptedIsCompleted
PROPERTY CancellationFinishes
CHECK_DEADLOCK FALSE
