SPECIFICATION Spec
CONSTANTS
    j1 = j1
    w1 = w1
    w2 = w2
    c1 = c1
    default = default
    Jobs = {j1}
    Workers = {w1}
    Clients = {}
    Retry = Retry
    Boot = Boot
    NoJob = NoJob
    Lanes = {default}
    LaneOf <- OneLaneOf
    WorkerLane <- OneLaneWorkers
    MaxFaults = 2
    MaxCrashes = 1
    MaxCorruptions = 1
INVARIANT RepairedHasNoWorker
CHECK_DEADLOCK FALSE
