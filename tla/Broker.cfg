CONSTANTS
    b1 = b1
    b2 = b2
    none = none
    v1 = v1
    v2 = v2
    c1 = c1
    c2 = c2
    Brokers <- TwoBrokers
    NoBroker <- none
    RawTasks <- AllTasks
    Outcomes <- AllOutcomes
    Contents <- TwoContents
    Start <- v1
    MaxEdits = 2
    MaxOutside = 1
    MaxInterrupts = 1
    MaxErrors = 1
    MaxKills = 1
    Children <- TwoChildren
    MAX_CAPTURE_BYTES = 3
    MaxOutput = 5
    PipeSize = 2
    MaxInterruptions = 2
SPECIFICATION MCSpec
INVARIANT WorkersAreOwned BaselineIsMet ReportsAreTrue InvokeIsSound
PROPERTY BrokerEnds
CHECK_DEADLOCK FALSE
