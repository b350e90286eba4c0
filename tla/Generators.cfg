CONSTANTS
    j1 = j1
    j2 = j2
    NoJob = NoJob
    Jobs <- MCJobs
    Pictures <- MCPictures
    Loras = {"ink", "oil"}
    NoLora = "base"
    PictureFaults = 2
    Songs <- MCSongs
    FrameRate = 2
    MaxDuration = 3
    SongFaults = 1
    TextFaults = 2
    NumFrames = 2
    VideoFaults = 1
    Narrations <- MCNarrations
    SpeechAdvertised <- MCSpeechAdvertised
    SpeechRates <- MCSpeechRates
    SpeechLengths <- MCSpeechLengths
    SpeechFaults = 1
    MaxRetries = 2
    Base = 2
    Multiplier = 3
    Cap = 5
    TransportErrors <- MCTransportErrors
    Secret = "key"
    Durations <- MCDurations
    TimelineRates <- MCTimelineRates
    MaxScenes = 3
    MaxTotal = 250
    MaxFps = 60
    MaxFrames = 4
    Assets = {"a1", "a2"}
    Projects = {"p", "q"}
    NoAsset = NoAsset
    References <- MCReferences
    Capability <- MCCapability
    NoCapability = NoCapability
    MaxSteps = 3
SPECIFICATION Spec
INVARIANT StoppedWorkLeavesNothing WithinLimits ReferencesAreApplied
PROPERTY  SuccessIsWhole ProviderRetriesAreSound WorkEnds
