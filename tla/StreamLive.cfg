SPECIFICATION FairSpec
CONSTANTS
    a1 = a1
    a2 = a2
    None = None
    Error = Error
    Audio <- MCAudio
    Records <- MCRecords
    TrackResults = {"ok", "other", "empty"}
    Inventories <- TwoAudios
    FullTrackStages <- ThreeStages
    Replies <- FailingReplies
    MaxInflight = 3
    MaxRuns = 1
    HealthMayFail = FALSE
    WriteMayFail = FALSE
    FilesMayVanish = FALSE
PROPERTIES
    EveryRunSucceeds
CHECK_DEADLOCK FALSE
