SPECIFICATION FairSpec
CONSTANTS
    a1 = a1
    a2 = a2
    None = None
    Error = Error
    Audio <- MCAudio
    Records <- MCRecords
    TrackResults = {"ok", "other", "empty"}
    Inventories <- UnsoundInventories
    FullTrackStages <- TwoStages
    Replies <- FaultyReplies
    MaxInflight = 3
    MaxRuns = 2
    HealthMayFail = TRUE
    WriteMayFail = FALSE
    FilesMayVanish = TRUE
INVARIANTS
    StageInputCurrent
    CallsMatchRows
    NeverStalls
    OutputValid
PROPERTIES
    TerminalIsFinal
    LifecycleSpec
    EveryRunEnds
CHECK_DEADLOCK FALSE
