CONSTANTS
    verse = verse  intro = intro  inst = inst
    Inputs <- MCInputs
    SnapTolerance = 3
    DuplicateTolerance = 4
    MinimumDuration = 16
    ExtremelyShort = 4
    ShortConfidence = 2
    Certain = 3
    Protected <- MCProtected
    Programs <- MCPrograms
    ContentTypes <- MCContentTypes
    BatchSize = 2
    Padding = 3
    BucketLimits <- MCBucketLimits
    Instrumental <- MCInstrumental
    MaxFaults = 2
SPECIFICATION FairAsrSpec
INVARIANTS SectionsTile WordsOnce
PROPERTIES LyricsSettle
