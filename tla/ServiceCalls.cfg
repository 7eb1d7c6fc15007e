SPECIFICATION FairCallSpec
CONSTANTS
    Clients = {c1, c2}
    i1 = i1 i2 = i2 p1 = p1 p2 = p2
    Requests <- MCRequests
    Inputs <- MCInputs
    MaxBatch = 2
    QueueSize = 1
    CacheLimit = 1
    CancelMayBeLost = TRUE
    ClientRetries = 1
    RunnerRetries = 1
    MaxRuns = 2
    None = None
INVARIANTS
    NeverInferredTwice
    AnswersMatch
    OutcomesAreTrue
PROPERTIES
    SuccessIsKept
    EveryRunnerEnds
CHECK_DEADLOCK FALSE
