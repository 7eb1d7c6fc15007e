SPECIFICATION Spec
CONSTANTS
    k1 = k1
    k2 = k2
    k3 = k3
    None = None
    Keys <- MCKeys
    Inputs <- MCInputs
    LegacyDone <- MCLegacyDone
    NumLoaders = 2
    Models = {m1, m2}
    m1 = m1
    m2 = m2
    SaveWorker = SaveWorker
    BatchSize = 1
    InputSize = 1
    ResultSize = 1
    BufferSize = 2
    MaxRuns = 2
INVARIANTS
    ResultsBelong
    CompletedHasResult
    NothingLost
    SomebodyMoves
SYMMETRY ModelSymmetry
CHECK_DEADLOCK FALSE
