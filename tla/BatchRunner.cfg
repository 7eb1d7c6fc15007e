SPECIFICATION FairBatchSpec
CONSTANTS
    a1 = a1 a2 = a2 a3 = a3 a4 = a4 a5 = a5
    Audios = {a1, a2, a3, a4, a5}
    Trees <- MCTrees
    Partial = Partial
    NoTree = NoTree
    Decision <- MCDecision
    Kind <- MCKind
    Unsplittable = {a3}
    Clashes <- MCClashes
    RunAlm = TRUE
    MaxFaults = 2
INVARIANTS
    DoneIsTrue
    ChecksHold
PROPERTIES
    ImplementsAtomic
    RerunsConverge
