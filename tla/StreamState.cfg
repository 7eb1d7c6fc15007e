SPECIFICATION Spec
CONSTANTS
    a1 = a1
    a2 = a2
    None = None
    Audio <- MCAudio
    Records <- MCRecords
    Stages = {"fast_gate"}
    Inputs = {i1, i2}
    Results = {r1, r2}
    i1 = i1
    i2 = i2
    r1 = r1
    r2 = r2
    MaxAttempts = 2
CONSTRAINT AttemptBound
PROPERTIES
    SucceededIsFinal
CHECK_DEADLOCK FALSE
