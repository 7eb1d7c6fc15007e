SPECIFICATION ManagerSpec
CONSTANTS
    s1 = s1
    s2 = s2
    Services <- MCServices
    Managers = {m1, m2}
    Pids = {p1, p2}
    MaxBirths = 3
    Other = Other
    None = None
SYMMETRY MCSymmetry
INVARIANTS
    NoOrphan
PROPERTIES
    SignalsOwn
