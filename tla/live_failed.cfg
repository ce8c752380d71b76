SPECIFICATION Spec
CONSTANTS
    Press = {p1, p2}
    MaxPending = 2
    MaxSessions = 1
    MaxEdited = 1
    Rounds = 1
    Path = {csv1}
SYMMETRY Symmetry
INVARIANTS
    FailedMeansLocal
