SPECIFICATION Spec
CONSTANTS
    Press = {p1, p2}
    MaxPending = 2
    MaxSessions = 2
    MaxEdited = 1
    Rounds = 2
    Path = {csv1, csv2}
SYMMETRY Symmetry
INVARIANTS
    TypeOK
    ShowsEnded
    StopUsable
    StopTakesEffect
    CsvIsOfThisSession
    CorrectionSeesSession
    LiveLabelTells
