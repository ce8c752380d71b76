SPECIFICATION FairSpec
CONSTANTS
    MaxProcs = 2
    Windows = TRUE
INVARIANTS
    TypeOK
    NoOrphans
    OutputIsRead
    LabelsSettle
PROPERTIES
    StopReturns
