SPECIFICATION FairSpec
CONSTANTS
    MaxClients = 2
    Rounds = 2
    MaxRuns = 2
    ProofRounds = 1
    MaxCaptures = 1
    MaxOthers = 1
    MaxEvents = 3
INVARIANTS
    TypeOK
    SavedResults
    MetricsAreOfThisTest
    ReportsCountedOnce
    ProofButtons
PROPERTIES
    ImplementsResults
    StressCompletes
    ProofCompletes
