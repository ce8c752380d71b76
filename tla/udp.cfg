SPECIFICATION FairSpec
CONSTANTS
    Request = {d1, d2, d3}
    MaxWorkers = 1
    MaxQueue = 1
    MaxStartFailures = 1
    Rounds = 2
    Ports = {5005}
    MaxInterrupts = 1
INVARIANTS
    TypeOK
    SlotsAccounted
    SampleIsOwn
    OrderlyShutdown
PROPERTIES
    EveryDatagramSettles
    ShutdownCompletes
