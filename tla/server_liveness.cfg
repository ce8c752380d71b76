SPECIFICATION FairSpec
CONSTANTS
    Request = {c1, c2, c3}
    MaxWorkers = 0
    MaxQueue = 2
    MaxStartFailures = 0
    Backlog = 2
    Kinds = {"good", "mute"}
    MaxInterrupts = 2
PROPERTIES ImplementsAdmission EveryConnectionSettles ShutdownCompletes
