SPECIFICATION FairSpec
CONSTANTS
    Request = {c1, c2}
    MaxWorkers = 1
    MaxQueue = 0
    MaxStartFailures = 0
    Backlog = 2
    Kinds = {"good", "silent"}
    MaxInterrupts = 0
PROPERTIES ValidClientSettles
