SPECIFICATION Spec
CONSTANTS
    Request = {c1, c2, c3, c4}
    MaxWorkers = 2
    MaxQueue = 0
    MaxStartFailures = 1
    Backlog = 2
    Kinds = {"good"}
    MaxInterrupts = 0
INVARIANTS CapRespected
