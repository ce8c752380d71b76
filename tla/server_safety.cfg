SPECIFICATION Spec
CONSTANTS
    Request = {c1, c2, c3}
    MaxWorkers = 2
    MaxQueue = 0
    MaxStartFailures = 1
    Backlog = 2
    Kinds = {"good", "malformed", "mute", "plain"}
    MaxInterrupts = 2
SYMMETRY Symmetry
INVARIANTS TypeOK OwnedOnce SlotsNeverLeak InFlightBounded OrderlyShutdown
