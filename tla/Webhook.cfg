SPECIFICATION Spec
CONSTANTS
    Terminals = {1, 2, 3}
    Workflows = {w1}
    Relays = {r1, r2}
    Dispatcher = Dispatcher
    NoOwner = NoOwner
    Published = {"completed"}
    BatchLimit = 2
    MaxDeliveries = 2
    MaxFaults = 1
SYMMETRY RelaySymmetry
INVARIANTS
    TypeOK
    AcknowledgedWasReceived
    RepetitionIsPaidFor
    DeadRowsRanOut
PROPERTIES
    ImplementsOutbox
