SPECIFICATION Spec
CONSTANTS
    Jobs = {j1}
    Dispatchers = {d1, d2}
    NoOwner = NoOwner
    BatchLimit = 2
    MaxDeliveries = 2
    MaxFaults = 5
SYMMETRY Peers
CHECK_DEADLOCK FALSE
INVARIANTS
    TypeOK
    OverlapIsPaidFor
PROPERTIES
    ImplementsOutbox
