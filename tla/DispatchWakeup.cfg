SPECIFICATION Spec
CONSTANTS
    Jobs = {j1}
    Dispatchers = {d1}
    NoOwner = NoOwner
    BatchLimit = 2
    MaxDeliveries = 20
    MaxFaults = 0
SYMMETRY Peers
CHECK_DEADLOCK FALSE
INVARIANTS
    WorkIsDiscoverable
