SPECIFICATION FairSpec
CONSTANTS
    Jobs = {j1}
    Dispatchers = {d1}
    NoOwner = NoOwner
    BatchLimit = 2
    MaxDeliveries = 20
    MaxFaults = 0
CHECK_DEADLOCK FALSE
PROPERTIES
    RetriesEnd
