SPECIFICATION Spec
CONSTANTS
    Uploads = {u1, u2}
    Document = Document
    Digest <- SameDigest
    Other = Other
    Dispatchers = {d1, d2}
    NoOwner = NoOwner
    Documents <- MCDocuments
    MaxPages = 2
    MaxPagePixels = 6
    MaxTotalPixels = 10
    BatchLimit = 2
    MaxAttempts = 2
    MaxPuts = 2
SYMMETRY Peers
CHECK_DEADLOCK FALSE
INVARIANTS
    TypeOK
    AcceptedSourceIsScanned
    EventsFollowStatus
    AttemptsArePaidFor
PROPERTIES
    DecisionIsFinal
