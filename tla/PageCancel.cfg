SPECIFICATION Spec
CONSTANTS
    PageCount = 2
    MaxAttempts = 1
    BatchSize = 2
    Workers = {w1, w2}
    Relays = {r1, r2}
    NoWorker = NoWorker
    Contents = {"clean", "flagged"}
    Flagged = {"flagged"}
    Unusable = {}
    ProviderFailures = {"Permanent"}
    MaxTries = 2
    IterationsPerRun = 2
    MaxIterations = 4
    MaxFaults = 1
SYMMETRY Slots
CHECK_DEADLOCK FALSE
INVARIANTS
    ResultMatchesCheckpoint
    NoticeExactlyOnce
PROPERTIES
    CancellationFreezes
    TerminalIsFinal
    ImplementsDocumentJob
