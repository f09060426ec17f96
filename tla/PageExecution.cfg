SPECIFICATION FairSpec
CONSTANTS
    PageCount = 2
    MaxAttempts = 2
    BatchSize = 1
    Workers = {w1, w2}
    Relays = {r1}
    NoWorker = NoWorker
    Contents = {"clean", "oversized"}
    Flagged = {}
    Unusable = {"oversized"}
    ProviderFailures = {"RateLimited"}
    MaxTries = 2
    IterationsPerRun = 1
    MaxIterations = 2
    MaxFaults = 1
CHECK_DEADLOCK FALSE
INVARIANTS
    TypeOK
    ArtifactsMatchCheckpoint
    ClaimsAreDurable
    IterationsArePaidFor
PROPERTIES
    PagesOnlyAdvance
    JobSettles
