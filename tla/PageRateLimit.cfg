SPECIFICATION Spec
CONSTANTS
    PageCount = 3
    MaxAttempts = 3
    BatchSize = 2
    Workers = {w1, w2}
    Relays = {r1}
    NoWorker = NoWorker
    Contents = {"clean"}
    Flagged = {}
    Unusable = {}
    ProviderFailures = {"RateLimited"}
    MaxTries = 3
    IterationsPerRun = 50
    MaxIterations = 3000
    MaxFaults = 0
SYMMETRY Slots
CHECK_DEADLOCK FALSE
INVARIANTS
    ProviderFailureIsNotWorkflowFailure
