SPECIFICATION FairSpec
CONSTANTS
    Requests = {r1, r2}
    Keys = {k1}
    Bodies = {b1, b2}
    NoBody = NoBody
    Published = {"completed"}
    MaxJobs = 2
    MaxDelayed = 2
INVARIANTS
    TypeOK
    ReplaysAgree
    TerminalStatusIsTrue
PROPERTIES
    CacheCatchesUp
