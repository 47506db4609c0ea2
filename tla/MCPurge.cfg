\* Two worker processes beside repeated sweeps.
SPECIFICATION SystemFairSpec
CONSTANTS
    NoDoc = NoDoc
    Docs = {d1}
    NumWorkers = 2
    MaxRuns = 2
    BatchSize = 1
    MaxChunks = 1
    MaxFile = 1
    MaxAttempts = 1
    HardLimit = 1
    MaxTime = 3
    MinAge = 2
    MaxDocs = 1
INVARIANTS
    PurgeTypeOK
    VictimsHaveSettled
PROPERTIES
    SupersededAreSwept
CHECK_DEADLOCK FALSE
