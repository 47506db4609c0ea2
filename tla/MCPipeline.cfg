\* One worker process, three runs of one document, several batches; every run settles.
SPECIFICATION FairSpec
CONSTANTS
    NoDoc = NoDoc
    Docs = {d1}
    NumWorkers = 1
    MaxRuns = 3
    BatchSize = 2
    MaxChunks = 3
    MaxFile = 4
    MaxAttempts = 2
    HardLimit = 0
    MaxTime = 1
INVARIANTS
    TypeOK
    LatestDoneIsTheOnlyOne
    FailureResidue
    WithinChunkLimit
PROPERTIES
    AlwaysServed
    RunsTerminate
    ImplementsVersions
CHECK_DEADLOCK FALSE
