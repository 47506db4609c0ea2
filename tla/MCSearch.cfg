\* A search while two batches of a first version are being written.
SPECIFICATION SearchSpec
CONSTANTS
    NoDoc = NoDoc
    Docs = {d1}
    NumWorkers = 1
    MaxRuns = 2
    BatchSize = 1
    MaxChunks = 2
    MaxFile = 2
    MaxAttempts = 1
    HardLimit = 1
    MaxTime = 0
    Limit = 3
PROPERTIES
    ReadersSeeWholeVersions
CHECK_DEADLOCK FALSE
