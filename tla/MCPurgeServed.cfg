\* The sweep during an update of an old document.
SPECIFICATION SystemSpec
CONSTANTS
    NoDoc = NoDoc
    Docs = {d1}
    NumWorkers = 1
    MaxRuns = 2
    BatchSize = 1
    MaxChunks = 2
    MaxFile = 2
    MaxAttempts = 1
    HardLimit = 1
    MaxTime = 2
    MinAge = 2
    MaxDocs = 1
PROPERTIES
    ServedDespiteSweep
CHECK_DEADLOCK FALSE
