\* One upload, two worker processes; a retry, a death, every time limit.
SPECIFICATION TaskFairSpec
CONSTANTS
    Uploads = {u1}
    Workers = {w1, w2}
    NoMsg = NoMsg
    MaxParts = 1
    MaxSent = 2
    MaxRetries = 1
    MaxCopies = 2
    HardLimit = 1
    Visibility = 3
    Countdown = 1
    PurgeAge = 4
    MaxLosses = 1
INVARIANTS
    TaskTypeOK
    OnlyWholeFilesStay
    FilesAwaitTasks
    BegunOnce
PROPERTIES
    FinalStatusStays
    ImplementsLifecycle
    TasksEnd
    FilesGo
CHECK_DEADLOCK FALSE
