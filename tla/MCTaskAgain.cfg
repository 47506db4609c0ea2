\* Two uploads, one worker process, no deaths: a retry waits behind another task.
SPECIFICATION TaskSpec
CONSTANTS
    Uploads = {u1, u2}
    Workers = {w1}
    NoMsg = NoMsg
    MaxParts = 1
    MaxSent = 1
    MaxRetries = 1
    MaxCopies = 1
    HardLimit = 1
    Visibility = 3
    Countdown = 1
    PurgeAge = 4
    MaxLosses = 0
INVARIANTS
    BegunOnce
CHECK_DEADLOCK FALSE
SYMMETRY Symmetry
