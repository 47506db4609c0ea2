\* Five ids through a cache of three.
SPECIFICATION HistorySpec
CONSTANTS
    Ids = {k1, k2, k3, k4, k5}
    MaxSize = 3
INVARIANTS
    MostRecentlyUsed
CHECK_DEADLOCK FALSE
