\* Three threads that call again and again.
SPECIFICATION LazyFairSpec
CONSTANTS
    Threads = {t1, t2, t3}
    NoThread = NoThread
INVARIANTS
    OneClient
PROPERTIES
    ClientCallsReturn
CHECK_DEADLOCK FALSE
