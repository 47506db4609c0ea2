\* One task with up to two executions at a time, one client that polls or streams.
SPECIFICATION StatusFairSpec
CONSTANTS
    Tasks = {t1}
    MaxActive = 2
    Clients = {c1}
    MaxPending = 2
    MaxInbox = 3
INVARIANTS
    StatusTypeOK
    NoEndMissed
    ToldTruth
PROPERTIES
    StreamsEnd
CHECK_DEADLOCK FALSE
