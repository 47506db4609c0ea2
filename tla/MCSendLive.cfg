\* Four calls, two permits.
SPECIFICATION SendFairSpec
CONSTANTS
    Sends = {s1, s2, s3, s4}
    Permits = 2
    Retries = 2
INVARIANTS
    SendTypeOK
    PermitsKept
PROPERTIES
    CallsReturn
CHECK_DEADLOCK FALSE
