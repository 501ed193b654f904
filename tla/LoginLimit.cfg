SPECIFICATION Spec
CONSTANTS
    k1 = k1
    a1 = a1
    a2 = a2
    a3 = a3
    a4 = a4
    Key = {k1}
    Attempt = {a1, a2, a3, a4}
    KeyOf <- SameKey
    Second = 2
    MAX_FAILURES = 3
    BASE_LOCK_SECONDS = 6
    MAX_LOCK_SECONDS = 72
    FAILURE_WINDOW_SECONDS = 18
    MaxFlight = 3
    MaxFaults = 1
INVARIANTS
    TypeOK
    LongestLock
PROPERTIES
    LockStands
    LockEnds
