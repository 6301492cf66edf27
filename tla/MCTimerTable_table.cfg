SPECIFICATION TableSpec
CONSTANTS
    NULL = NULL
    NONE = NONE
    Svc = svc
    Callers = {c1,c2}
    Size = 2
    K = 2
    UINT = 16
    Settings <- MCSettings
    Start = 7
    Delays = {7}
    MaxNow = 21
    MaxQueue = 3
INVARIANTS TypeOK QueueMatches NeverEarly WakesInTime OrderedUntilCancelled
PROPERTIES ImplementsPool
CHECK_DEADLOCK FALSE
SYMMETRY CallerSymmetry
