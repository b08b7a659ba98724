SPECIFICATION Spec
CONSTANTS
    q1 = q1
    q2 = q2
    s1 = s1
    Requests = {q1, q2}
    Sessions = {s1}
    Nothing = Nothing
    MaxFailed = 2
    LockFor = 3
    SourceMax = 1
    Window = 1
    SourceLock = 1
    Latency = 1
    MaxClock = 3
    MaxMisses = 3
SYMMETRY Symmetry
INVARIANTS TypeOK ThresholdLocks
PROPERTIES LockBinds RevokedStaysGone
CHECK_DEADLOCK FALSE
