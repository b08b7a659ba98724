SPECIFICATION Spec
CONSTANTS
    q1 = q1
    q2 = q2
    r1 = r1
    r2 = r2
    r3 = r3
    Runs = {r1, r2, r3}
    HighRuns = {}
    BackgroundRuns = {r1, r2, r3}
    Siblings = {}
    Requests = {q1, q2}
    UserOps = {"create", "cancel"}
    RetentionPhases = {}
    MaxHigh = 1
    MaxStandard = 1
    MaxFaults = 0
    SlowCompute = FALSE
SYMMETRY ClassSymmetry
VIEW Unlogged
INVARIANTS CapBound
CHECK_DEADLOCK FALSE
