SPECIFICATION Spec
CONSTANTS
    q1 = q1
    r1 = r1
    r2 = r2
    r3 = r3
    Runs = {r1, r2, r3}
    HighRuns = {r1, r2, r3}
    BackgroundRuns = {}
    Siblings = {r1}
    Requests = {q1}
    UserOps = {"create", "cancel", "delete_scenario"}
    RetentionPhases = {}
    MaxHigh = 1
    MaxStandard = 1
    MaxFaults = 0
    SlowCompute = TRUE
SYMMETRY ClassSymmetry
VIEW Unlogged
INVARIANTS CapBound
CHECK_DEADLOCK FALSE
