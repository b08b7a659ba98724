SPECIFICATION Spec
CONSTANTS
    q1 = q1
    q2 = q2
    r1 = r1
    Runs = {r1}
    HighRuns = {}
    BackgroundRuns = {r1}
    Siblings = {r1}
    Requests = {q1, q2}
    UserOps = {"create", "cancel"}
    RetentionPhases = {}
    MaxHigh = 1
    MaxStandard = 1
    MaxFaults = 0
    SlowCompute = TRUE
INVARIANTS ResultsOnlyOnCompleted
CHECK_DEADLOCK FALSE
