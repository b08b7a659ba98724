SPECIFICATION FairSpec
CONSTANTS
    q1 = q1
    q2 = q2
    r1 = r1
    Runs = {r1}
    HighRuns = {}
    BackgroundRuns = {r1}
    Siblings = {r1}
    Requests = {q1, q2}
    UserOps = {"create", "cancel", "delete", "force_delete", "purge", "delete_scenario"}
    RetentionPhases = {"purge", "delete"}
    MaxHigh = 1
    MaxStandard = 1
    MaxFaults = 2
    SlowCompute = TRUE
INVARIANTS TypeOK ResultsIntegrity AuditExplainsStatus
PROPERTIES KeepsContract ReaperSparesLive Settles
CHECK_DEADLOCK FALSE
