SPECIFICATION Spec
CONSTANTS
    q1 = q1
    q2 = q2
    k1 = k1
    c1 = c1
    Requests = {q1, q2}
    Passkeys = {k1}
    Challenges = {c1}
    Nothing = Nothing
    StepFor = 2
    StepWindow = 0
    Ttl = 1
    Slack = 1
    Latency = 1
    MaxClock = 3
    MaxBatches = 2
    MaxSecrets = 1
SYMMETRY Symmetry
INVARIANTS TypeOK CodesSpentOnce ChallengesSpentOnce StampHonest OneBatch
PROPERTIES KeepsChallenges
CHECK_DEADLOCK FALSE
