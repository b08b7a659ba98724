SPECIFICATION Spec
CONSTANTS
    n1 = n1
    n2 = n2
    o1 = o1
    Requests = {q1, q2}
    Tokens = {t1, t2}
    Names = {n1, n2}
    Tags = {o1}
    Contents = {"a", "b"}
    Unusable = Unusable
    Nothing = Nothing
    Files <- MCFiles
    MaxCommits = 2
    MaxVersions = 2
    MaxViews = 2
SYMMETRY Symmetry
CONSTRAINT Bounded
CHECK_DEADLOCK FALSE
INVARIANTS TypeOK NoBlindDuplicate TokenSpent ProvenanceInTime HistoryWhole
