SPECIFICATION Spec
CONSTANTS
    s1 = s1
    d1 = d1
    q1 = q1
    q2 = q2
    Scenarios = {s1}
    Drafts = {d1}
    Requests = {q1, q2}
    Nothing = Nothing
    Backends = {"sqlite", "postgres"}
    Sweeps = TRUE
    Found <- MCFound
    MaxRev = 3
    MaxEdits = 3
SYMMETRY Symmetry
CHECK_DEADLOCK FALSE
INVARIANTS TypeOK VersionCountsCommits OnlyEditsOverwrite SavedOnce
PROPERTIES PromotionStands
