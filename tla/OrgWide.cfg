SPECIFICATION Spec
CONSTANTS
    q1 = q1
    q2 = q2
    c1 = c1
    r1 = r1
    meta = meta
    other = other
    Controls = {c1}
    Runs = {r1}
    Requests = {q1, q2}
    Nothing = Nothing
    Meta = {meta}
    Other = {other}
    Values = {1, 2}
    Contents <- MCContents
    Standings <- MCStandings
    MaxWrites = 3
    RowIds = {1, 2, 3, 4}
    Entry <- MCEntry
SYMMETRY Symmetry
INVARIANTS TypeOK InheritanceFresh CurationFresh OrgWideEligible FrozenBuilds AloneSaves
CHECK_DEADLOCK FALSE
