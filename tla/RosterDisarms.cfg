SPECIFICATION Spec
CONSTANTS
    a = a
    b = b
    c = c
    q1 = q1
    q2 = q2
    Users = {a, b, c}
    Requests = {q1, q2}
    NoUser = NoUser
    NoReq = NoReq
    Roles = {"admin", "analyst"}
    Backends = {"sqlite", "postgres"}
    Gains = FALSE
    LogCap = 2
SYMMETRY Symmetry
INVARIANTS TypeOK DisarmsSerialized
PROPERTIES KeepsRoster
