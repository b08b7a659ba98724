SPECIFICATION Spec
CONSTANTS
    a = a
    b = b
    q1 = q1
    q2 = q2
    Users = {a, b}
    Requests = {q1, q2}
    NoUser = NoUser
    NoReq = NoReq
    Roles = {"admin", "analyst", "viewer"}
    Backends = {"sqlite"}
    Gains = TRUE
    LogCap = 2
SYMMETRY Symmetry
INVARIANTS AdminRemains
