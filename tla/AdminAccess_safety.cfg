SPECIFICATION Spec
CONSTANTS
    Users = {u1, u2}
    FirstUser = u1
    Sessions = {s1, s2}
    Requests = {q1, q2}
    MaxKeys = 2
SYMMETRY AdminSymmetry
INVARIANTS
    ResetsSpendKeys
PROPERTIES
    ShutOut
    SetUpOnce
CHECK_DEADLOCK FALSE
