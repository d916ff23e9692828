SPECIFICATION Spec
CONSTANTS
    Sources = {x1, x2}
    Owners = {o1}
    Sessions = {s1}
    Calls = {c1, c2}
    Clients = {k1, k2}
    None = none
    IdleTime = 1
    AbsoluteTime = 2
    TokenTime = 1
    MaxTime = 2
SYMMETRY LoginSymmetry
INVARIANTS
    TokensStayHome
PROPERTIES
    EndedStays
    ReloginServesReady
CHECK_DEADLOCK FALSE
