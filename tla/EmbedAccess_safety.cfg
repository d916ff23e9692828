SPECIFICATION Spec
CONSTANTS
    Agents = {a1}
    Embeds = {e1}
    Sessions = {s1}
    ToolSessions = {g1}
    Requests = {q1, q2}
    IdleTime = 1
    AbsoluteTime = 2
    LoginTime = 1
    GrantTime = 2
    MaxTime = 3
INVARIANTS
    TypeOK
    ExchangedOnce
PROPERTIES
    ExchangedInTime
CHECK_DEADLOCK FALSE
