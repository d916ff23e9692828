SPECIFICATION Spec
CONSTANTS
    Turns = {t1}
    Channels = {"browser", "embed", "key"}
    Skills = {a}
    Clashing = {}
    MaxIterations = 2
    MaxBatch = 2
    MaxCalls = 2
    MaxStarted = 4
    MaxMessages = 4
    Stops = TRUE
INVARIANTS
    TypeOK
    StatusMatchesLog
    SentOnce
    AnswersInPlace
CHECK_DEADLOCK FALSE
