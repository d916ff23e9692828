SPECIFICATION Spec
CONSTANTS
    Turns = {t1, t2}
    Channels = {"embed"}
    Skills = {a}
    Clashing = {}
    MaxIterations = 1
    MaxBatch = 1
    MaxCalls = 2
    MaxStarted = 5
    MaxMessages = 1
    Stops = FALSE
INVARIANTS
    AnswersFollowCalls
    NoMoreThanCalled
SYMMETRY ChatSymmetry
CHECK_DEADLOCK FALSE
