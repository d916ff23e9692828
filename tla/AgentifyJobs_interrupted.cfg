SPECIFICATION Spec
CONSTANTS
    Admins = {alice}
    Removed = {}
    Sources = {source}
    NoSource = NoSource
    Cancellers = {c1}
    PlanProgress = {24, 78}
    MaxJobEvents = 6
    MaxRuns = 1
INVARIANTS
    FailedMadeNothing
CHECK_DEADLOCK FALSE
