SPECIFICATION FairStreamSpec
CONSTANTS
    Admins = {alice, bob}
    Removed = {alice}
    Viewer = bob
    MaxWatched = 1
    Sources = {}
    NoSource = NoSource
    Cancellers = {c1}
    PlanProgress = {24}
    MaxJobEvents = 4
    MaxRuns = 2
PROPERTIES
    AllEnds
CHECK_DEADLOCK FALSE
