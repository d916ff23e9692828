SPECIFICATION StreamSpec
CONSTANTS
    Admins = {alice}
    Removed = {}
    Viewer = alice
    MaxWatched = 1
    Sources = {source}
    NoSource = NoSource
    Cancellers = {c1, c2}
    PlanProgress = {24, 78}
    MaxJobEvents = 7
    MaxRuns = 2
INVARIANTS
    OneActivePerSlot
    Outcomes
    StatusFollowsLog
    ProgressMonotone
    SkillsHaveSource
    PageIsTrue
PROPERTIES
    TerminalIsFinal
SYMMETRY JobsSymmetry
CHECK_DEADLOCK FALSE
