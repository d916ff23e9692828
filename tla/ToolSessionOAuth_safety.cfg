SPECIFICATION Spec
CONSTANTS
    r1 = r1
    r2 = r2
    Requests = {r1, r2}
    Kinds <- AllKinds
    FlowLifetime = 3
    PollInterval = 1
    SlowDown = 1
    Lease = 2
    WaitLimit = 1
    IdleWindow = 3
    AccessLifetime = 1
    SessionLifetime = 4
    OwnerExpires = 5
    MaxClock = 6
    MaxGeneration = 3
SYMMETRY Symmetry
INVARIANTS
    ReadyIsBacked
    EndedFlowIsErased
    OneOperationPerLease
    StateIsSingleUse
    WithinLifetimes
    ExpiredHoldsNoToken
PROPERTIES
    ThrottleNeverRelaxed
    ImplementsFencedOperation
CHECK_DEADLOCK FALSE
