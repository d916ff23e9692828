SPECIFICATION FairSpec
CONSTANTS
    r1 = r1
    r2 = r2
    Requests = {r1, r2}
    Kinds <- AllKinds
    FlowLifetime = 2
    PollInterval = 1
    SlowDown = 1
    Lease = 2
    WaitLimit = 1
    IdleWindow = 3
    AccessLifetime = 1
    SessionLifetime = 4
    OwnerExpires = 3
    MaxClock = 4
    MaxGeneration = 2
PROPERTIES
    DeviceFlowEnds
    HandlersEnd
CHECK_DEADLOCK FALSE
