SPECIFICATION Spec
CONSTANTS
    Users = {u1}
    NCams = 2
    Configs <- AllConfigs
    LockoutAttempts = 2
    LockoutDuration = 1
    KeepAlive = 1
    TicksPerSecond = 1
    MaxTime = 2
    MaxFailed = 2
INVARIANT
    StrictNeedsEveryCamera
CHECK_DEADLOCK FALSE
