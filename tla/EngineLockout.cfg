SPECIFICATION Spec
CONSTANTS
    Users = {u1, u2}
    NCams = 1
    Configs <- OneConfig
    LockoutAttempts = 2
    LockoutDuration = 2
    KeepAlive = 1
    TicksPerSecond = 2
    MaxTime = 6
    MaxFailed = 4
INVARIANTS
    RateLimit
    DetectorHeld
PROPERTIES
    NoVerdictWhileLockedOut
    KeptAlive
    ImplementsThrottle
CHECK_DEADLOCK FALSE
