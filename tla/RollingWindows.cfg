SPECIFICATION Spec
CONSTANTS
    Threads = {"t1", "t2"}
    Keys = {"k"}
    Limit = 2
    Window = 2
    Horizon = 2
    MinSamples = 2
    Ratio = 50
    Lag = 1
    MaxClock = 4
    MaxRequests = 4
    NoKey = NoKey
CHECK_DEADLOCK FALSE
INVARIANTS
    LimitHolds
    MonitorCovers
PROPERTIES
    RefusedOnlyWhenFull
