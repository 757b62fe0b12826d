SPECIFICATION LimiterSpec
CONSTANTS
    Threads = {t1, t2}
    Clients = {a, b}
    NoWindow = NoWindow  NoReading = NoReading
    LimitSetting = 2
    WindowSetting = 2
    EvictAt = 1
    Second = 4
    MaxClock = 12
INVARIANTS LimiterTypeOK LimitHolds
PROPERTIES DeniedForCause OnlyLiveWindowsPileUp RetryAfterIsClose
SYMMETRY LimiterSymmetry
CHECK_DEADLOCK FALSE
