SPECIFICATION FailoverSpec
CONSTANTS
    r1 = r1
    b1 = b1
    NoTrack = NoTrack
    NoModel = NoModel
    Requests = {r1}
    Background = {b1}
    Callers = {r1, b1}
    Asks <- MCPlain
    Keys <- MCKeys
    Providers = {"p1", "p2"}
    ProviderOf <- MCProviderOf
    Codes = {200, 401}
    Latencies = {2}
    Thresholds = {1}
    Cooldowns = {0}
    FixedBlock = 1
    FatalBlock = 9
    BackoffUnit = 1
    DurationMod = 64
    PersistentFailures = 2
    EventCap = 0
    MaxTime = 0
    MaxFailures = 2
    MaxLevel = 4
PROPERTIES
    CancelIsNotCharged
CHECK_DEADLOCK FALSE
