SPECIFICATION Spec
CONSTANTS
    c1 = c1
    c2 = c2
    k1 = k1
    k2 = k2
    p1 = p1
    NoTrack = NoTrack
    Callers = {c1, c2}
    Keys = {k1}
    Providers = {p1}
    ProviderOf <- MCProviderOf
    Codes = {0, 400, 401, 418, 429}
    Latencies = {2}
    Thresholds = {0, 1}
    Cooldowns = {1}
    FixedBlock = 1
    FatalBlock = 9
    BackoffUnit = 1
    DurationMod = 64
    PersistentFailures = 2
    EventCap = 1
    MaxTime = 2
    MaxFailures = 2
    MaxLevel = 4
INVARIANTS
    TypeOK
    TrackConsistent
    ViewsAgree
PROPERTIES
    StaysBlocked
SYMMETRY CallerSymmetry
CHECK_DEADLOCK FALSE
