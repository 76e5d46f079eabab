SPECIFICATION FairSpec
CONSTANTS
    Sessions = {s1, s2}
    NoSession = NoSession
    Callers = {c1, c2}
    Providers = {p1}
    NotifierCap = 1
    Cooldown = 1
    IdleLimit = 0
    MaxTime = 2
    MaxBroadcasts = 2
INVARIANTS
    TypeOK
    EventsInOrder
    ReportsAreApart
PROPERTIES
    NotifierClosedOnce
    CallbackReturns
    ReaderReturns
CHECK_DEADLOCK FALSE
