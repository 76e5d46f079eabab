SPECIFICATION FairSpec
CONSTANTS
    Models = {a, b}
    EventCap = 1
INVARIANTS
    OneWarmupPerModel
    TimersAreOfTopTwo
    NoChangeIsMissed
PROPERTIES
    TopStaysWarm
    LoopStops
CHECK_DEADLOCK FALSE
