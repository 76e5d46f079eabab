SPECIFICATION SelectionSpec
CONSTANTS
    MaxLatency = 2
    Inputs <- MCInputs
    NoTrack = NoTrack
    FixedBlock = 1
    FatalBlock = 9
    BackoffUnit = 1
    DurationMod = 64
INVARIANTS
    SelectionIsTiered
    FallbackIsFastest
