SPECIFICATION Spec
CONSTANTS
    Actors = {t1, t2}
    NoActor = NoActor
    Names = {"p", "q"}
    Models = {"a", "b"}
    InitialConfig <- MCInitialConfig
    Uploads <- MCUploads
    Patches <- MCPatches
    Edits <- MCEdits
    NoFile = NoFile
    Torn = Torn
    MaxProviders = 3
    MaxModels = 2
    MaxUpdates = 2
    MaxTime = 1
INVARIANTS
    TypeOK
    FileIsWhole
    MemoryIsFile
PROPERTIES
    PatchesBuildOnMemory
    ReplacedIsBackedUp
    ToolKeepsTheOthers
SYMMETRY ActorSymmetry
CHECK_DEADLOCK FALSE
