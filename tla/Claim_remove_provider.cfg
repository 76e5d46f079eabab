SPECIFICATION Spec
CONSTANTS
    Actors = {t1, t2}
    NoActor = NoActor
    Names = {"p", "q"}
    Models = {"a", "b"}
    InitialConfig <- MCInitialConfig
    Uploads <- MCUploads
    Patches = {}
    Edits = {}
    NoFile = NoFile
    Torn = Torn
    MaxProviders = 3
    MaxModels = 2
    MaxUpdates = 2
    MaxTime = 1
PROPERTY
    RemovesTheProviderItNames
CHECK_DEADLOCK FALSE
