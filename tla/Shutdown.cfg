SPECIFICATION FairProcessSpec
CONSTANTS
    Signal = Signal
    Nobody = Nobody
    Requests = {r1}
    Background = {b1}
    Loggers = {r1, b1, Signal}
    Workers = {w1, w2}
    Kinds = {"request"}
    ChanCap = 1
    MaxBatch = 2
    MaxJobs = 1
    Levels = {0, 1}
    LevelOf <- MCLevelOf
    LogCap = 1
    RingSize = 2
    MaxLogs <- MCMaxLogs
INVARIANTS
    ProcessTypeOK
    JobIsInOnePlace
    NoSendOnClosed
    LogIsInOrder
PROPERTIES
    DbIsAsyncQueue
    LogIsAsyncQueue
    JobsAreWritten
    ProgramEnds
CHECK_DEADLOCK FALSE
