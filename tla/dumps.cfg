SPECIFICATION Spec
CONSTANTS
    Engines = {"sqlserver", "postgres", "mysql", "redis"}
    MaxChunks = 3
    PipeCap = 1
    PipeFaults = {"start", "exit"}
    KeyPages <- TwoPages
    Values = {"v", "w"}
    Utf8 = {"v"}
    MaxWrites = 2
    RedisFaults = {"scan", "restore"}
    MaxDatabases = 3
    Excluded = {2}
    SimpleModel = {1}
    RunFaults = {"list", "upload"}
INVARIANT RunInv
INVARIANT NothingLeft
INVARIANT QuietKeysKept
INVARIANT RestoredAsDumped
PROPERTY ImplementsOutcome
PROPERTY EachHasItsTurn
CHECK_DEADLOCK FALSE
