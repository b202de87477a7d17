SPECIFICATION Spec
CONSTANTS
    sql = sql
    sql2 = sql2
    pg = pg
    b1 = b1
    b2 = b2
    r1 = r1
    u1 = u1
    Databases = {sql, sql2, pg}
    SqlServer = {sql, sql2}
    SimpleModel = {}
    Master = {}
    Backups = {b1, b2}
    FullEntries = {b1}
    LogEntries = {b2}
    Restorers = {}
    Users = {}
    Sweeps = {}
    RetainDays = {1}
    UniqueStamps = TRUE
    MaxRecords = 4
    MaxClock = 0
    MaxCommits = 1
    MaxExpired = 0
    MaxRestores = 0
    Faults = {"dump", "upload", "close", "delete", "crash"}
CHECK_DEADLOCK FALSE
INVARIANT OwnData
INVARIANT ChainsJoin
