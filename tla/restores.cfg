SPECIFICATION Spec
CONSTANTS
    sql = sql
    sql2 = sql2
    pg = pg
    b1 = b1
    b2 = b2
    r1 = r1
    u1 = u1
    Databases = {sql}
    SqlServer = {sql}
    SimpleModel = {}
    Master = {}
    Backups = {b1}
    FullEntries = {b1}
    LogEntries = {b1}
    Restorers = {r1}
    Users = {u1}
    Sweeps = {}
    RetainDays = {1}
    UniqueStamps = TRUE
    MaxRecords = 3
    MaxClock = 0
    MaxCommits = 1
    MaxExpired = 1
    MaxRestores = 1
    Faults = {"restore", "download", "upload"}
CHECK_DEADLOCK FALSE
INVARIANT RestoringHasReason
INVARIANT RunningIsAttended
PROPERTY RestoredAsRecorded
