SPECIFICATION Spec
CONSTANTS
    sql = sql
    pg = pg
    b1 = b1
    b2 = b2
    s1 = s1
    s2 = s2
    u1 = u1
    Databases = {sql}
    SqlServer = {sql}
    RetainDays = {1}
    MaxRecords = 4
    MaxClock = 2
    Faults = {"crash", "delete"}
    Backups = {b1}
    Sweeps = {s1, s2}
    Users = {}
    UniqueStamps = TRUE
    Serial = FALSE
INVARIANT RetentionInv
INVARIANT NoOrphanLog
PROPERTY GoldenRule
PROPERTY ImplementsPromise
