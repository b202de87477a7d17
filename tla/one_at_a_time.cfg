SPECIFICATION Spec
CONSTANTS
    sql = sql
    pg = pg
    b1 = b1
    b2 = b2
    s1 = s1
    s2 = s2
    u1 = u1
    Databases = {sql, pg}
    SqlServer = {sql}
    RetainDays = {1}
    MaxRecords = 4
    MaxClock = 2
    Faults = {"dump", "close", "list"}
    Backups = {b1}
    Sweeps = {s1}
    Users = {u1}
    UniqueStamps = TRUE
    Serial = TRUE
PROPERTY GoldenRule
