SPECIFICATION Spec
CONSTANTS
    srv = srv
    srv2 = srv2
    Hosts = {srv, srv2}
    Begins <- Distinct
    RetainFor <- Windows
    Prefixed = FALSE
    MaxClock = 2
    MaxVersion = 1
    Faults = {"upload", "list", "delete", "download"}
INVARIANT RecoveryFinds
PROPERTY RecoversNewest
PROPERTY SnapshotKept
PROPERTY PrunesOwnOld
PROPERTY PrunesAll
CHECK_DEADLOCK FALSE
