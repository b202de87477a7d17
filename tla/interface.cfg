SPECIFICATION Spec
CONSTANTS
    MaxId = 2
    Slot = {s1, s2}
    InitConfigured = {TRUE, FALSE}
    Uses = {{}, {"instances"}, {"backups"}}
SYMMETRY Symmetry
INVARIANT SelectionsInRange
INVARIANT KeptOnS3
PROPERTY AnswersReach
PROPERTY Confirmed
CHECK_DEADLOCK FALSE
