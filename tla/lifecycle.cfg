SPECIFICATION Spec
CONSTANTS
    OtherRules <- PlainTwo
    Foreign <- Data
    Prefixed = TRUE
    SavedPolicies = {2}
    DaysChosen = {1}
    Goroutines = {"g1", "g2"}
    Interferes = FALSE
    Faults = {"get", "put"}
    MaxRequests = 3
    MaxDay = 2
INVARIANT OthersKept
INVARIANT SelectionInRange
INVARIANT SyncAgrees
PROPERTY ForeignKept
CHECK_DEADLOCK FALSE
