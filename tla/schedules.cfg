SPECIFICATION FairSpec
CONSTANTS
    main = main
    s1 = s1
    s2 = s2
    Expr <- MCExpr
    FireHours <- MCFireHours
    DefaultConfig <- MCDefaultConfig
    Main = main
    Savers = {s1}
    MaxHours = 2
    MaxCrons = 2
INVARIANT ScheduleInForce
INVARIANT OncePerHour
PROPERTY SavedTakesEffect
PROPERTY NilOnlyInReload
