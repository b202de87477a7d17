---------------------------- MODULE MCScheduler ----------------------------
(* Small instances of Scheduler: two valid expressions, one that does not  *)
(* parse, and the defaults of the program.                                 *)
EXTENDS Scheduler

CONSTANTS main, s1, s2

MCExpr == {"midnight", "hourly", "mistyped"}
MCFireHours == [expr \in {"midnight", "hourly"} |-> IF expr = "midnight" THEN {0} ELSE 0..23]
MCDefaultConfig == [full |-> {"midnight"}, log |-> {"hourly"}]
=============================================================================
