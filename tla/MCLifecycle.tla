---------------------------- MODULE MCLifecycle ----------------------------
(* Small instances of Lifecycle: another tool with a rule or two, and      *)
(* objects of its own, with and without a tag.                             *)
EXTENDS Lifecycle

RuleFor(id, scope, tagged, days) ==
    [id |-> id, scope |-> scope, tagged |-> tagged, extra |-> FALSE, days |-> days]

Plain == {RuleFor("logs", "other", FALSE, 2)}
PlainTwo == Plain \cup {RuleFor("cache", "other", FALSE, 3)}
Tagged == {RuleFor("tmp", "bucket", TRUE, 1)}
Archived == {[r EXCEPT !.extra = TRUE] : r \in Plain}
NoDays == {RuleFor("archive", "other", FALSE, 0)}

Object(tagged) == [kind |-> "foreign", tagged |-> tagged, made |-> 0]
NoObjects == {}
Data == {Object(FALSE)}
=============================================================================
