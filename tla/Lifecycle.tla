------------------------------ MODULE Lifecycle ------------------------------
(***************************************************************************)
(* LifecycleUseCase and the lifecycle tab of the retention view: the rules *)
(* by which S3 itself expires objects.  The configuration of the bucket is *)
(* read and written as a whole, by the program and by other tools, and the *)
(* program does it on a goroutine for each key the user presses.           *)
(*                                                                         *)
(* Only a global policy can be saved from the program, so that a sync      *)
(* writes one rule of its own, backiie-global.  A configuration is a set   *)
(* of rules with different ids: in which order S3 lists them is seen only  *)
(* in the tab.  Of a rule there is whether its filter has more than a      *)
(* prefix (a tag, a size), whether it does more than expire objects        *)
(* (transitions, old versions, unfinished uploads), and the days after     *)
(* which it expires them: 0 when it does not, or does so at a date.        *)
(***************************************************************************)
EXTENDS Naturals, Sequences, FiniteSets

CONSTANTS
    OtherRules,     \* the rules other tools may put on the bucket
    Foreign,        \* the objects of other tools
    Prefixed,       \* the bucket has a PathPrefix
    SavedPolicies,  \* the policies there may be at the start; 0: none
    DaysChosen,     \* what the user may type
    Goroutines,     \* bound: operations under way at once
    Interferes,     \* other tools write between the program's Get and Put
    Faults,         \* the calls that may fail: "get", "put"
    MaxRequests,    \* bound: operations the user asks for
    MaxDay          \* bound: days that pass

GlobalId == "backiie-global"

Scope == {"bucket", "backups", "other"}
Rule(ids) == [id : ids, scope : Scope, tagged : BOOLEAN, extra : BOOLEAN, days : Nat]

ASSUME LifecycleAssumption ==
    /\ OtherRules \subseteq Rule({r.id : r \in OtherRules} \ {GlobalId})
    /\ IsFiniteSet({r.id : r \in OtherRules})
    /\ \A o \in Foreign : o.kind = "foreign" /\ o.tagged \in BOOLEAN /\ o.made = 0
    /\ Prefixed \in BOOLEAN /\ Interferes \in BOOLEAN
    /\ SavedPolicies \subseteq Nat /\ DaysChosen \subseteq Nat \ {0}
    /\ MaxRequests \in Nat /\ MaxDay \in Nat

VARIABLES
    bucket,         \* the lifecycle configuration
    owned,          \* history: the rules of other tools, as these wrote them
    policy,         \* days of the global policy; 0: none
    ops,            \* what each goroutine is doing
    view,           \* the list of the tab
    requests,
    synced,         \* history: the last thing asked for was a sync, with nothing
                    \* else under way, and it worked
    day,
    objects

vars == <<bucket, owned, policy, ops, view, requests, synced, day, objects>>

Ids == {GlobalId} \cup {r.id : r \in OtherRules}

Op == [kind : {"none", "sync", "delete", "load", "save"},
       pc : {"start", "policies", "put", "answer"},
       rules : SUBSET Rule(Ids), id : Ids, days : Nat, error : BOOLEAN]

NoOp == [kind |-> "none", pc |-> "start", rules |-> {}, id |-> GlobalId,
         days |-> 0, error |-> FALSE]

Full(d) == [kind |-> "full", tagged |-> FALSE, made |-> d]
Fulls == {o \in objects : o.kind = "full"}

Init ==
    /\ bucket = {}
    /\ owned = {}
    /\ policy \in SavedPolicies
    /\ ops = [g \in Goroutines |-> NoOp]
    /\ view = [list |-> <<>>, selected |-> 1, confirm |-> FALSE]
    /\ requests = 0
    /\ synced = FALSE
    /\ day = 0
    /\ objects = Foreign \cup {Full(0)}

TypeOK ==
    /\ bucket \subseteq Rule(Ids)
    /\ \A r, s \in bucket : r.id = s.id => r = s
    /\ owned \subseteq OtherRules
    /\ policy \in SavedPolicies \cup DaysChosen
    /\ ops \in [Goroutines -> Op]
    /\ view \in [list : Seq(Ids), selected : Nat \ {0}, confirm : BOOLEAN]
    /\ requests \in 0..MaxRequests
    /\ synced \in BOOLEAN
    /\ day \in 0..MaxDay
    /\ objects \subseteq Foreign \cup {Full(d) : d \in 0..MaxDay}

-----------------------------------------------------------------------------
(* The storage adapter.  Of a rule it knows the prefix and the days: what  *)
(* else the rule does is left out, and one with a tag, or a size, in its   *)
(* filter is listed without a prefix.                                      *)
Listed(r) ==
    [r EXCEPT !.tagged = FALSE, !.extra = FALSE,
              !.scope = IF r.tagged THEN "bucket" ELSE @]

GetLifecycleRules == {Listed(r) : r \in bucket}

(* S3 refuses an expiration after no days. *)
Refused(rules) == \E r \in rules : r.days = 0

Answer(g, failed) ==
    ops' = [ops EXCEPT ![g].pc = "answer", ![g].rules = {}, ![g].days = 0,
                       ![g].error = failed]

(* A call that fails may have been carried out. *)
PutLifecycleRules(g, rules) ==
    \/ ~Refused(rules) /\ bucket' = rules /\ Answer(g, FALSE)
    \/ Refused(rules) /\ UNCHANGED bucket /\ Answer(g, TRUE)
    \/ "put" \in Faults /\ ~Refused(rules) /\ bucket' \in {bucket, rules} /\ Answer(g, TRUE)

GetFails(g) ==
    /\ "get" \in Faults
    /\ ops[g].pc = "start"
    /\ ops[g].kind \in {"sync", "delete", "load"}
    /\ Answer(g, TRUE)
    /\ synced' = (synced /\ ops[g].kind # "sync")
    /\ UNCHANGED <<bucket, owned, policy, view, requests, day, objects>>

-----------------------------------------------------------------------------
(* The keys. *)
Start(g, op) ==
    /\ ops[g].kind = "none"
    /\ requests < MaxRequests
    /\ requests' = requests + 1
    /\ ops' = [ops EXCEPT ![g] = op]
    /\ UNCHANGED <<bucket, owned, policy, day, objects>>

Calm == \A g \in Goroutines : ops[g].kind \in {"none", "load"}

KeySync(g) ==
    /\ ~view.confirm
    /\ Start(g, [NoOp EXCEPT !.kind = "sync"])
    /\ synced' = Calm
    /\ UNCHANGED view

KeyReload(g) ==
    /\ ~view.confirm
    /\ Start(g, [NoOp EXCEPT !.kind = "load"])
    /\ UNCHANGED <<view, synced>>

(* Enter in the form of the policy. *)
KeySave(g) ==
    /\ \E d \in DaysChosen : Start(g, [NoOp EXCEPT !.kind = "save", !.days = d])
    /\ synced' = FALSE
    /\ UNCHANGED view

(* The confirmation stays until the answer: it can be given twice. *)
KeyConfirm(g) ==
    /\ view.confirm
    /\ view.list # <<>>
    /\ Start(g, [NoOp EXCEPT !.kind = "delete", !.id = view.list[view.selected]])
    /\ synced' = FALSE
    /\ UNCHANGED view

KeyDelete ==
    /\ ~view.confirm
    /\ view.list # <<>>
    /\ view' = [view EXCEPT !.confirm = TRUE]

KeyCancel ==
    /\ view.confirm
    /\ view' = [view EXCEPT !.confirm = FALSE]

KeyMove ==
    /\ ~view.confirm
    /\ \/ view.selected > 1 /\ view' = [view EXCEPT !.selected = @ - 1]
       \/ view.selected < Len(view.list) /\ view' = [view EXCEPT !.selected = @ + 1]

Key ==
    \/ \E g \in Goroutines : KeySync(g) \/ KeyReload(g) \/ KeySave(g) \/ KeyConfirm(g)
    \/ /\ KeyDelete \/ KeyCancel \/ KeyMove
       /\ UNCHANGED <<bucket, owned, policy, ops, requests, synced, day, objects>>

-----------------------------------------------------------------------------
(* SyncWithRetention: the rules of others, the policy, and both together.  *)
Managed(r) == r.id = GlobalId

(* Mistaken variant: starts from an empty configuration. *)
SyncReadsNothing(g) ==
    /\ ops[g].kind = "sync" /\ ops[g].pc = "start"
    /\ ops' = [ops EXCEPT ![g].pc = "policies"]
    /\ UNCHANGED <<bucket, owned, policy, view, requests, synced, day, objects>>

SyncReads(g) ==
    /\ ops[g].kind = "sync" /\ ops[g].pc = "start"
    /\ ops' = [ops EXCEPT ![g].pc = "policies", ![g].rules =
                  {r \in GetLifecycleRules : ~Managed(r)}]
    /\ UNCHANGED <<bucket, owned, policy, view, requests, synced, day, objects>>

(* DefaultRetentionPolicy; the mistaken variant always has it. *)
DefaultDays == 3
SyncDaysDefault == DefaultDays
SyncDays == IF policy = 0 THEN DefaultDays ELSE policy

SyncPolicies(g) ==
    /\ ops[g].kind = "sync" /\ ops[g].pc = "policies"
    /\ ops' = [ops EXCEPT ![g].pc = "put", ![g].days = SyncDays]
    /\ UNCHANGED <<bucket, owned, policy, view, requests, synced, day, objects>>

(* Mistaken variant: the rule has no prefix. *)
WholeBucketRule(days) ==
    [id |-> GlobalId, scope |-> "bucket", tagged |-> FALSE, extra |-> FALSE, days |-> days]

GlobalRule(days) ==
    [id |-> GlobalId, scope |-> IF Prefixed THEN "backups" ELSE "bucket",
     tagged |-> FALSE, extra |-> FALSE, days |-> days]

SyncPuts(g) ==
    /\ ops[g].kind = "sync" /\ ops[g].pc = "put"
    /\ PutLifecycleRules(g, ops[g].rules \cup {GlobalRule(ops[g].days)})
    /\ synced' = (synced /\ ~ops'[g].error)
    /\ UNCHANGED <<owned, policy, view, requests, day, objects>>

(* DeleteRule. *)
DeleteReads(g) ==
    /\ ops[g].kind = "delete" /\ ops[g].pc = "start"
    /\ ops' = [ops EXCEPT ![g].pc = "put", ![g].rules =
                  {r \in GetLifecycleRules : r.id # ops[g].id}]
    /\ UNCHANGED <<bucket, owned, policy, view, requests, synced, day, objects>>

DeletePuts(g) ==
    /\ ops[g].kind = "delete" /\ ops[g].pc = "put"
    /\ PutLifecycleRules(g, ops[g].rules)
    /\ owned' = {r \in owned : r.id # ops[g].id \/ bucket' = bucket}
    /\ UNCHANGED <<policy, view, requests, synced, day, objects>>

(* GetRules, and Save of RetentionUseCase. *)
LoadReads(g) ==
    /\ ops[g].kind = "load" /\ ops[g].pc = "start"
    /\ ops' = [ops EXCEPT ![g].pc = "answer", ![g].rules = GetLifecycleRules]
    /\ UNCHANGED <<bucket, owned, policy, view, requests, synced, day, objects>>

Saves(g) ==
    /\ ops[g].kind = "save" /\ ops[g].pc = "start"
    /\ policy' = ops[g].days
    /\ Answer(g, FALSE)
    /\ UNCHANGED <<bucket, owned, view, requests, synced, day, objects>>

-----------------------------------------------------------------------------
(* The answers.  After a sync or a deletion the rules are loaded again.    *)
Load == [NoOp EXCEPT !.kind = "load"]

(* Mistaken variant: the selection stays where it was. *)
Keep(selected, list) == selected

Clamp(selected, list) ==
    IF list # <<>> /\ selected > Len(list) THEN Len(list) ELSE selected

AnswerSynced(g) ==
    /\ ops[g].kind = "sync"
    /\ ops' = [ops EXCEPT ![g] = Load]
    /\ UNCHANGED view

AnswerDeleted(g) ==
    /\ ops[g].kind = "delete"
    /\ ops' = [ops EXCEPT ![g] = Load]
    /\ view' = [view EXCEPT !.confirm = FALSE]

(* The ids in the order in which S3 listed them, whichever that is. *)
Lists(ids) ==
    {list \in [1..Cardinality(ids) -> ids] : \A id \in ids : \E i \in DOMAIN list : list[i] = id}

AnswerLoaded(g) ==
    /\ ops[g].kind = "load"
    /\ ops' = [ops EXCEPT ![g] = NoOp]
    /\ \/ ops[g].error /\ UNCHANGED view
       \/ /\ ~ops[g].error
          /\ \E list \in Lists({r.id : r \in ops[g].rules}) :
                view' = [view EXCEPT !.list = list, !.selected = Clamp(@, list)]

AnswerSaved(g) ==
    /\ ops[g].kind = "save"
    /\ ops' = [ops EXCEPT ![g] = NoOp]
    /\ UNCHANGED view

(* An answer goes to the view of the active tab; any other drops it. *)
AnswerDropped(g) ==
    /\ ops' = [ops EXCEPT ![g] = NoOp]
    /\ UNCHANGED view

Answered(g) ==
    /\ ops[g].pc = "answer"
    /\ \/ AnswerSynced(g)
       \/ AnswerDeleted(g)
       \/ AnswerLoaded(g)
       \/ AnswerSaved(g)
       \/ AnswerDropped(g)
    /\ UNCHANGED <<bucket, owned, policy, requests, synced, day, objects>>

-----------------------------------------------------------------------------
(* The other tools, which know how to write a rule of theirs and leave the *)
(* rest; a full backup a day; and S3.                                      *)
OtherPuts ==
    /\ Interferes \/ \A g \in Goroutines : ops[g].pc \notin {"policies", "put"}
    /\ \E r \in OtherRules \ owned :
          /\ bucket' = {b \in bucket : b.id # r.id} \cup {r}
          /\ owned' = {o \in owned : o.id # r.id} \cup {r}
    /\ UNCHANGED <<policy, ops, view, requests, synced, day, objects>>

NextDay ==
    /\ day < MaxDay
    /\ day' = day + 1
    /\ objects' = objects \cup {Full(day + 1)}
    /\ UNCHANGED <<bucket, owned, policy, ops, view, requests, synced>>

ScopeOf(o) == IF o.kind = "full" THEN "backups" ELSE "other"

Expires(r, o) ==
    /\ r.scope \in {"bucket", ScopeOf(o)}
    /\ r.tagged => o.tagged
    /\ r.days > 0 /\ day >= o.made + r.days

S3Expires ==
    /\ \E o \in objects, r \in bucket : Expires(r, o) /\ objects' = objects \ {o}
    /\ UNCHANGED <<bucket, owned, policy, ops, view, requests, synced, day>>

Next ==
    \/ Key
    \/ \E g \in Goroutines :
          \/ GetFails(g)
          \/ SyncReads(g) \/ SyncPolicies(g) \/ SyncPuts(g)
          \/ DeleteReads(g) \/ DeletePuts(g)
          \/ LoadReads(g)
          \/ Saves(g)
          \/ Answered(g)
    \/ OtherPuts
    \/ NextDay
    \/ S3Expires

Spec == Init /\ [][Next]_vars

-----------------------------------------------------------------------------
(* "Rules belonging to other tools are preserved": whatever the user does, *)
(* a rule of another tool that was not deleted is what its owner wrote.    *)
(* It is so of rules that have a prefix and days, and no more.             *)
OthersKept == owned \subseteq bucket

(* The index that d and the confirmation use is one of the list. *)
SelectionInRange == view.list # <<>> => view.selected \in DOMAIN view.list

(* The days a record gets in runForInstance. *)
AppDays == IF policy = 0 THEN 7 ELSE policy

(* "la sincronización los pone iguales": when a sync that was asked for    *)
(* while nothing else was under way was the last thing the user asked for, *)
(* it worked and all is answered, S3 expires by the days of the policy.    *)
SyncAgrees ==
    synced /\ Calm => GlobalRule(AppDays) \in bucket

(* S3 expires an object of another tool only by a rule of such a tool, as  *)
(* this one wrote it.                                                      *)
ForeignKeptStep ==
    \A o \in Foreign \cap (objects \ objects') : \E r \in OtherRules : Expires(r, o)

ForeignKept == [][ForeignKeptStep]_vars

(* A sync without a failing call is accepted. *)
SyncWorksStep == \A g \in Goroutines : SyncPuts(g) => ~ops'[g].error

SyncWorks == [][SyncWorksStep]_vars

(* "nunca se borra un Full si eso deja menos de 2". *)
FullsExpireStep == Fulls \ objects' # {} => Cardinality(Fulls') >= 2

FullsExpire == [][FullsExpireStep]_vars

(* What makes the above inductive, each part under what it needs.  First   *)
(* the types, and what an operation carries between its calls.             *)
OpKnown(g) ==
    /\ \A r, s \in ops[g].rules : r.id = s.id => r = s
    /\ ops[g].kind = "sync" => \A r \in ops[g].rules : ~Managed(r)
    /\ ops[g].kind = "save" /\ ops[g].pc = "start" => ops[g].days \in DaysChosen

ConfigInv == TypeOK /\ SelectionInRange /\ \A g \in Goroutines : OpKnown(g)

(* With simple rules and no interference: what is about to be written has  *)
(* the rules of other tools, but for the one to be deleted.                *)
Carries(g) ==
    /\ ops[g].kind = "sync" /\ ops[g].pc \in {"policies", "put"} => owned \subseteq ops[g].rules
    /\ ops[g].kind = "delete" /\ ops[g].pc = "put" =>
          {r \in owned : r.id # ops[g].id} \subseteq ops[g].rules

OwnedInv == OthersKept /\ \A g \in Goroutines : Carries(g)

(* With simple rules: none is written that neither another tool nor a sync *)
(* made.                                                                   *)
Known(r) == r \in OtherRules \/ r = GlobalRule(r.days)

KnownInv ==
    /\ \A r \in bucket : Known(r)
    /\ \A g \in Goroutines : \A r \in ops[g].rules : Known(r)

(* Once a policy has been saved: the sync that counts is alone, and writes *)
(* the days of the policy, which nobody changes meanwhile.                 *)
SyncKnown(g) ==
    /\ ops[g].kind \in {"none", "load", "sync"}
    /\ ops[g].kind = "sync" =>
          /\ \A h \in Goroutines \ {g} : ops[h].kind # "sync"
          /\ ops[g].pc = "put" => ops[g].days = SyncDays
          /\ ops[g].pc = "answer" => GlobalRule(SyncDays) \in bucket

SyncInv ==
    synced => /\ \A g \in Goroutines : SyncKnown(g)
              /\ Calm => GlobalRule(SyncDays) \in bucket
=============================================================================
