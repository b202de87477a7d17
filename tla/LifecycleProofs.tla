-------------------------- MODULE LifecycleProofs ---------------------------
(***************************************************************************)
(* Proofs about Lifecycle, for any rules and objects of other tools, any   *)
(* number of operations under way and any choice of failing calls.         *)
(***************************************************************************)
EXTENDS Lifecycle, FiniteSetTheorems, TLAPS

(* What another tool wrote can be written back as it was read: of a rule   *)
(* the adapter knows the prefix and the days, and no more.                 *)
Simple == \A r \in OtherRules : ~r.tagged /\ ~r.extra

-----------------------------------------------------------------------------
LEMMA IdsFacts ==
    /\ GlobalId \in Ids
    /\ \A ids \in SUBSET Ids : IsFiniteSet(ids)
    /\ \A r \in OtherRules : r \in Rule(Ids) /\ r.id # GlobalId
<1>1. IsFiniteSet(Ids)
  <2>1. Ids = {r.id : r \in OtherRules} \cup {GlobalId}
    BY DEF Ids
  <2>2. QED
    BY <2>1, FS_AddElement, LifecycleAssumption
<1>2. \A r \in OtherRules : r \in Rule(Ids) /\ r.id # GlobalId
  BY LifecycleAssumption DEF Rule, Ids
<1>3. QED
  BY <1>1, <1>2, FS_Subset DEF Ids

LEMMA GlobalRuleFacts ==
    ASSUME NEW d \in Nat
    PROVE  /\ GlobalRule(d) \in Rule(Ids) /\ GlobalRule(d).id = GlobalId
           /\ GlobalRule(d).days = d /\ Listed(GlobalRule(d)) = GlobalRule(d)
<1>1. GlobalRule(d).id = GlobalId /\ GlobalRule(d).days = d
      /\ ~GlobalRule(d).tagged /\ ~GlobalRule(d).extra
  BY DEF GlobalRule
<1>2. GlobalRule(d) \in Rule(Ids)
  BY IdsFacts DEF GlobalRule, Rule, Scope
<1>3. Listed(GlobalRule(d)) = GlobalRule(d)
  BY ONLY <1>1, <1>2 DEF Listed, Rule
<1>4. QED
  BY <1>1, <1>2, <1>3

LEMMA ListedFacts ==
    ASSUME NEW r \in Rule(Ids)
    PROVE  /\ Listed(r) \in Rule(Ids) /\ Listed(r).id = r.id
           /\ ~r.tagged /\ ~r.extra => Listed(r) = r
BY DEF Listed, Rule, Scope

(* What is read has the ids of the configuration, each once.               *)
LEMMA GetFacts ==
    ASSUME TypeOK
    PROVE  /\ GetLifecycleRules \subseteq Rule(Ids)
           /\ \A r, s \in GetLifecycleRules : r.id = s.id => r = s
<1>1. \A r \in bucket : Listed(r) \in Rule(Ids) /\ Listed(r).id = r.id
  BY ListedFacts DEF TypeOK
<1>2. QED
  BY <1>1 DEF GetLifecycleRules, TypeOK

(* The list of the tab: as many entries as there are rules, each an id.    *)
LEMMA ListsFacts ==
    ASSUME NEW ids \in SUBSET Ids, NEW list \in Lists(ids)
    PROVE  list \in Seq(Ids) /\ Len(list) \in Nat /\ DOMAIN list = 1..Len(list)
<1>1. Cardinality(ids) \in Nat
  BY IdsFacts, FS_CardinalityType
<1>2. list \in [1..Cardinality(ids) -> ids]
  BY DEF Lists
<1>3. list \in Seq(Ids)
  BY <1>1, <1>2
<1>4. QED
  BY <1>3

LEMMA PolicyFacts ==
    ASSUME TypeOK
    PROVE  policy \in Nat /\ SyncDays \in Nat
BY LifecycleAssumption DEF TypeOK, SyncDays, DefaultDays

-----------------------------------------------------------------------------
(* Types, and what an operation carries.                                   *)
OpFacts(op) ==
    /\ op \in Op
    /\ \A r, s \in op.rules : r.id = s.id => r = s
    /\ op.kind = "sync" => \A r \in op.rules : ~Managed(r)
    /\ op.kind = "save" /\ op.pc = "start" => op.days \in DaysChosen

LEMMA ConfigInvFacts ==
    ASSUME ConfigInv
    PROVE  \A g \in Goroutines : OpFacts(ops[g])
BY DEF ConfigInv, TypeOK, OpKnown, OpFacts

(* A step that gives one operation another record, and leaves the tab.     *)
LEMMA OpSteps ==
    ASSUME ConfigInv, NEW g \in Goroutines, NEW op, OpFacts(op),
           ops' = [ops EXCEPT ![g] = op],
           bucket' \subseteq Rule(Ids), \A r, s \in bucket' : r.id = s.id => r = s,
           owned' \subseteq OtherRules, policy' \in SavedPolicies \cup DaysChosen,
           requests' \in 0..MaxRequests, synced' \in BOOLEAN, UNCHANGED <<view, day, objects>>
    PROVE  ConfigInv'
<1>1. ops' \in [Goroutines -> Op]
  BY DEF ConfigInv, TypeOK, OpFacts
<1>2. \A h \in Goroutines : OpKnown(h)'
  BY DEF ConfigInv, TypeOK, OpKnown, OpFacts
<1>3. TypeOK'
  BY <1>1 DEF ConfigInv, TypeOK
<1>4. QED
  BY <1>2, <1>3 DEF ConfigInv, SelectionInRange

(* The same, of a call that answers.                                       *)
AnsweredOp(op, failed) ==
    [op EXCEPT !.pc = "answer", !.rules = {}, !.days = 0, !.error = failed]

LEMMA AnswerFacts ==
    ASSUME ConfigInv, NEW g \in Goroutines, NEW failed \in BOOLEAN, Answer(g, failed)
    PROVE  /\ ops' = [ops EXCEPT ![g] = AnsweredOp(ops[g], failed)]
           /\ OpFacts(AnsweredOp(ops[g], failed))
           /\ ops'[g] = AnsweredOp(ops[g], failed)
<1>1. ops \in [Goroutines -> Op] /\ ops[g] \in Op
  BY DEF ConfigInv, TypeOK
<1>2. ops' = [ops EXCEPT ![g] = AnsweredOp(ops[g], failed)]
  BY ONLY <1>1, Answer(g, failed) DEF Answer, AnsweredOp
<1>3. OpFacts(AnsweredOp(ops[g], failed))
  BY <1>1 DEF AnsweredOp, OpFacts, Op
<1>4. QED
  BY <1>1, <1>2, <1>3

LEMMA PutFacts ==
    ASSUME NEW g, NEW rules, PutLifecycleRules(g, rules)
    PROVE  /\ bucket' \in {bucket, rules}
           /\ Answer(g, TRUE) \/ (Answer(g, FALSE) /\ bucket' = rules)
BY DEF PutLifecycleRules

LEMMA PutOps ==
    ASSUME ConfigInv, NEW g \in Goroutines, NEW rules, PutLifecycleRules(g, rules)
    PROVE  /\ \E failed \in BOOLEAN : /\ ops' = [ops EXCEPT ![g] = AnsweredOp(ops[g], failed)]
                                     /\ OpFacts(AnsweredOp(ops[g], failed))
           /\ ~ops'[g].error => /\ ops' = [ops EXCEPT ![g] = AnsweredOp(ops[g], FALSE)]
                                /\ bucket' = rules
<1>1. CASE Answer(g, TRUE)
  <2>1. /\ ops' = [ops EXCEPT ![g] = AnsweredOp(ops[g], TRUE)]
        /\ OpFacts(AnsweredOp(ops[g], TRUE)) /\ ops'[g] = AnsweredOp(ops[g], TRUE)
    BY <1>1, AnswerFacts
  <2>2. AnsweredOp(ops[g], TRUE).error
    BY DEF AnsweredOp, ConfigInv, TypeOK, Op
  <2>3. QED
    BY <2>1, <2>2
<1>2. CASE Answer(g, FALSE) /\ bucket' = rules
  BY <1>2, AnswerFacts
<1>3. QED
  BY <1>1, <1>2, PutFacts

LEMMA InitConfig == Init => ConfigInv
<1> SUFFICES ASSUME Init PROVE ConfigInv
  OBVIOUS
<1>1. NoOp \in Op
  BY IdsFacts DEF NoOp, Op
<1>2. view \in [list : Seq(Ids), selected : Nat \ {0}, confirm : BOOLEAN]
  BY DEF Init
<1>3. objects \subseteq Foreign \cup {Full(d) : d \in 0..MaxDay}
  BY LifecycleAssumption DEF Init
<1>4. TypeOK
  <2>1. ops \in [Goroutines -> Op]
    BY <1>1 DEF Init
  <2>2. 0 \in 0..MaxRequests /\ 0 \in 0..MaxDay
    BY LifecycleAssumption
  <2>3. /\ bucket \subseteq Rule(Ids) /\ \A r, s \in bucket : r.id = s.id => r = s
        /\ owned \subseteq OtherRules /\ policy \in SavedPolicies \cup DaysChosen
        /\ requests \in 0..MaxRequests /\ synced \in BOOLEAN /\ day \in 0..MaxDay
    BY <2>2 DEF Init
  <2>4. QED
    BY <1>2, <1>3, <2>1, <2>3 DEF TypeOK
<1>5. \A g \in Goroutines : OpKnown(g)
  BY DEF Init, OpKnown, NoOp
<1>6. QED
  BY <1>4, <1>5 DEF Init, ConfigInv, SelectionInRange

LEMMA StartFacts ==
    ASSUME ConfigInv, NEW g \in Goroutines, NEW op, OpFacts(op), Start(g, op),
           UNCHANGED view, synced' \in BOOLEAN
    PROVE  ConfigInv'
<1>1. requests' \in 0..MaxRequests
  BY LifecycleAssumption DEF Start, ConfigInv, TypeOK
<1>2. QED
  BY <1>1, OpSteps DEF Start, ConfigInv, TypeOK

LEMMA NewOps ==
    /\ OpFacts(NoOp) /\ OpFacts(Load) /\ OpFacts([NoOp EXCEPT !.kind = "sync"])
    /\ \A d \in DaysChosen : OpFacts([NoOp EXCEPT !.kind = "save", !.days = d])
    /\ \A id \in Ids : OpFacts([NoOp EXCEPT !.kind = "delete", !.id = id])
<1>1. GlobalId \in Ids /\ 0 \in Nat /\ {} \in SUBSET Rule(Ids)
  BY IdsFacts
<1>2. NoOp \in Op
  BY <1>1 DEF NoOp, Op
<1>3. NoOp.kind = "none" /\ NoOp.rules = {}
  BY DEF NoOp
<1> HIDE DEF NoOp
<1>4. OpFacts(NoOp)
  BY <1>2, <1>3 DEF OpFacts
<1>5. OpFacts(Load)
  BY <1>2, <1>3 DEF OpFacts, Load, Op
<1>6. OpFacts([NoOp EXCEPT !.kind = "sync"])
  BY <1>2, <1>3 DEF OpFacts, Op
<1>7. ASSUME NEW d \in DaysChosen PROVE OpFacts([NoOp EXCEPT !.kind = "save", !.days = d])
  <2>1. d \in Nat
    BY LifecycleAssumption
  <2>2. QED
    BY <2>1, <1>2, <1>3 DEF OpFacts, Op
<1>8. ASSUME NEW id \in Ids PROVE OpFacts([NoOp EXCEPT !.kind = "delete", !.id = id])
  BY <1>2, <1>3 DEF OpFacts, Op
<1>9. QED
  BY <1>4, <1>5, <1>6, <1>7, <1>8

(* The id under the selection, which is in the list. *)
LEMMA SelectedFacts ==
    ASSUME ConfigInv, view.list # <<>>
    PROVE  view.list[view.selected] \in Ids
BY DEF ConfigInv, TypeOK, SelectionInRange

LEMMA KeyConfig ==
    ASSUME ConfigInv, Key
    PROVE  ConfigInv'
<1>1. CASE /\ KeyDelete \/ KeyCancel \/ KeyMove
           /\ UNCHANGED <<bucket, owned, policy, ops, requests, synced, day, objects>>
  <2>1. view' \in [list : Seq(Ids), selected : Nat \ {0}, confirm : BOOLEAN]
    <3>1. /\ view.selected \in Nat \ {0} /\ Len(view.list) \in Nat
          /\ view \in [list : Seq(Ids), selected : Nat \ {0}, confirm : BOOLEAN]
      BY DEF ConfigInv, TypeOK
    <3>2. CASE KeyDelete \/ KeyCancel
      BY <3>1, <3>2 DEF KeyDelete, KeyCancel
    <3>3. CASE KeyMove
      <4>1. PICK n \in Nat \ {0} : view' = [view EXCEPT !.selected = n]
        BY <3>1, <3>3 DEF KeyMove
      <4>2. QED
        BY <3>1, <4>1
    <3>4. QED
      BY <1>1, <3>2, <3>3
  <2>2. SelectionInRange'
    BY <1>1 DEF ConfigInv, TypeOK, SelectionInRange, KeyDelete, KeyCancel, KeyMove
  <2>3. QED
    BY <1>1, <2>1, <2>2 DEF ConfigInv, TypeOK, OpKnown
<1>2. ASSUME NEW g \in Goroutines, KeySync(g) \/ KeyReload(g)
      PROVE  ConfigInv'
  <2>1. Calm \in BOOLEAN /\ synced \in BOOLEAN
    BY DEF Calm, ConfigInv, TypeOK
  <2>2. QED
    BY <1>2, <2>1, NewOps, StartFacts DEF KeySync, KeyReload, Load
<1>3. ASSUME NEW g \in Goroutines, KeySave(g) \/ KeyConfirm(g)
      PROVE  ConfigInv'
  BY <1>3, NewOps, StartFacts, SelectedFacts DEF KeySave, KeyConfirm
<1>4. QED
  BY <1>1, <1>2, <1>3 DEF Key

LEMMA GetFailsConfig ==
    ASSUME ConfigInv, NEW g \in Goroutines, GetFails(g)
    PROVE  ConfigInv'
<1>1. synced' \in BOOLEAN
  BY DEF GetFails, ConfigInv, TypeOK
<1>2. Answer(g, TRUE) /\ UNCHANGED <<bucket, owned, policy, view, requests, day, objects>>
  BY DEF GetFails
<1>3. /\ ops' = [ops EXCEPT ![g] = AnsweredOp(ops[g], TRUE)]
      /\ OpFacts(AnsweredOp(ops[g], TRUE))
  BY <1>2, AnswerFacts
<1>4. TypeOK
  BY DEF ConfigInv
<1>5. QED
  BY <1>1, <1>2, <1>3, <1>4, OpSteps DEF TypeOK

LEMMA SavesConfig ==
    ASSUME ConfigInv, NEW g \in Goroutines, Saves(g)
    PROVE  ConfigInv'
<1>1. policy' \in DaysChosen
  BY DEF Saves, ConfigInv, OpKnown
<1>2. /\ Answer(g, FALSE)
      /\ UNCHANGED <<bucket, owned, view, requests, synced, day, objects>>
  BY DEF Saves
<1>3. /\ ops' = [ops EXCEPT ![g] = AnsweredOp(ops[g], FALSE)]
      /\ OpFacts(AnsweredOp(ops[g], FALSE))
  BY <1>2, AnswerFacts
<1>4. TypeOK
  BY DEF ConfigInv
<1>5. QED
  BY <1>1, <1>2, <1>3, <1>4, OpSteps DEF TypeOK

LEMMA SyncReadsConfig ==
    ASSUME ConfigInv, NEW g \in Goroutines, SyncReads(g)
    PROVE  ConfigInv'
<1> DEFINE rules == {r \in GetLifecycleRules : ~Managed(r)}
           op == [ops[g] EXCEPT !.pc = "policies", !.rules = rules]
<1>1. TypeOK /\ ops \in [Goroutines -> Op] /\ ops[g] \in Op /\ ops[g].kind = "sync"
  BY DEF ConfigInv, TypeOK, SyncReads
<1>2. /\ rules \in SUBSET Rule(Ids) /\ \A r \in rules : ~Managed(r)
      /\ \A r, s \in rules : r.id = s.id => r = s
  BY <1>1, GetFacts
<1>3. ops' = [ops EXCEPT ![g] = op]
  BY <1>1 DEF SyncReads
<1> HIDE DEF rules
<1>4. OpFacts(op)
  BY <1>1, <1>2 DEF OpFacts, Op
<1> HIDE DEF op
<1>5. UNCHANGED <<bucket, owned, policy, view, requests, synced, day, objects>>
  BY DEF SyncReads
<1>6. QED
  BY <1>1, <1>3, <1>4, <1>5, OpSteps DEF TypeOK

LEMMA SyncPoliciesConfig ==
    ASSUME ConfigInv, NEW g \in Goroutines, SyncPolicies(g)
    PROVE  ConfigInv'
<1> DEFINE op == [ops[g] EXCEPT !.pc = "put", !.days = SyncDays]
<1>1. TypeOK /\ ops[g] \in Op /\ ops[g].kind = "sync" /\ OpFacts(ops[g])
  BY ConfigInvFacts DEF ConfigInv, TypeOK, SyncPolicies
<1>2. ops' = [ops EXCEPT ![g] = op]
  BY <1>1 DEF SyncPolicies, TypeOK
<1>3. OpFacts(op)
  BY <1>1, PolicyFacts DEF OpFacts, Op
<1> HIDE DEF op
<1>4. UNCHANGED <<bucket, owned, policy, view, requests, synced, day, objects>>
  BY DEF SyncPolicies
<1>5. QED
  BY <1>1, <1>2, <1>3, <1>4, OpSteps DEF TypeOK

(* What a sync puts has the ids of what it read, and its own. *)
LEMMA SyncPutsConfig ==
    ASSUME ConfigInv, NEW g \in Goroutines, SyncPuts(g)
    PROVE  ConfigInv'
<1> DEFINE rules == ops[g].rules \cup {GlobalRule(ops[g].days)}
<1>1. TypeOK /\ ops[g] \in Op /\ OpFacts(ops[g]) /\ ops[g].kind = "sync"
  BY ConfigInvFacts DEF ConfigInv, TypeOK, SyncPuts
<1>2. ops[g].days \in Nat /\ ops[g].rules \subseteq Rule(Ids)
  BY <1>1 DEF Op
<1>3. rules \subseteq Rule(Ids) /\ \A r, s \in rules : r.id = s.id => r = s
  BY <1>1, <1>2, GlobalRuleFacts DEF OpFacts, Managed
<1>4. PutLifecycleRules(g, rules)
  BY DEF SyncPuts
<1>5. UNCHANGED <<owned, policy, view, requests, day, objects>>
  BY DEF SyncPuts
<1> HIDE DEF rules
<1>6. bucket' \subseteq Rule(Ids) /\ \A r, s \in bucket' : r.id = s.id => r = s
  <2>1. bucket' = bucket \/ bucket' = rules
    BY <1>4, PutFacts
  <2>2. bucket \subseteq Rule(Ids) /\ \A r, s \in bucket : r.id = s.id => r = s
    BY <1>1 DEF TypeOK
  <2>3. QED
    BY <1>3, <2>1, <2>2
<1>7. PICK failed \in BOOLEAN :
          /\ ops' = [ops EXCEPT ![g] = AnsweredOp(ops[g], failed)]
          /\ OpFacts(AnsweredOp(ops[g], failed))
  BY <1>4, PutOps
<1>8. synced' \in BOOLEAN
  BY DEF SyncPuts
<1>9. QED
  BY <1>1, <1>5, <1>6, <1>7, <1>8, OpSteps DEF TypeOK

LEMMA DeleteReadsConfig ==
    ASSUME ConfigInv, NEW g \in Goroutines, DeleteReads(g)
    PROVE  ConfigInv'
<1> DEFINE rules == {r \in GetLifecycleRules : r.id # ops[g].id}
           op == [ops[g] EXCEPT !.pc = "put", !.rules = rules]
<1>1. TypeOK /\ ops \in [Goroutines -> Op] /\ ops[g] \in Op /\ ops[g].kind = "delete"
  BY DEF ConfigInv, TypeOK, DeleteReads
<1>2. rules \in SUBSET Rule(Ids) /\ \A r, s \in rules : r.id = s.id => r = s
  BY <1>1, GetFacts
<1>3. ops' = [ops EXCEPT ![g] = op]
  BY <1>1 DEF DeleteReads
<1> HIDE DEF rules
<1>4. OpFacts(op)
  BY <1>1, <1>2 DEF OpFacts, Op
<1> HIDE DEF op
<1>5. UNCHANGED <<bucket, owned, policy, view, requests, synced, day, objects>>
  BY DEF DeleteReads
<1>6. QED
  BY <1>1, <1>3, <1>4, <1>5, OpSteps DEF TypeOK

LEMMA DeletePutsConfig ==
    ASSUME ConfigInv, NEW g \in Goroutines, DeletePuts(g)
    PROVE  ConfigInv'
<1>1. TypeOK /\ ops[g] \in Op /\ OpFacts(ops[g])
  BY ConfigInvFacts DEF ConfigInv, TypeOK
<1>2. ops[g].rules \subseteq Rule(Ids) /\ \A r, s \in ops[g].rules : r.id = s.id => r = s
  BY <1>1 DEF OpFacts, Op
<1>3. PutLifecycleRules(g, ops[g].rules) /\ owned' \subseteq owned
  BY DEF DeletePuts
<1>4. bucket' \subseteq Rule(Ids) /\ \A r, s \in bucket' : r.id = s.id => r = s
  <2>1. bucket' = bucket \/ bucket' = ops[g].rules
    BY <1>3, PutFacts
  <2>2. bucket \subseteq Rule(Ids) /\ \A r, s \in bucket : r.id = s.id => r = s
    BY <1>1 DEF TypeOK
  <2>3. QED
    BY <1>2, <2>1, <2>2
<1>5. PICK failed \in BOOLEAN :
          /\ ops' = [ops EXCEPT ![g] = AnsweredOp(ops[g], failed)]
          /\ OpFacts(AnsweredOp(ops[g], failed))
  BY <1>3, PutOps
<1>6. UNCHANGED <<policy, view, requests, synced, day, objects>>
  BY DEF DeletePuts
<1>7. QED
  BY <1>1, <1>3, <1>4, <1>5, <1>6, OpSteps DEF TypeOK

LEMMA LoadReadsConfig ==
    ASSUME ConfigInv, NEW g \in Goroutines, LoadReads(g)
    PROVE  ConfigInv'
<1> DEFINE op == [ops[g] EXCEPT !.pc = "answer", !.rules = GetLifecycleRules]
<1>1. TypeOK /\ ops[g] \in Op /\ ops[g].kind = "load"
  BY DEF ConfigInv, TypeOK, LoadReads
<1>2. ops' = [ops EXCEPT ![g] = op]
  BY <1>1 DEF LoadReads, TypeOK
<1>3. OpFacts(op)
  BY <1>1, GetFacts DEF OpFacts, Op
<1> HIDE DEF op
<1>4. UNCHANGED <<bucket, owned, policy, view, requests, synced, day, objects>>
  BY DEF LoadReads
<1>5. QED
  BY <1>1, <1>2, <1>3, <1>4, OpSteps DEF TypeOK

(* An answer: the operation is over, or loads the rules again, and the     *)
(* selection is brought back into the list that was loaded.                *)
LEMMA AnswerSteps ==
    ASSUME ConfigInv, NEW g \in Goroutines, Answered(g)
    PROVE  /\ \/ ops' = [ops EXCEPT ![g] = NoOp]
              \/ ops' = [ops EXCEPT ![g] = Load]
           /\ ops[g].pc = "answer"
           /\ UNCHANGED <<bucket, owned, policy, requests, synced, day, objects>>
BY DEF Answered, AnswerSynced, AnswerDeleted, AnswerLoaded, AnswerSaved, AnswerDropped

LEMMA AnswerLoadedView ==
    ASSUME ConfigInv, NEW g \in Goroutines, AnswerLoaded(g)
    PROVE  /\ view' \in [list : Seq(Ids), selected : Nat \ {0}, confirm : BOOLEAN]
           /\ SelectionInRange'
<1>1. /\ view \in [list : Seq(Ids), selected : Nat \ {0}, confirm : BOOLEAN]
      /\ SelectionInRange /\ ops[g] \in Op
  BY DEF ConfigInv, TypeOK
<1>2. CASE UNCHANGED view
  BY <1>1, <1>2 DEF SelectionInRange
<1>3. ASSUME NEW list \in Lists({r.id : r \in ops[g].rules}),
             view' = [view EXCEPT !.list = list, !.selected = Clamp(view.selected, list)]
      PROVE  /\ view' \in [list : Seq(Ids), selected : Nat \ {0}, confirm : BOOLEAN]
             /\ SelectionInRange'
  <2>1. {r.id : r \in ops[g].rules} \in SUBSET Ids
    BY <1>1 DEF Op, Rule
  <2>2. list \in Seq(Ids) /\ Len(list) \in Nat /\ DOMAIN list = 1..Len(list)
    BY <1>3, <2>1, ListsFacts
  <2>3. Clamp(view.selected, list) \in Nat \ {0}
    BY <1>1, <2>2 DEF Clamp
  <2>4. list # <<>> => Clamp(view.selected, list) \in DOMAIN list
    BY <1>1, <2>2 DEF Clamp
  <2>5. view'.list = list /\ view'.selected = Clamp(view.selected, list)
    BY <1>1, <1>3
  <2>6. QED
    BY <1>1, <1>3, <2>2, <2>3, <2>4, <2>5 DEF SelectionInRange
<1>4. QED
  BY <1>2, <1>3 DEF AnswerLoaded

LEMMA AnsweredConfig ==
    ASSUME ConfigInv, NEW g \in Goroutines, Answered(g)
    PROVE  ConfigInv'
<1>1. PICK op \in {NoOp, Load} : ops' = [ops EXCEPT ![g] = op]
  BY AnswerSteps
<1>2. UNCHANGED <<bucket, owned, policy, requests, synced, day, objects>>
  BY AnswerSteps
<1>3. OpFacts(op)
  BY <1>1, NewOps
<1>4. TypeOK /\ SelectionInRange
  BY DEF ConfigInv
<1>5. /\ view' \in [list : Seq(Ids), selected : Nat \ {0}, confirm : BOOLEAN]
      /\ SelectionInRange'
  <2>1. CASE AnswerLoaded(g)
    BY <2>1, AnswerLoadedView
  <2>2. CASE UNCHANGED view \/ view' = [view EXCEPT !.confirm = FALSE]
    BY <1>4, <2>2 DEF TypeOK, SelectionInRange
  <2>3. QED
    BY <2>1, <2>2 DEF Answered, AnswerSynced, AnswerDeleted, AnswerSaved, AnswerDropped
<1>6. ops' \in [Goroutines -> Op] /\ \A h \in Goroutines : OpKnown(h)'
  BY <1>1, <1>3 DEF ConfigInv, TypeOK, OpKnown, OpFacts
<1>7. TypeOK'
  BY <1>2, <1>4, <1>5, <1>6 DEF TypeOK
<1>8. QED
  BY <1>5, <1>6, <1>7 DEF ConfigInv

LEMMA WorldConfig ==
    ASSUME ConfigInv, OtherPuts \/ NextDay \/ S3Expires
    PROVE  ConfigInv'
<1>1. TypeOK /\ SelectionInRange /\ \A g \in Goroutines : OpKnown(g)
  BY DEF ConfigInv
<1>2. UNCHANGED <<policy, ops, view, requests, synced>>
  BY DEF OtherPuts, NextDay, S3Expires
<1>3. SelectionInRange' /\ \A g \in Goroutines : OpKnown(g)'
  BY <1>1, <1>2 DEF SelectionInRange, OpKnown
<1>4. CASE OtherPuts
  <2>1. PICK r \in OtherRules : /\ bucket' = {b \in bucket : b.id # r.id} \cup {r}
                                /\ owned' = {o \in owned : o.id # r.id} \cup {r}
    BY <1>4 DEF OtherPuts
  <2>2. UNCHANGED <<day, objects>>
    BY <1>4 DEF OtherPuts
  <2>3. bucket' \subseteq Rule(Ids) /\ \A s, t \in bucket' : s.id = t.id => s = t
    BY <1>1, <2>1, IdsFacts DEF TypeOK
  <2>4. QED
    BY <1>1, <1>2, <1>3, <2>1, <2>2, <2>3 DEF ConfigInv, TypeOK
<1>5. CASE NextDay
  <2>1. day' \in 0..MaxDay /\ objects' = objects \cup {Full(day')}
    BY <1>1, <1>5, LifecycleAssumption DEF NextDay, TypeOK
  <2>2. UNCHANGED <<bucket, owned>>
    BY <1>5 DEF NextDay
  <2>3. QED
    BY <1>1, <1>2, <1>3, <2>1, <2>2 DEF ConfigInv, TypeOK
<1>6. CASE S3Expires
  <2>1. objects' \subseteq objects /\ UNCHANGED <<bucket, owned, day>>
    BY <1>6 DEF S3Expires
  <2>2. QED
    BY <1>1, <1>2, <1>3, <2>1 DEF ConfigInv, TypeOK
<1>7. QED
  BY <1>4, <1>5, <1>6

LEMMA NextConfig ==
    ASSUME ConfigInv, [Next]_vars
    PROVE  ConfigInv'
<1>1. CASE UNCHANGED vars
  BY <1>1 DEF ConfigInv, TypeOK, SelectionInRange, OpKnown, vars
<1>2. CASE Next
  BY <1>2, KeyConfig, GetFailsConfig, SyncReadsConfig, SyncPoliciesConfig, SyncPutsConfig,
     DeleteReadsConfig, DeletePutsConfig, LoadReadsConfig, SavesConfig, AnsweredConfig,
     WorldConfig DEF Next
<1>3. QED
  BY <1>1, <1>2

(* The types, each operation carries rules of different ids, and none of   *)
(* the program's own in a sync (lifecycle_usecase.go, lifecycle.go and     *)
(* updateLifecycle of the retention view).                                 *)
THEOREM ConfigInvHolds == Spec => []ConfigInv
<1>1. Init => ConfigInv
  BY InitConfig
<1>2. ConfigInv /\ [Next]_vars => ConfigInv'
  BY NextConfig
<1>3. QED
  BY <1>1, <1>2, PTL DEF Spec

(* However many answers come, in whatever order, and whatever order S3     *)
(* lists the rules in, the index that "d" and the confirmation use is one  *)
(* of the list (Update of the retention view).                             *)
THEOREM SelectionHolds == Spec => []SelectionInRange
<1>1. ConfigInv => SelectionInRange
  BY DEF ConfigInv
<1>2. QED
  BY <1>1, ConfigInvHolds, PTL

-----------------------------------------------------------------------------
(* The rules of other tools.                                               *)
CarriesOp(op, rules) ==
    /\ op.kind = "sync" /\ op.pc \in {"policies", "put"} => rules \subseteq op.rules
    /\ op.kind = "delete" /\ op.pc = "put" => {r \in rules : r.id # op.id} \subseteq op.rules

(* A step of one operation that takes no rule away but those it means to.  *)
LEMMA OwnedSteps ==
    ASSUME ConfigInv, OwnedInv, NEW g \in Goroutines, NEW op, ops' = [ops EXCEPT ![g] = op],
           owned' \subseteq owned, owned' \subseteq bucket', CarriesOp(op, owned')
    PROVE  OwnedInv'
<1>1. ops \in [Goroutines -> Op]
  BY DEF ConfigInv, TypeOK
<1>2. ASSUME NEW h \in Goroutines \ {g} PROVE Carries(h)'
  BY <1>1 DEF OwnedInv, Carries
<1>3. Carries(g)'
  BY <1>1 DEF Carries, CarriesOp
<1>4. QED
  BY <1>2, <1>3 DEF OwnedInv, OthersKept

(* Read without tags, the rules of other tools are what these wrote. *)
LEMMA GetsOwned ==
    ASSUME ConfigInv, OwnedInv, Simple
    PROVE  /\ owned \subseteq GetLifecycleRules
           /\ \A r \in owned : ~Managed(r)
<1>1. \A r \in owned : r \in bucket /\ r \in Rule(Ids) /\ r.id # GlobalId
                       /\ ~r.tagged /\ ~r.extra
  BY IdsFacts DEF ConfigInv, TypeOK, OwnedInv, OthersKept, Simple
<1>2. \A r \in owned : Listed(r) = r
  BY <1>1, ListedFacts
<1>3. QED
  BY <1>1, <1>2 DEF GetLifecycleRules, Managed

LEMMA OwnedFacts ==
    ASSUME ConfigInv, OwnedInv
    PROVE  /\ owned \subseteq bucket /\ owned \subseteq OtherRules
           /\ ops \in [Goroutines -> Op]
           /\ \A g \in Goroutines : ops[g] \in Op /\ CarriesOp(ops[g], owned)
BY DEF ConfigInv, TypeOK, OwnedInv, OthersKept, Carries, CarriesOp

LEMMA AnsweredCarries ==
    ASSUME NEW op \in Op, NEW failed \in BOOLEAN, NEW rules
    PROVE  CarriesOp(AnsweredOp(op, failed), rules)
BY DEF CarriesOp, AnsweredOp, Op

LEMMA StartsCarrying ==
    ASSUME NEW rules
    PROVE  /\ CarriesOp(NoOp, rules) /\ CarriesOp(Load, rules)
           /\ CarriesOp([NoOp EXCEPT !.kind = "sync"], rules)
           /\ \A d : CarriesOp([NoOp EXCEPT !.kind = "save", !.days = d], rules)
           /\ \A id : CarriesOp([NoOp EXCEPT !.kind = "delete", !.id = id], rules)
BY DEF CarriesOp, NoOp, Load

LEMMA KeyOwned ==
    ASSUME ConfigInv, OwnedInv, Key
    PROVE  OwnedInv'
<1>1. CASE UNCHANGED <<bucket, owned, ops>>
  BY <1>1 DEF OwnedInv, OthersKept, Carries
<1>2. ASSUME NEW g \in Goroutines, KeySync(g) \/ KeyReload(g) \/ KeySave(g) \/ KeyConfirm(g)
      PROVE  OwnedInv'
  <2>1. UNCHANGED <<bucket, owned>>
    BY <1>2 DEF KeySync, KeyReload, KeySave, KeyConfirm, Start
  <2>2. \E op : ops' = [ops EXCEPT ![g] = op] /\ CarriesOp(op, owned')
    <3>1. CASE KeySync(g)
      BY <3>1, StartsCarrying DEF KeySync, Start
    <3>2. CASE KeyReload(g)
      BY <3>2, StartsCarrying DEF KeyReload, Start, Load
    <3>3. CASE KeySave(g)
      BY <3>3, StartsCarrying DEF KeySave, Start
    <3>4. CASE KeyConfirm(g)
      BY <3>4, StartsCarrying DEF KeyConfirm, Start
    <3>5. QED
      BY <1>2, <3>1, <3>2, <3>3, <3>4
  <2>3. owned' \subseteq owned /\ owned' \subseteq bucket'
    BY <2>1, OwnedFacts
  <2>4. QED
    BY <2>2, <2>3, OwnedSteps
<1>3. QED
  BY <1>1, <1>2 DEF Key

(* Reads: what will be written has the rules of others as they are now.    *)
LEMMA ReadsOwned ==
    ASSUME ConfigInv, OwnedInv, Simple, NEW g \in Goroutines, SyncReads(g) \/ DeleteReads(g)
    PROVE  OwnedInv'
<1>1. ops[g] \in Op /\ ops \in [Goroutines -> Op]
  BY OwnedFacts
<1>2. UNCHANGED <<bucket, owned>>
  BY DEF SyncReads, DeleteReads
<1>3. CASE SyncReads(g)
  <2> DEFINE rules == {r \in GetLifecycleRules : ~Managed(r)}
             op == [ops[g] EXCEPT !.pc = "policies", !.rules = rules]
  <2>1. owned \subseteq rules
    BY GetsOwned
  <2>2. ops' = [ops EXCEPT ![g] = op] /\ ops[g].kind = "sync"
    BY <1>1, <1>3 DEF SyncReads
  <2> HIDE DEF rules
  <2>3. CarriesOp(op, owned')
    BY <1>1, <1>2, <2>1, <2>2 DEF CarriesOp, Op
  <2> HIDE DEF op
  <2>4. QED
    BY <1>2, <2>2, <2>3, OwnedSteps, OwnedFacts
<1>4. CASE DeleteReads(g)
  <2> DEFINE rules == {r \in GetLifecycleRules : r.id # ops[g].id}
             op == [ops[g] EXCEPT !.pc = "put", !.rules = rules]
  <2>1. {r \in owned : r.id # ops[g].id} \subseteq rules
    BY GetsOwned
  <2>2. ops' = [ops EXCEPT ![g] = op] /\ ops[g].kind = "delete"
    BY <1>1, <1>4 DEF DeleteReads
  <2> HIDE DEF rules
  <2>3. CarriesOp(op, owned')
    BY <1>1, <1>2, <2>1, <2>2 DEF CarriesOp, Op
  <2> HIDE DEF op
  <2>4. QED
    BY <1>2, <2>2, <2>3, OwnedSteps, OwnedFacts
<1>5. QED
  BY <1>3, <1>4

(* Writes: the rules of others that are not meant to go are among them.    *)
LEMMA PutsOwned ==
    ASSUME ConfigInv, OwnedInv, NEW g \in Goroutines, SyncPuts(g) \/ DeletePuts(g)
    PROVE  OwnedInv'
<1>1. ops[g] \in Op /\ CarriesOp(ops[g], owned) /\ owned \subseteq bucket
  BY OwnedFacts
<1>2. PICK rules : /\ PutLifecycleRules(g, rules)
                   /\ bucket' = bucket \/ owned' \subseteq rules
  <2>1. CASE SyncPuts(g)
    <3>1. /\ PutLifecycleRules(g, ops[g].rules \cup {GlobalRule(ops[g].days)})
          /\ owned' = owned /\ owned \subseteq ops[g].rules
      BY <1>1, <2>1 DEF SyncPuts, CarriesOp
    <3>2. QED
      BY <3>1
  <2>2. CASE DeletePuts(g)
    <3>1. /\ PutLifecycleRules(g, ops[g].rules)
          /\ owned' = {r \in owned : r.id # ops[g].id \/ bucket' = bucket}
          /\ {r \in owned : r.id # ops[g].id} \subseteq ops[g].rules
      BY <1>1, <2>2 DEF DeletePuts, CarriesOp
    <3>2. QED
      BY <3>1
  <2>3. QED
    BY <2>1, <2>2
<1>3. bucket' = bucket \/ bucket' = rules
  BY <1>2, PutFacts
<1>4. owned' \subseteq owned
  BY DEF SyncPuts, DeletePuts
<1>5. owned' \subseteq bucket'
  BY <1>1, <1>2, <1>3, <1>4
<1>6. PICK failed \in BOOLEAN : ops' = [ops EXCEPT ![g] = AnsweredOp(ops[g], failed)]
  BY <1>2, PutOps
<1>7. CarriesOp(AnsweredOp(ops[g], failed), owned')
  BY <1>1, AnsweredCarries
<1>8. QED
  BY <1>4, <1>5, <1>6, <1>7, OwnedSteps

(* The steps that leave the configuration and its owners alone.            *)
LEMMA StepsOwned ==
    ASSUME ConfigInv, OwnedInv, NEW g \in Goroutines,
           GetFails(g) \/ SyncPolicies(g) \/ LoadReads(g) \/ Saves(g) \/ Answered(g)
    PROVE  OwnedInv'
<1>1. ops[g] \in Op /\ CarriesOp(ops[g], owned) /\ ops \in [Goroutines -> Op]
  BY OwnedFacts
<1>2. UNCHANGED <<bucket, owned>>
  BY AnswerSteps DEF GetFails, SyncPolicies, LoadReads, Saves
<1>3. \E op : ops' = [ops EXCEPT ![g] = op] /\ CarriesOp(op, owned)
  <2>1. CASE GetFails(g) \/ Saves(g)
    <3>1. PICK failed \in BOOLEAN : ops' = [ops EXCEPT ![g] = AnsweredOp(ops[g], failed)]
      BY <2>1, AnswerFacts DEF GetFails, Saves
    <3>2. QED
      BY <1>1, <3>1, AnsweredCarries
  <2>2. CASE SyncPolicies(g)
    <3> DEFINE op == [ops[g] EXCEPT !.pc = "put", !.days = SyncDays]
    <3>1. ops' = [ops EXCEPT ![g] = op]
      BY <1>1, <2>2 DEF SyncPolicies
    <3>2. CarriesOp(op, owned)
      BY <1>1, <2>2 DEF SyncPolicies, CarriesOp, Op
    <3> HIDE DEF op
    <3>3. QED
      BY <3>1, <3>2
  <2>3. CASE LoadReads(g)
    <3> DEFINE op == [ops[g] EXCEPT !.pc = "answer", !.rules = GetLifecycleRules]
    <3>1. ops' = [ops EXCEPT ![g] = op]
      BY <1>1, <2>3 DEF LoadReads
    <3>2. CarriesOp(op, owned)
      BY <1>1, <2>3 DEF LoadReads, CarriesOp, Op
    <3> HIDE DEF op
    <3>3. QED
      BY <3>1, <3>2
  <2>4. CASE Answered(g)
    BY <2>4, AnswerSteps, StartsCarrying
  <2>5. QED
    BY <2>1, <2>2, <2>3, <2>4
<1>4. QED
  BY <1>2, <1>3, OwnedSteps, OwnedFacts

LEMMA WorldOwned ==
    ASSUME ConfigInv, OwnedInv, ~Interferes, OtherPuts \/ NextDay \/ S3Expires
    PROVE  OwnedInv'
<1>1. CASE NextDay \/ S3Expires
  BY <1>1 DEF NextDay, S3Expires, OwnedInv, OthersKept, Carries
<1>2. CASE OtherPuts
  <2>1. PICK r \in OtherRules : /\ bucket' = {b \in bucket : b.id # r.id} \cup {r}
                                /\ owned' = {o \in owned : o.id # r.id} \cup {r}
    BY <1>2 DEF OtherPuts
  <2>2. ops' = ops /\ \A g \in Goroutines : ops[g].pc \notin {"policies", "put"}
    BY <1>2 DEF OtherPuts
  <2>3. OthersKept'
    BY <2>1 DEF OwnedInv, OthersKept
  <2>4. QED
    BY <2>2, <2>3 DEF OwnedInv, Carries
<1>3. QED
  BY <1>1, <1>2

(* A rule of another tool that the user did not delete is what its owner   *)
(* wrote, whatever syncs and deletions are under way together and          *)
(* whichever of their calls fail (SyncWithRetention: "Rules belonging to   *)
(* other tools are preserved").  If its filter has no tag, which the       *)
(* adapter would lose, and no other tool writes between Get and Put.       *)
THEOREM OthersKeptHolds == ASSUME Simple, ~Interferes PROVE Spec => []OthersKept
<1>1. Init => OwnedInv
  BY DEF Init, OwnedInv, OthersKept, Carries, NoOp
<1>2. ConfigInv /\ OwnedInv /\ [Next]_vars => OwnedInv'
  <2> SUFFICES ASSUME ConfigInv, OwnedInv, [Next]_vars PROVE OwnedInv'
    OBVIOUS
  <2>1. CASE UNCHANGED vars
    BY <2>1 DEF OwnedInv, OthersKept, Carries, vars
  <2>2. CASE Next
    BY <2>2, KeyOwned, ReadsOwned, PutsOwned, StepsOwned, WorldOwned DEF Next
  <2>3. QED
    BY <2>1, <2>2
<1>3. OwnedInv => OthersKept
  BY DEF OwnedInv
<1>4. QED
  BY <1>1, <1>2, <1>3, ConfigInvHolds, PTL DEF Spec

-----------------------------------------------------------------------------
(* No rule is made up.                                                     *)
AllKnown(rules) == \A r \in rules : Known(r)

LEMMA KnownSteps ==
    ASSUME ConfigInv, KnownInv, NEW g \in Goroutines, NEW op, ops' = [ops EXCEPT ![g] = op],
           AllKnown(op.rules), AllKnown(bucket')
    PROVE  KnownInv'
<1>1. ops \in [Goroutines -> Op]
  BY DEF ConfigInv, TypeOK
<1>2. \A h \in Goroutines : \A r \in ops'[h].rules : Known(r)
  BY <1>1 DEF KnownInv, AllKnown
<1>3. QED
  BY <1>2 DEF KnownInv, AllKnown, Known

LEMMA GetsKnown ==
    ASSUME ConfigInv, KnownInv, Simple
    PROVE  AllKnown(GetLifecycleRules)
<1>1. ASSUME NEW r \in bucket PROVE Listed(r) = r
  <2>1. r \in Rule(Ids) /\ Known(r)
    BY DEF ConfigInv, TypeOK, KnownInv
  <2>2. CASE r \in OtherRules
    BY <2>1, <2>2, ListedFacts DEF Simple
  <2>3. CASE r = GlobalRule(r.days)
    <3>1. r.days \in Nat
      BY <2>1 DEF Rule
    <3>2. QED
      BY <2>3, <3>1, GlobalRuleFacts
  <2>4. QED
    BY <2>1, <2>2, <2>3 DEF Known
<1>2. QED
  BY <1>1 DEF GetLifecycleRules, AllKnown, KnownInv

LEMMA NextKnown ==
    ASSUME ConfigInv, KnownInv, Simple, [Next]_vars
    PROVE  KnownInv'
<1>1. /\ ops \in [Goroutines -> Op] /\ AllKnown(bucket) /\ AllKnown({})
      /\ \A g \in Goroutines : ops[g] \in Op /\ AllKnown(ops[g].rules)
  BY DEF ConfigInv, TypeOK, KnownInv, AllKnown
<1>2. CASE UNCHANGED <<bucket, ops>>
  BY <1>2 DEF KnownInv, Known
<1>3. ASSUME NEW g \in Goroutines, NEW op, Start(g, op), op.rules = {}
      PROVE  KnownInv'
  BY <1>1, <1>3, KnownSteps DEF Start
<1>4. ASSUME NEW g \in Goroutines, KeySync(g) \/ KeyReload(g) \/ KeySave(g) \/ KeyConfirm(g)
      PROVE  KnownInv'
  <2>1. \E op : Start(g, op) /\ op.rules = {}
    <3>1. /\ [NoOp EXCEPT !.kind = "sync"].rules = {} /\ [NoOp EXCEPT !.kind = "load"].rules = {}
          /\ \A d : [NoOp EXCEPT !.kind = "save", !.days = d].rules = {}
          /\ \A id : [NoOp EXCEPT !.kind = "delete", !.id = id].rules = {}
      BY DEF NoOp
    <3>2. CASE KeySync(g) \/ KeyReload(g)
      BY <3>1, <3>2 DEF KeySync, KeyReload
    <3>3. CASE KeySave(g) \/ KeyConfirm(g)
      BY <3>1, <3>3 DEF KeySave, KeyConfirm
    <3>4. QED
      BY <1>4, <3>2, <3>3
  <2>2. QED
    BY <1>3, <2>1
<1>5. ASSUME NEW g \in Goroutines, NEW failed \in BOOLEAN, AllKnown(bucket'),
             ops' = [ops EXCEPT ![g] = AnsweredOp(ops[g], failed)]
      PROVE  KnownInv'
  <2>1. AllKnown(AnsweredOp(ops[g], failed).rules)
    BY <1>1 DEF AnsweredOp, Op
  <2>2. QED
    BY <1>5, <2>1, KnownSteps
<1>6. ASSUME NEW g \in Goroutines, GetFails(g) \/ Saves(g)
      PROVE  KnownInv'
  <2>1. PICK failed \in BOOLEAN : ops' = [ops EXCEPT ![g] = AnsweredOp(ops[g], failed)]
    BY <1>6, AnswerFacts DEF GetFails, Saves
  <2>2. bucket' = bucket
    BY <1>6 DEF GetFails, Saves
  <2>3. QED
    BY <1>1, <1>5, <2>1, <2>2
<1>7. ASSUME NEW g \in Goroutines, SyncReads(g) \/ DeleteReads(g) \/ LoadReads(g) \/ SyncPolicies(g)
      PROVE  KnownInv'
  <2>1. AllKnown(GetLifecycleRules) /\ bucket' = bucket
    BY <1>7, GetsKnown DEF SyncReads, DeleteReads, LoadReads, SyncPolicies
  <2>2. \A h \in Goroutines : AllKnown(ops'[h].rules)
    BY <1>1, <1>7, <2>1 DEF SyncReads, DeleteReads, LoadReads, SyncPolicies, AllKnown, Op
  <2>3. QED
    BY <1>1, <2>1, <2>2 DEF KnownInv, AllKnown, Known
<1>8. ASSUME NEW g \in Goroutines, SyncPuts(g) \/ DeletePuts(g)
      PROVE  KnownInv'
  <2>1. ops[g].days \in Nat
    BY <1>1 DEF Op
  <2>2. AllKnown(ops[g].rules \cup {GlobalRule(ops[g].days)})
    BY <1>1, <2>1, GlobalRuleFacts DEF AllKnown, Known
  <2>3. PICK rules : PutLifecycleRules(g, rules) /\ AllKnown(rules)
    BY <1>1, <1>8, <2>2 DEF SyncPuts, DeletePuts
  <2>4. bucket' = bucket \/ bucket' = rules
    BY <2>3, PutFacts
  <2>5. PICK failed \in BOOLEAN : ops' = [ops EXCEPT ![g] = AnsweredOp(ops[g], failed)]
    BY <2>3, PutOps
  <2>6. QED
    BY <1>1, <1>5, <2>3, <2>4, <2>5
<1>9. ASSUME NEW g \in Goroutines, Answered(g)
      PROVE  KnownInv'
  <2>1. PICK op : ops' = [ops EXCEPT ![g] = op] /\ op.rules = {}
    BY <1>9, AnswerSteps DEF NoOp, Load
  <2>2. QED
    BY <1>1, <1>9, <2>1, AnswerSteps, KnownSteps
<1>10. CASE OtherPuts
  BY <1>10 DEF OtherPuts, KnownInv, Known
<1>11. QED
  BY <1>2, <1>4, <1>6, <1>7, <1>8, <1>9, <1>10 DEF Next, Key, NextDay, S3Expires, vars

(* S3 expires an object of another tool only by a rule that such a tool    *)
(* wrote, as it wrote it (SyncWithRetention, and the prefix of the global  *)
(* rule).  In a bucket with a PathPrefix, without which the global rule is *)
(* for every object, and without tags.                                     *)
THEOREM ForeignKeptHolds == ASSUME Simple, Prefixed PROVE Spec => ForeignKept
<1>1. Init => KnownInv
  BY DEF Init, KnownInv, NoOp
<1>2. ConfigInv /\ KnownInv /\ [Next]_vars => KnownInv'
  BY NextKnown
<1>3. ConfigInv /\ KnownInv /\ [Next]_vars => ForeignKeptStep
  <2> SUFFICES ASSUME ConfigInv, KnownInv, [Next]_vars,
                      NEW o \in Foreign \cap (objects \ objects')
               PROVE  \E r \in OtherRules : Expires(r, o)
    BY DEF ForeignKeptStep
  <2>1. S3Expires
    BY AnswerSteps DEF Next, vars, Key, KeySync, KeyReload, KeySave, KeyConfirm, Start, GetFails,
       SyncReads, SyncPolicies, SyncPuts, DeleteReads, DeletePuts, LoadReads, Saves, OtherPuts,
       NextDay
  <2>2. PICK r \in bucket : Expires(r, o)
    BY <2>1 DEF S3Expires
  <2>3. ScopeOf(o) = "other"
    BY LifecycleAssumption DEF ScopeOf
  <2>4. ASSUME r = GlobalRule(r.days) PROVE FALSE
    BY <2>2, <2>3, <2>4 DEF GlobalRule, Expires
  <2>5. QED
    BY <2>2, <2>4 DEF KnownInv, Known
<1>4. ConfigInv /\ KnownInv /\ [Next]_vars => [ForeignKeptStep]_vars
  BY <1>3
<1>5. QED
  BY <1>1, <1>2, <1>4, ConfigInvHolds, PTL DEF Spec, ForeignKept

-----------------------------------------------------------------------------
(* The sync that counts: alone, of the saved policy.                       *)
Set(rules) == GlobalRule(SyncDays) \in rules

SyncOp(op, rules) ==
    /\ op.kind \in {"none", "load", "sync"}
    /\ op.kind = "sync" => /\ op.pc = "put" => op.days = SyncDays
                           /\ op.pc = "answer" => Set(rules)

LEMMA SyncFacts ==
    ASSUME ConfigInv, SyncInv, synced, NEW g \in Goroutines
    PROVE  /\ ops[g] \in Op /\ ops \in [Goroutines -> Op] /\ SyncOp(ops[g], bucket)
           /\ ops[g].kind = "sync" => \A h \in Goroutines \ {g} : ops[h].kind \in {"none", "load"}
           /\ Calm => Set(bucket)
BY DEF ConfigInv, TypeOK, SyncInv, SyncKnown, SyncOp, Set

(* A step of one operation that neither changes the policy nor takes the   *)
(* rule away.                                                              *)
LEMMA SyncSteps ==
    ASSUME ConfigInv, SyncInv, synced, NEW g \in Goroutines, NEW op,
           ops' = [ops EXCEPT ![g] = op], SyncOp(op, bucket'), UNCHANGED policy,
           Set(bucket) => Set(bucket'),
           op.kind = "sync" => ops[g].kind = "sync",
           op.kind # "sync" /\ ops[g].kind = "sync" => Set(bucket')
    PROVE  SyncInv'
<1>1. /\ ops \in [Goroutines -> Op] /\ ops'[g] = op
      /\ \A h \in Goroutines \ {g} : ops'[h] = ops[h] /\ SyncOp(ops[h], bucket)
  BY SyncFacts
<1>2. SyncDays' = SyncDays
  BY DEF SyncDays
<1>3. \A h \in Goroutines : SyncOp(ops'[h], bucket')
  BY <1>1 DEF SyncOp
<1>4. \A h, k \in Goroutines : ops'[h].kind = "sync" /\ ops'[k].kind = "sync" => h = k
  BY <1>1, SyncFacts
<1>5. Calm' => Set(bucket')
  <2>1. CASE Calm
    BY <2>1, SyncFacts
  <2>2. CASE ~Calm
    <3>1. PICK h \in Goroutines : ops[h].kind \notin {"none", "load"}
      BY <2>2 DEF Calm
    <3>2. ops[h].kind = "sync"
      BY <3>1, SyncFacts DEF SyncOp
    <3>3. CASE h = g
      BY <1>1, <3>2, <3>3 DEF Calm
    <3>4. CASE h # g
      BY <1>1, <3>2, <3>4 DEF Calm
    <3>5. QED
      BY <3>3, <3>4
  <2>3. QED
    BY <2>1, <2>2
<1>6. QED
  BY <1>2, <1>3, <1>4, <1>5 DEF SyncInv, SyncKnown, SyncOp, Set

LEMMA NewSyncOps ==
    /\ \A rules : SyncOp(NoOp, rules) /\ SyncOp(Load, rules)
    /\ NoOp.kind = "none" /\ Load.kind = "load"
BY DEF SyncOp, NoOp, Load

(* A key of the user: only a sync with nothing else under way counts. *)
LEMMA KeySyncInv ==
    ASSUME ConfigInv, SyncInv, Key
    PROVE  SyncInv'
<1>1. CASE UNCHANGED <<bucket, policy, ops, synced>>
  BY <1>1 DEF SyncInv, SyncKnown, Calm, SyncDays
<1>2. ops \in [Goroutines -> Op]
  BY DEF ConfigInv, TypeOK
<1>3. ASSUME NEW g \in Goroutines, KeySync(g), synced'
      PROVE  SyncInv'
  <2>1. Calm /\ ops' = [ops EXCEPT ![g] = [NoOp EXCEPT !.kind = "sync"]]
    BY <1>3 DEF KeySync, Start
  <2>2. /\ ops'[g].kind = "sync" /\ ops'[g].pc = "start"
        /\ \A h \in Goroutines \ {g} : ops'[h].kind \in {"none", "load"}
    BY <1>2, <2>1 DEF Calm, NoOp
  <2>3. QED
    BY <2>2 DEF SyncInv, SyncKnown, Calm
<1>4. ASSUME NEW g \in Goroutines, KeyReload(g), synced
      PROVE  SyncInv'
  <2>1. /\ ops[g].kind = "none" /\ ops' = [ops EXCEPT ![g] = Load]
        /\ UNCHANGED <<bucket, policy, synced>>
    BY <1>4 DEF KeyReload, Start, Load
  <2>2. QED
    BY <1>4, <2>1, NewSyncOps, SyncSteps
<1>5. ASSUME NEW g \in Goroutines, KeySave(g) \/ KeyConfirm(g)
      PROVE  SyncInv'
  BY <1>5 DEF KeySave, KeyConfirm, SyncInv
<1>6. QED
  BY <1>1, <1>3, <1>4, <1>5 DEF Key, KeySync, KeyReload, SyncInv

LEMMA AnsweredSyncOp ==
    ASSUME NEW op \in Op, NEW failed \in BOOLEAN, NEW before, NEW rules, SyncOp(op, before),
           op.kind = "sync" => Set(rules)
    PROVE  SyncOp(AnsweredOp(op, failed), rules) /\ AnsweredOp(op, failed).kind = op.kind
BY DEF SyncOp, AnsweredOp, Op, Set

(* The steps of an operation, when the policy is set. *)
LEMMA OpSyncInv ==
    ASSUME ConfigInv, SyncInv, synced, synced', NEW g \in Goroutines,
           GetFails(g) \/ SyncReads(g) \/ SyncPolicies(g) \/ LoadReads(g) \/ Answered(g)
    PROVE  SyncInv'
<1>1. /\ ops[g] \in Op /\ ops \in [Goroutines -> Op] /\ SyncOp(ops[g], bucket)
  BY SyncFacts
<1>2. UNCHANGED <<bucket, policy>>
  BY AnswerSteps DEF GetFails, SyncReads, SyncPolicies, LoadReads
<1>3. SyncDays' = SyncDays
  BY <1>2 DEF SyncDays
<1>4. CASE GetFails(g)
  <2>1. /\ ops[g].kind # "sync"
        /\ ops' = [ops EXCEPT ![g] = AnsweredOp(ops[g], TRUE)]
    BY <1>4, AnswerFacts DEF GetFails
  <2>2. SyncOp(AnsweredOp(ops[g], TRUE), bucket') /\ AnsweredOp(ops[g], TRUE).kind = ops[g].kind
    BY <1>1, <2>1, AnsweredSyncOp
  <2>3. QED
    BY <1>2, <2>1, <2>2, SyncSteps
<1>5. CASE SyncReads(g) \/ SyncPolicies(g)
  <2>1. /\ ops' = [ops EXCEPT ![g] = ops'[g]] /\ ops'[g].kind = "sync" /\ ops[g].kind = "sync"
        /\ \/ ops'[g].pc = "policies"
           \/ ops'[g].pc = "put" /\ ops'[g].days = SyncDays
    BY <1>1, <1>5 DEF SyncReads, SyncPolicies, Op
  <2>2. SyncInv'
    <3>1. SyncOp(ops'[g], bucket')
      BY <2>1 DEF SyncOp
    <3>2. \A h \in Goroutines \ {g} : ops'[h].kind \in {"none", "load"}
      BY <1>1, <2>1, SyncFacts
    <3>3. ~Calm'
      BY <2>1 DEF Calm
    <3>4. QED
      BY <1>3, <2>1, <3>1, <3>2, <3>3 DEF SyncInv, SyncKnown, SyncOp, Set
  <2>3. QED
    BY <2>2
<1>6. CASE LoadReads(g)
  <2> DEFINE op == [ops[g] EXCEPT !.pc = "answer", !.rules = GetLifecycleRules]
  <2>1. ops' = [ops EXCEPT ![g] = op] /\ ops[g].kind = "load" /\ op.kind = "load"
    BY <1>1, <1>6 DEF LoadReads, Op
  <2> HIDE DEF op
  <2>2. SyncOp(op, bucket')
    BY <2>1 DEF SyncOp
  <2>3. QED
    BY <1>2, <2>1, <2>2, SyncSteps
<1>7. CASE Answered(g)
  <2>1. ops[g].kind = "sync" => Set(bucket')
    BY <1>1, <1>2, <1>7, AnswerSteps DEF SyncOp
  <2>2. ops' = [ops EXCEPT ![g] = NoOp] \/ ops' = [ops EXCEPT ![g] = Load]
    BY <1>7, AnswerSteps
  <2>3. QED
    BY <1>2, <2>1, <2>2, NewSyncOps, SyncSteps
<1>8. QED
  BY <1>4, <1>5, <1>6, <1>7

(* The last call of a sync: when it is answered with success, the rule is  *)
(* there.                                                                  *)
LEMMA SyncPutsInv ==
    ASSUME ConfigInv, SyncInv, synced, synced', NEW g \in Goroutines, SyncPuts(g)
    PROVE  SyncInv'
<1> DEFINE rules == ops[g].rules \cup {GlobalRule(SyncDays)}
<1>1. /\ ops[g] \in Op /\ ops \in [Goroutines -> Op] /\ SyncOp(ops[g], bucket)
      /\ ops[g].kind = "sync" /\ ops[g].days = SyncDays
  BY SyncFacts DEF SyncPuts, SyncOp
<1>2. PutLifecycleRules(g, rules) /\ Set(rules) /\ ~ops'[g].error
  BY <1>1 DEF SyncPuts, Set
<1> HIDE DEF rules
<1>3. ops' = [ops EXCEPT ![g] = AnsweredOp(ops[g], FALSE)] /\ bucket' = rules
  BY <1>2, PutOps
<1>4. UNCHANGED policy
  BY DEF SyncPuts
<1>5. Set(bucket')
  BY <1>2, <1>3
<1>6. SyncOp(AnsweredOp(ops[g], FALSE), bucket') /\ AnsweredOp(ops[g], FALSE).kind = ops[g].kind
  BY <1>1, <1>5, AnsweredSyncOp
<1>7. QED
  BY <1>1, <1>3, <1>4, <1>5, <1>6, SyncSteps

LEMMA NextSyncInv ==
    ASSUME ConfigInv, SyncInv, [Next]_vars
    PROVE  SyncInv'
<1> SUFFICES ASSUME synced' PROVE SyncInv'
  BY DEF SyncInv
<1>1. CASE UNCHANGED <<bucket, policy, ops, synced>>
  BY <1>1 DEF SyncInv, SyncKnown, Calm, SyncDays
<1>2. CASE Key
  BY <1>2, KeySyncInv
<1>3. ASSUME NEW g \in Goroutines,
             \/ GetFails(g) \/ SyncReads(g) \/ SyncPolicies(g) \/ LoadReads(g) \/ Answered(g)
             \/ SyncPuts(g)
      PROVE  SyncInv'
  <2>1. synced
    BY <1>3, AnswerSteps DEF GetFails, SyncReads, SyncPolicies, LoadReads, SyncPuts
  <2>2. QED
    BY <1>3, <2>1, OpSyncInv, SyncPutsInv
<1>4. ASSUME NEW g \in Goroutines, DeleteReads(g) \/ DeletePuts(g) \/ Saves(g)
      PROVE  FALSE
  <2>1. synced /\ ops[g].kind \in {"delete", "save"}
    BY <1>4 DEF DeleteReads, DeletePuts, Saves
  <2>2. QED
    BY <2>1, SyncFacts DEF SyncOp
<1>5. CASE OtherPuts
  <2>1. PICK r \in OtherRules : bucket' = {b \in bucket : b.id # r.id} \cup {r}
    BY <1>5 DEF OtherPuts
  <2>2. UNCHANGED <<policy, ops, synced>>
    BY <1>5 DEF OtherPuts
  <2>3. GlobalRule(SyncDays).id # r.id
    BY <2>1, IdsFacts, PolicyFacts, GlobalRuleFacts DEF ConfigInv
  <2>4. GlobalRule(SyncDays) \in bucket => GlobalRule(SyncDays) \in bucket'
    BY <2>1, <2>3
  <2>5. QED
    BY <2>2, <2>4 DEF SyncInv, SyncKnown, Calm, SyncDays
<1>6. CASE NextDay \/ S3Expires
  BY <1>1, <1>6 DEF NextDay, S3Expires
<1>7. QED
  BY <1>1, <1>2, <1>3, <1>4, <1>5, <1>6 DEF Next, vars

(* When a sync that nothing overlapped was the last thing asked for, it    *)
(* worked and all is answered, the rule in the bucket has the days that    *)
(* records get (SyncWithRetention, and retentionDays of runForInstance).   *)
(* Once a policy has been saved: without one the two defaults differ.      *)
THEOREM SyncAgreesHolds == ASSUME 0 \notin SavedPolicies PROVE Spec => []SyncAgrees
<1>1. Init => SyncInv
  BY DEF Init, SyncInv
<1>2. ConfigInv /\ SyncInv /\ [Next]_vars => SyncInv'
  BY NextSyncInv
<1>3. ConfigInv /\ SyncInv => SyncAgrees
  <2>1. ConfigInv => policy # 0
    BY LifecycleAssumption DEF ConfigInv, TypeOK
  <2>2. QED
    BY <2>1 DEF SyncInv, SyncAgrees, AppDays, SyncDays
<1>4. QED
  BY <1>1, <1>2, <1>3, ConfigInvHolds, PTL DEF Spec
=============================================================================
