-------------------------- MODULE SchedulerProofs --------------------------
(***************************************************************************)
(* Proofs about Scheduler, for any expressions, hours and number of        *)
(* reloads.                                                                *)
(***************************************************************************)
EXTENDS Scheduler, SequenceTheorems, FiniteSetTheorems, TLAPS

-----------------------------------------------------------------------------
(* The jobs of a configuration *)

(* The items of two sequences, in the one that they form together. *)
Joins(joined, s, t) ==
    /\ Len(joined) = Len(s) + Len(t)
    /\ \A n \in 1..Len(s) : joined[n] = s[n]
    /\ \A n \in 1..Len(t) : joined[Len(s) + n] = t[n]

LEMMA Joined ==
    ASSUME NEW s \in Seq(NewEntry), NEW t \in Seq(NewEntry), NEW joined, joined = s \o t
    PROVE  joined \in Seq(NewEntry) /\ Joins(joined, s, t)
<1>1. Len(s) \in Nat /\ Len(t) \in Nat
  OBVIOUS
<1>2. /\ joined \in Seq(NewEntry) /\ Len(joined) = Len(s) + Len(t)
      /\ \A i \in 1..Len(s) + Len(t) : joined[i] = IF i <= Len(s) THEN s[i] ELSE t[i - Len(s)]
  BY ConcatProperties
<1>3. ASSUME NEW n \in 1..Len(t)
      PROVE  joined[Len(s) + n] = t[n]
  <2>1. PICK i : i = Len(s) + n
    OBVIOUS
  <2>2. i \in 1..Len(s) + Len(t) /\ ~(i <= Len(s)) /\ i - Len(s) = n
    BY <1>1, <2>1
  <2>3. joined[i] = t[i - Len(s)]
    BY <1>2, <2>2
  <2> QED
    BY <2>1, <2>2, <2>3, Zenon
<1> QED
  BY <1>1, <1>2, <1>3 DEF Joins

LEMMA ExpressionsHave ==
    ASSUME NEW job \in {"full", "log"}, NEW exprs \in SUBSET Expr
    PROVE  /\ Expressions(job, exprs) \in Seq(NewEntry)
           /\ Len(Expressions(job, exprs)) = IF exprs = {} THEN 0 ELSE 1
           /\ exprs # {} => /\ Expressions(job, exprs)[1].job = job
                            /\ Expressions(job, exprs)[1].expr \in exprs
<1>1. CASE exprs = {}
  <2>1. Expressions(job, exprs) = <<>>
    BY <1>1 DEF Expressions
  <2>2. PICK none \in Seq(NewEntry) : none = <<>> /\ Len(none) = 0
    BY EmptySeq
  <2>3. Expressions(job, exprs) = none
    BY <2>1, <2>2, Zenon
  <2>4. none \in Seq(NewEntry) /\ Len(none) = IF exprs = {} THEN 0 ELSE 1
    BY <1>1, <2>2
  <2> QED
    BY <1>1, <2>3, <2>4, Zenon
<1>2. CASE exprs # {}
  <2>1. PICK expr : expr = CHOOSE e \in exprs : TRUE
    OBVIOUS
  <2>2. expr \in exprs
    BY <1>2, <2>1
  <2>3. PICK new : new = [job |-> job, expr |-> expr]
    OBVIOUS
  <2>4. new \in NewEntry /\ new.job = job /\ new.expr = expr
    BY <2>2, <2>3 DEF NewEntry
  <2>5. Expressions(job, exprs) = <<new>>
    BY <1>2, <2>1, <2>3 DEF Expressions
  <2> QED
    BY <1>2, <2>2, <2>4, <2>5
<1> QED
  BY <1>1, <1>2

LEMMA OwnJobsHave ==
    /\ OwnJobs \in Seq(NewEntry) /\ Len(OwnJobs) = 2
    /\ OwnJobs[1].job = "self" /\ OwnJobs[1].expr = "own"
    /\ OwnJobs[2].job = "retention" /\ OwnJobs[2].expr = "own"
<1>1. PICK self, retention :
         /\ self = [job |-> "self", expr |-> "own"]
         /\ retention = [job |-> "retention", expr |-> "own"]
  OBVIOUS
<1>2. self \in NewEntry /\ retention \in NewEntry
  BY <1>1 DEF NewEntry
<1>3. OwnJobs = <<self, retention>>
  BY <1>1 DEF OwnJobs
<1> QED
  BY <1>1, <1>2, <1>3

(* Where each job stands among the jobs of a configuration. *)
Count(exprs) == IF exprs = {} THEN 0 ELSE 1

LEMMA JobsHave ==
    ASSUME NEW cfg \in Config
    PROVE  /\ Jobs(cfg) \in Seq(NewEntry)
           /\ Len(Jobs(cfg)) = Count(cfg.full) + Count(cfg.log) + 2
           /\ cfg.full # {} => Jobs(cfg)[1].job = "full" /\ Jobs(cfg)[1].expr \in cfg.full
           /\ cfg.log # {} => /\ Jobs(cfg)[Count(cfg.full) + 1].job = "log"
                              /\ Jobs(cfg)[Count(cfg.full) + 1].expr \in cfg.log
           /\ Jobs(cfg)[Count(cfg.full) + Count(cfg.log) + 1] = OwnJobs[1]
           /\ Jobs(cfg)[Count(cfg.full) + Count(cfg.log) + 2] = OwnJobs[2]
<1>1. PICK full, log, own : /\ full = Expressions("full", cfg.full)
                            /\ log = Expressions("log", cfg.log) /\ own = OwnJobs
  OBVIOUS
<1>2. PICK f, l : f = Count(cfg.full) /\ l = Count(cfg.log)
  OBVIOUS
<1>3. cfg.full \in SUBSET Expr /\ cfg.log \in SUBSET Expr
  BY DEF Config
<1>4. /\ full \in Seq(NewEntry) /\ Len(full) = f
      /\ cfg.full # {} => full[1].job = "full" /\ full[1].expr \in cfg.full
  BY <1>1, <1>2, <1>3, ExpressionsHave DEF Count
<1>5. /\ log \in Seq(NewEntry) /\ Len(log) = l
      /\ cfg.log # {} => log[1].job = "log" /\ log[1].expr \in cfg.log
  BY <1>1, <1>2, <1>3, ExpressionsHave DEF Count
<1>6. own = OwnJobs /\ own \in Seq(NewEntry) /\ Len(own) = 2
  BY <1>1, OwnJobsHave
<1>7. /\ f \in {0, 1} /\ l \in {0, 1}
      /\ cfg.full # {} => f = 1
      /\ cfg.log # {} => l = 1
  BY <1>2 DEF Count
<1>8. PICK both : both = full \o log
  OBVIOUS
<1>9. /\ both \in Seq(NewEntry) /\ Len(both) = f + l
      /\ \A n \in 1..f : both[n] = full[n]
      /\ \A n \in 1..l : both[f + n] = log[n]
  <2>1. both \in Seq(NewEntry) /\ Joins(both, full, log)
    BY <1>4, <1>5, <1>8, Joined, Zenon
  <2> QED
    BY <1>4, <1>5, <2>1 DEF Joins
<1>10. PICK jobs : jobs = both \o own
  OBVIOUS
<1>11. /\ jobs \in Seq(NewEntry) /\ Len(jobs) = f + l + 2
       /\ \A n \in 1..f + l : jobs[n] = both[n]
       /\ \A n \in 1..2 : jobs[f + l + n] = own[n]
  <2>1. jobs \in Seq(NewEntry) /\ Joins(jobs, both, own)
    BY <1>6, <1>9, <1>10, Joined, Zenon
  <2> QED
    BY <1>6, <1>9, <2>1 DEF Joins
<1>12. jobs = Jobs(cfg)
  <2>1. Jobs(cfg) = (full \o log) \o own
    BY <1>1, Zenon DEF Jobs
  <2> QED
    BY <1>8, <1>10, <2>1, Zenon
<1>13. cfg.full # {} => jobs[1] = full[1]
  BY <1>7, <1>9, <1>11
<1>14. cfg.log # {} => jobs[f + 1] = log[1]
  BY <1>7, <1>9, <1>11
<1>15. jobs[f + l + 1] = own[1] /\ jobs[f + l + 2] = own[2]
  BY <1>11
<1> QED
  BY <1>2, <1>4, <1>5, <1>6, <1>11, <1>12, <1>13, <1>14, <1>15

(* Each job stands in one place, and its expression is one the user typed  *)
(* or the program's own.                                                   *)
JobAt(cfg, n) ==
    \/ /\ Jobs(cfg)[n].job = "full" /\ Jobs(cfg)[n].expr \in cfg.full
       /\ n = 1 /\ cfg.full # {}
    \/ /\ Jobs(cfg)[n].job = "log" /\ Jobs(cfg)[n].expr \in cfg.log
       /\ n = Count(cfg.full) + 1 /\ cfg.log # {}
    \/ /\ Jobs(cfg)[n].job = "self" /\ Jobs(cfg)[n].expr = "own"
       /\ n = Count(cfg.full) + Count(cfg.log) + 1
    \/ /\ Jobs(cfg)[n].job = "retention" /\ Jobs(cfg)[n].expr = "own"
       /\ n = Count(cfg.full) + Count(cfg.log) + 2

LEMMA JobsAt ==
    ASSUME NEW cfg \in Config, NEW n \in 1..Len(Jobs(cfg))
    PROVE  JobAt(cfg, n)
<1>1. PICK f, l : f = Count(cfg.full) /\ l = Count(cfg.log)
  OBVIOUS
<1>2. /\ f \in {0, 1} /\ l \in {0, 1}
      /\ f = 1 => cfg.full # {}
      /\ l = 1 => cfg.log # {}
  BY <1>1 DEF Count
<1>3. PICK jobs : jobs = Jobs(cfg)
  OBVIOUS
<1>4. /\ Len(jobs) = f + l + 2
      /\ cfg.full # {} => jobs[1].job = "full" /\ jobs[1].expr \in cfg.full
      /\ cfg.log # {} => jobs[f + 1].job = "log" /\ jobs[f + 1].expr \in cfg.log
      /\ jobs[f + l + 1] = OwnJobs[1] /\ jobs[f + l + 2] = OwnJobs[2]
  BY <1>1, <1>3, JobsHave
<1>5. /\ jobs[f + l + 1].job = "self" /\ jobs[f + l + 1].expr = "own"
      /\ jobs[f + l + 2].job = "retention" /\ jobs[f + l + 2].expr = "own"
  BY <1>4, OwnJobsHave
<1>6. n \in 1..f + l + 2
  BY <1>3, <1>4
<1>7. \/ n = 1 /\ f = 1
      \/ n = f + 1 /\ l = 1
      \/ n = f + l + 1
      \/ n = f + l + 2
  BY <1>2, <1>6
<1> QED
  BY <1>1, <1>2, <1>3, <1>4, <1>5, <1>7 DEF JobAt

LEMMA JobsDiffer ==
    ASSUME NEW cfg \in Config, NEW m \in 1..Len(Jobs(cfg)), NEW n \in 1..Len(Jobs(cfg)),
           Jobs(cfg)[m].job = Jobs(cfg)[n].job
    PROVE  m = n
BY JobsAt DEF JobAt

LEMMA JobsParse ==
    ASSUME NEW cfg \in Config, ValidConfig(cfg), NEW n \in 1..Len(Jobs(cfg))
    PROVE  Parses(Jobs(cfg)[n])
BY JobsAt DEF JobAt, ValidConfig, Parses

(* The configuration nobody saved is not one.                              *)
LEMMA NoConfigOther ==
    /\ NoConfig \notin Config
    /\ DefaultConfig \in Config /\ DefaultConfig # NoConfig
<1>1. NoConfig \notin Config
  <2>1. DOMAIN NoConfig = {"full"}
    BY DEF NoConfig
  <2>2. \A cfg \in Config : DOMAIN cfg = {"full", "log"}
    BY DEF Config
  <2> QED
    BY <2>1, <2>2
<1>2. DefaultConfig \in Config
  BY SchedulerAssumption DEF Config
<1> QED
  BY <1>1, <1>2

-----------------------------------------------------------------------------
(* Types, for any number of goroutines of the form.                        *)
FiringsOf(job, c) ==
    {<<c, n>> : n \in {k \in DOMAIN crons[c].entries : crons[c].entries[k].job = job}}

LEMMA FiringsFinite ==
    ASSUME TypeOK, NEW job
    PROVE  IsFiniteSet(Firings(job))
<1> DEFINE R == {d \in DOMAIN crons : crons[d].running}
           F == [c \in R |-> FiringsOf(job, c)]
           T == {FiringsOf(job, c) : c \in R}
<1>1. IsFiniteSet(R)
  <2>1. DOMAIN crons = 1..MaxCrons /\ IsFiniteSet(1..MaxCrons)
    BY FS_Interval, SchedulerAssumption DEF TypeOK
  <2>2. R \in SUBSET (1..MaxCrons)
    BY <2>1
  <2> QED
    BY <2>1, <2>2, FS_Subset
<1>2. IsFiniteSet(T)
  <2>1. F \in Surjection(R, T)
    BY DEF Surjection
  <2> QED
    BY <1>1, <2>1, FS_Surjection
<1>3. ASSUME NEW c \in R
      PROVE  IsFiniteSet(FiringsOf(job, c))
  <2>1. PICK entries : entries = crons[c].entries
    OBVIOUS
  <2>2. entries \in Seq(Entry)
    BY <2>1 DEF TypeOK, Cron
  <2>3. DOMAIN entries = 1..Len(entries) /\ Len(entries) \in Nat
    BY <2>2
  <2>4. IsFiniteSet(1..Len(entries)) /\ IsFiniteSet({c})
    <3>1. IsFiniteSet(1..Len(entries))
      BY <2>3, FS_Interval
    <3> QED
      BY <3>1, FS_Singleton
  <2>5. IsFiniteSet({c} \X (1..Len(entries)))
    BY <2>4, FS_Product
  <2>6. FiringsOf(job, c) \in SUBSET ({c} \X (1..Len(entries)))
    BY <2>1, <2>3 DEF FiringsOf
  <2> QED
    BY <2>5, <2>6, FS_Subset
<1>4. \A S \in T : IsFiniteSet(S)
  BY <1>3
<1>5. IsFiniteSet(UNION T)
  BY <1>2, <1>4, FS_UNION
<1>6. Firings(job) = UNION T
  BY DEF Firings, FiringsOf
<1> QED
  BY <1>5, <1>6

LEMMA DueFinite ==
    ASSUME TypeOK, NEW job, NEW h
    PROVE  IsFiniteSet(Due(job, h)) /\ Cardinality(Due(job, h)) \in Nat
<1>1. Due(job, h) \in SUBSET Firings(job)
  BY DEF Due
<1>2. IsFiniteSet(Due(job, h))
  BY <1>1, FiringsFinite, FS_Subset
<1> QED
  BY <1>2, FS_CardinalityType

LEMMA EntryOfType ==
    ASSUME NEW new \in NewEntry, Parses(new)
    PROVE  EntryOf(new) \in Entry /\ EntryOf(new).job = new.job
<1>1. new.job \in Job
  BY DEF NewEntry, Job
<1>2. HoursOf(new) \in SUBSET Hour
  <2>1. CASE new.job \in {"self", "retention"}
    BY <2>1 DEF HoursOf, SelfBackupHours, RetentionHours, Hour
  <2>2. CASE new.job \notin {"self", "retention"}
    <3>1. new.expr \in Expr
      BY <2>2 DEF NewEntry
    <3>2. new.expr \in Valid
      BY <3>1, SchedulerAssumption DEF Parses
    <3> QED
      BY <2>2, <3>2, SchedulerAssumption DEF HoursOf
  <2> QED
    BY <2>1, <2>2
<1> QED
  BY <1>1, <1>2 DEF EntryOf, Entry

LEMMA FreshType == FreshCron \in Cron /\ Len(FreshCron.entries) = 0
<1>1. PICK none \in Seq(Entry) : none = <<>> /\ Len(none) = 0
  BY EmptySeq
<1>2. FreshCron = [entries |-> none, running |-> FALSE]
  BY <1>1 DEF FreshCron
<1> QED
  BY <1>1, <1>2 DEF Cron

LEMMA IdleType == IdleLoader \in Loader /\ IdleLoader.pc = "idle"
<1>1. PICK none \in Seq(NewEntry) : none = <<>>
  BY EmptySeq
<1>2. IdleLoader = [pc |-> "idle", cfg |-> NoConfig, todo |-> none]
  BY <1>1 DEF IdleLoader
<1> QED
  BY <1>1, <1>2 DEF Loader, LoaderPc

(* What the loaders hold: a cron is made for a configuration.              *)
LoadersOK ==
    /\ loader \in [Goroutine -> Loader]
    /\ \A g \in Goroutine : loader[g].pc = "new" => loader[g].cfg \in Config

LEMMA GotoLoaders ==
    ASSUME LoadersOK, NEW g \in Goroutine, NEW pc \in LoaderPc \ {"new"}, Goto(g, pc)
    PROVE  /\ LoadersOK' /\ \A h \in Goroutine \ {g} : loader'[h] = loader[h]
           /\ loader'[g].pc = pc /\ loader'[g].cfg = loader[g].cfg
<1>1. loader[g] \in Loader
  BY DEF LoadersOK
<1>2. PICK l : l = [loader[g] EXCEPT !.pc = pc]
  OBVIOUS
<1>3. l \in Loader /\ l.pc = pc /\ l.cfg = loader[g].cfg
  BY <1>1, <1>2 DEF Loader
<1>4. loader' = [loader EXCEPT ![g] = l]
  BY <1>2 DEF Goto
<1> QED
  BY <1>3, <1>4 DEF LoadersOK

LEMMA DoneLoaders ==
    ASSUME LoadersOK, NEW g \in Goroutine, Done(g)
    PROVE  /\ LoadersOK' /\ \A h \in Goroutine \ {g} : loader'[h] = loader[h]
           /\ loader'[g].pc = "idle"
BY IdleType DEF LoadersOK, Done

(* The new state of one that is given a configuration, or the jobs of one. *)
LEMMA GivenLoaders ==
    ASSUME LoadersOK, NEW g \in Goroutine, NEW l \in Loader,
           l.pc = "new" => l.cfg \in Config, loader' = [loader EXCEPT ![g] = l]
    PROVE  LoadersOK' /\ loader'[g] = l /\ \A h \in Goroutine \ {g} : loader'[h] = loader[h]
BY DEF LoadersOK

LEMMA SaveLoads ==
    ASSUME LoadersOK, NEW g \in Goroutine, UserSaves(g)
    PROVE  \E cfg \in Config :
              loader' = [loader EXCEPT ![g] = [loader[g] EXCEPT !.pc = "save", !.cfg = cfg]]
<1>1. PICK full, log \in {{}} \cup {{expr} : expr \in Expr} :
         loader' = [loader EXCEPT ![g].pc = "save", ![g].cfg = [full |-> full, log |-> log]]
  BY DEF UserSaves
<1>2. full \in SUBSET Expr /\ log \in SUBSET Expr
  OBVIOUS
<1>3. PICK cfg : cfg = [full |-> full, log |-> log]
  OBVIOUS
<1>4. cfg \in Config
  BY <1>2, <1>3 DEF Config
<1>5. loader' = [loader EXCEPT ![g].pc = "save", ![g].cfg = cfg]
  BY <1>1, <1>3
<1>6. loader' = [loader EXCEPT ![g] = [loader[g] EXCEPT !.pc = "save", !.cfg = cfg]]
  BY ONLY <1>5, LoadersOK DEF LoadersOK, Loader
<1> QED
  BY <1>4, <1>6

LEMMA ReadLoads ==
    ASSUME LoadersOK, config \in Config \cup {NoConfig}, NEW g \in Goroutine, ReadConfig(g)
    PROVE  \E cfg \in Config :
              /\ config # NoConfig => cfg = config
              /\ loader' = [loader EXCEPT ![g] = [loader[g] EXCEPT !.pc = "new", !.cfg = cfg]]
<1>1. PICK cfg : cfg = IF config = NoConfig THEN DefaultConfig ELSE config
  OBVIOUS
<1>2. cfg \in Config /\ (config # NoConfig => cfg = config)
  BY <1>1, NoConfigOther
<1>3. loader' = [loader EXCEPT ![g].pc = "new", ![g].cfg = cfg]
  BY <1>1 DEF ReadConfig
<1>4. loader' = [loader EXCEPT ![g] = [loader[g] EXCEPT !.pc = "new", !.cfg = cfg]]
  BY ONLY <1>3, LoadersOK DEF LoadersOK, Loader
<1> QED
  BY <1>2, <1>4

LEMMA NewLoads ==
    ASSUME LoadersOK, NEW g \in Goroutine, NewCron(g)
    PROVE  /\ loader[g].cfg \in Config
           /\ \E todo \in Seq(NewEntry) :
                /\ todo = Jobs(loader[g].cfg)
                /\ loader' = [loader EXCEPT ![g] = [loader[g] EXCEPT !.pc = "add", !.todo = todo]]
<1>1. PICK todo : todo = Jobs(loader[g].cfg)
  OBVIOUS
<1>2. loader[g].cfg \in Config
  BY DEF LoadersOK, NewCron
<1>3. todo \in Seq(NewEntry)
  BY <1>1, <1>2, JobsHave
<1>4. loader' = [loader EXCEPT ![g].pc = "add", ![g].todo = todo]
  BY <1>1 DEF NewCron
<1>5. loader' = [loader EXCEPT ![g] = [loader[g] EXCEPT !.pc = "add", !.todo = todo]]
  BY ONLY <1>4, LoadersOK DEF LoadersOK, Loader
<1> QED
  BY <1>1, <1>2, <1>3, <1>5

LEMMA AddLoads ==
    ASSUME LoadersOK, NEW g \in Goroutine, loader[g].todo # <<>>,
           loader' = [loader EXCEPT ![g].todo = Tail(@)]
    PROVE  /\ Head(loader[g].todo) \in NewEntry
           /\ \E todo \in Seq(NewEntry) :
                /\ todo = Tail(loader[g].todo)
                /\ loader' = [loader EXCEPT ![g] = [loader[g] EXCEPT !.todo = todo]]
<1>1. PICK todo : todo = Tail(loader[g].todo)
  OBVIOUS
<1>2. loader[g].todo \in Seq(NewEntry)
  BY DEF LoadersOK, Loader
<1>3. todo \in Seq(NewEntry) /\ Head(loader[g].todo) \in NewEntry
  BY <1>1, <1>2, HeadTailProperties
<1>4. loader' = [loader EXCEPT ![g].todo = todo]
  BY <1>1
<1>5. loader' = [loader EXCEPT ![g] = [loader[g] EXCEPT !.todo = todo]]
  BY ONLY <1>4, LoadersOK DEF LoadersOK, Loader
<1> QED
  BY <1>1, <1>3, <1>5

(* The crons, of the steps that change one.                                *)
LEMMA FreshCrons ==
    ASSUME TypeOK, NEW c \in 1..MaxCrons, crons' = [crons EXCEPT ![c] = FreshCron]
    PROVE  /\ crons' \in [1..MaxCrons -> Cron] /\ crons'[c] = FreshCron
           /\ \A d \in 1..MaxCrons \ {c} : crons'[d] = crons[d]
BY FreshType DEF TypeOK

Appended(entries, entry, longer) ==
    /\ longer \in Seq(Entry) /\ Len(longer) = Len(entries) + 1
    /\ longer[Len(entries) + 1] = entry
    /\ \A n \in 1..Len(entries) : longer[n] = entries[n]

LEMMA AddedCrons ==
    ASSUME TypeOK, NEW c \in 1..MaxCrons, NEW entry \in Entry,
           crons' = [crons EXCEPT ![c].entries = Append(@, entry)]
    PROVE  /\ crons' \in [1..MaxCrons -> Cron] /\ crons'[c].running = crons[c].running
           /\ Appended(crons[c].entries, entry, crons'[c].entries)
           /\ \A d \in 1..MaxCrons \ {c} : crons'[d] = crons[d]
<1>1. PICK entries, longer : entries = crons[c].entries /\ longer = Append(entries, entry)
  OBVIOUS
<1>2. entries \in Seq(Entry)
  BY <1>1 DEF TypeOK, Cron
<1>3. Appended(entries, entry, longer)
  BY <1>1, <1>2 DEF Appended
<1>4. PICK cron1 : cron1 = [crons[c] EXCEPT !.entries = longer]
  OBVIOUS
<1>5. crons[c] \in Cron
  BY DEF TypeOK
<1>6. cron1 \in Cron /\ cron1.entries = longer /\ cron1.running = crons[c].running
  BY <1>3, <1>4, <1>5 DEF Cron, Appended
<1>7. crons' = [crons EXCEPT ![c] = cron1]
  BY <1>1, <1>4
<1>8. /\ crons' \in [1..MaxCrons -> Cron] /\ crons'[c] = cron1
      /\ \A d \in 1..MaxCrons \ {c} : crons'[d] = crons[d]
  BY <1>6, <1>7 DEF TypeOK
<1>9. crons'[c].entries = longer
  BY <1>6, <1>8
<1>10. Appended(entries, entry, crons'[c].entries)
  BY <1>3, <1>9, Zenon
<1> QED
  BY <1>1, <1>6, <1>8, <1>10

LEMMA StartedCrons ==
    ASSUME TypeOK, NEW c \in 1..MaxCrons, crons' = [crons EXCEPT ![c].running = TRUE]
    PROVE  /\ crons' \in [1..MaxCrons -> Cron]
           /\ crons'[c].running /\ crons'[c].entries = crons[c].entries
           /\ \A d \in 1..MaxCrons \ {c} : crons'[d] = crons[d]
<1>1. crons[c] \in Cron
  BY DEF TypeOK
<1>2. PICK cron1 : cron1 = [crons[c] EXCEPT !.running = TRUE]
  OBVIOUS
<1>3. cron1 \in Cron /\ cron1.running /\ cron1.entries = crons[c].entries
  BY <1>1, <1>2 DEF Cron
<1>4. crons' = [crons EXCEPT ![c] = cron1]
  BY <1>2
<1> QED
  BY <1>3, <1>4 DEF TypeOK

TypeInv == TypeOK /\ LoadersOK

LEMMA TypeInvInit ==
    ASSUME Init
    PROVE  TypeInv
<1>1. loader \in [Goroutine -> Loader] /\ \A g \in Goroutine : loader[g].pc = "idle"
  BY IdleType DEF Init
<1>2. crons \in [1..MaxCrons -> Cron]
  BY FreshType DEF Init
<1>3. ran \in [Job -> Nat]
  BY DEF Init, NoRuns
<1>4. 0 \in 0..MaxCrons /\ 0 \in 0..MaxHours
  BY SchedulerAssumption
<1> QED
  BY <1>1, <1>2, <1>3, <1>4 DEF Init, TypeInv, TypeOK, LoadersOK

(* The steps of a goroutine inside Start or Reload.                        *)
LEMMA LoadKeepsTypes ==
    ASSUME TypeInv, NEW g \in Goroutine, Load(g)
    PROVE  TypeInv'
<1>1. /\ TypeOK /\ LoadersOK
      /\ loader[g] \in Loader /\ config \in Config \cup {NoConfig}
  BY DEF TypeInv, TypeOK
<1>2. 0 \in 0..MaxCrons /\ (cron # 0 => cron \in 1..MaxCrons)
  BY <1>1, SchedulerAssumption DEF TypeOK
<1>3. CASE StopTest(g)
  <2>1. PICK pc \in {"stopping", "read"} : Goto(g, pc)
    BY <1>3 DEF StopTest
  <2>2. LoadersOK'
    BY <1>1, <2>1, GotoLoaders DEF LoaderPc
  <2> QED
    BY <1>1, <1>3, <2>2 DEF TypeInv, TypeOK, LoadersOK, StopTest
<1>4. CASE StopCron(g)
  <2>1. LoadersOK'
    BY <1>1, <1>4, GotoLoaders DEF LoaderPc, StopCron
  <2>2. crons' \in [1..MaxCrons -> Cron]
    BY <1>1, <1>2, <1>4, FreshCrons DEF StopCron, TypeOK
  <2>3. nilUsed' \in BOOLEAN /\ cron' \in 0..MaxCrons
    BY <1>1, <1>2, <1>4 DEF StopCron, TypeOK
  <2> QED
    BY <1>1, <1>4, <2>1, <2>2, <2>3 DEF TypeInv, TypeOK, LoadersOK, StopCron
<1>5. CASE ReadConfig(g)
  <2>1. PICK cfg \in Config :
           loader' = [loader EXCEPT ![g] = [loader[g] EXCEPT !.pc = "new", !.cfg = cfg]]
    BY <1>1, <1>5, ReadLoads
  <2>2. PICK l : l = [loader[g] EXCEPT !.pc = "new", !.cfg = cfg]
    OBVIOUS
  <2>3. l \in Loader /\ l.cfg \in Config
    BY <1>1, <2>2 DEF Loader, LoaderPc
  <2>4. LoadersOK'
    BY <1>1, <2>1, <2>2, <2>3, GivenLoaders
  <2> QED
    BY <1>1, <1>5, <2>4 DEF TypeInv, TypeOK, LoadersOK, ReadConfig
<1>6. CASE NewCron(g)
  <2>1. PICK todo \in Seq(NewEntry) :
           loader' = [loader EXCEPT ![g] = [loader[g] EXCEPT !.pc = "add", !.todo = todo]]
    BY <1>1, <1>6, NewLoads
  <2>2. PICK l : l = [loader[g] EXCEPT !.pc = "add", !.todo = todo]
    OBVIOUS
  <2>3. l \in Loader /\ l.pc = "add"
    BY <1>1, <2>2 DEF Loader, LoaderPc
  <2>4. LoadersOK'
    BY <1>1, <2>1, <2>2, <2>3, GivenLoaders
  <2>5. PICK c \in 1..MaxCrons : crons' = [crons EXCEPT ![c] = FreshCron] /\ cron' = c
    BY <1>6 DEF NewCron
  <2>6. crons' \in [1..MaxCrons -> Cron] /\ cron' \in 0..MaxCrons
    <3>1. crons' \in [1..MaxCrons -> Cron]
      BY <1>1, <2>5, FreshCrons
    <3> QED
      BY <2>5, <3>1, SchedulerAssumption
  <2> QED
    BY <1>1, <1>6, <2>4, <2>6 DEF TypeInv, TypeOK, LoadersOK, NewCron
<1>7. CASE AddEntry(g)
  <2>1. /\ Head(loader[g].todo) \in NewEntry
        /\ \E todo \in Seq(NewEntry) :
              loader' = [loader EXCEPT ![g] = [loader[g] EXCEPT !.todo = todo]]
    BY <1>1, <1>7, AddLoads DEF AddEntry
  <2>2. PICK todo \in Seq(NewEntry) :
           loader' = [loader EXCEPT ![g] = [loader[g] EXCEPT !.todo = todo]]
    BY <2>1
  <2>3. PICK l : l = [loader[g] EXCEPT !.todo = todo]
    OBVIOUS
  <2>4. l \in Loader /\ l.pc = "add"
    BY <1>1, <1>7, <2>3 DEF Loader, AddEntry
  <2>5. LoadersOK'
    BY <1>1, <2>2, <2>3, <2>4, GivenLoaders
  <2>6. PICK entry : entry = EntryOf(Head(loader[g].todo))
    OBVIOUS
  <2>7. entry \in Entry
    BY <1>7, <2>1, <2>6, EntryOfType DEF AddEntry
  <2>8. crons' \in [1..MaxCrons -> Cron]
    <3>1. CASE cron = 0
      BY <1>1, <1>7, <3>1 DEF AddEntry, TypeOK
    <3>2. CASE cron # 0
      <4>1. crons' = [crons EXCEPT ![cron].entries = Append(@, entry)]
        BY <1>7, <2>6, <3>2 DEF AddEntry
      <4> QED
        BY <1>1, <1>2, <2>7, <3>2, <4>1, AddedCrons
    <3> QED
      BY <3>1, <3>2
  <2>9. nilUsed' \in BOOLEAN
    BY <1>1, <1>7 DEF AddEntry, TypeOK
  <2> QED
    BY <1>1, <1>7, <2>5, <2>8, <2>9 DEF TypeInv, TypeOK, LoadersOK, AddEntry
<1>8. CASE AddFails(g)
  <2>1. LoadersOK'
    BY <1>1, <1>8, DoneLoaders DEF AddFails
  <2> QED
    BY <1>1, <1>8, <2>1 DEF TypeInv, TypeOK, LoadersOK, AddFails
<1>9. CASE StartCron(g)
  <2>1. LoadersOK'
    BY <1>1, <1>9, DoneLoaders DEF StartCron
  <2>2. crons' \in [1..MaxCrons -> Cron]
    BY <1>1, <1>2, <1>9, StartedCrons DEF StartCron, TypeOK
  <2>3. nilUsed' \in BOOLEAN
    BY <1>1, <1>9 DEF StartCron, TypeOK
  <2> QED
    BY <1>1, <1>9, <2>1, <2>2, <2>3 DEF TypeInv, TypeOK, LoadersOK, StartCron
<1> QED
  BY <1>3, <1>4, <1>5, <1>6, <1>7, <1>8, <1>9 DEF Load

LEMMA TypeInvKept ==
    ASSUME TypeInv, [Next]_vars
    PROVE  TypeInv'
<1>1. /\ TypeOK /\ LoadersOK
      /\ Main \in Goroutine /\ Savers \subseteq Goroutine
  BY DEF TypeInv, Goroutine
<1>2. CASE Boot
  <2>1. LoadersOK'
    BY <1>1, <1>2, GotoLoaders DEF Boot, LoaderPc
  <2> QED
    BY <1>1, <1>2, <2>1 DEF TypeInv, TypeOK, LoadersOK, Boot
<1>3. CASE SaveDefaults
  <2>1. LoadersOK'
    BY <1>1, <1>3, GotoLoaders DEF SaveDefaults, LoaderPc
  <2>2. config' \in Config \cup {NoConfig}
    BY <1>1, <1>3, NoConfigOther DEF SaveDefaults, TypeOK
  <2> QED
    BY <1>1, <1>3, <2>1, <2>2 DEF TypeInv, TypeOK, LoadersOK, SaveDefaults
<1>4. ASSUME NEW g \in Savers, UserSaves(g)
      PROVE  TypeInv'
  <2>1. PICK cfg \in Config :
           loader' = [loader EXCEPT ![g] = [loader[g] EXCEPT !.pc = "save", !.cfg = cfg]]
    BY <1>1, <1>4, SaveLoads
  <2>2. PICK l : l = [loader[g] EXCEPT !.pc = "save", !.cfg = cfg]
    OBVIOUS
  <2>3. l \in Loader /\ l.pc = "save"
    BY <1>1, <2>2 DEF LoadersOK, Loader, LoaderPc
  <2>4. LoadersOK'
    BY <1>1, <2>1, <2>2, <2>3, GivenLoaders
  <2> QED
    BY <1>1, <1>4, <2>4 DEF TypeInv, TypeOK, LoadersOK, UserSaves
<1>5. ASSUME NEW g \in Savers, SaveConfig(g)
      PROVE  TypeInv'
  <2>1. LoadersOK'
    BY <1>1, <1>5, GotoLoaders DEF SaveConfig, LoaderPc
  <2>2. config' \in Config \cup {NoConfig}
    BY <1>1, <1>5 DEF SaveConfig, LoadersOK, Loader
  <2> QED
    BY <1>1, <1>5, <2>1, <2>2 DEF TypeInv, TypeOK, LoadersOK, SaveConfig
<1>6. ASSUME NEW g \in Goroutine, Load(g)
      PROVE  TypeInv'
  BY <1>6, LoadKeepsTypes
<1>7. CASE ViewTest
  BY <1>1, <1>7 DEF TypeInv, TypeOK, LoadersOK, ViewTest
<1>8. CASE ViewEntries
  BY <1>1, <1>8 DEF TypeInv, TypeOK, LoadersOK, ViewEntries
<1>9. CASE Tick
  <2>1. ran' \in [Job -> Nat]
    <3>1. \A job \in Job : Cardinality(Due(job, (hour + 1) % 24)) \in Nat
      BY <1>1, DueFinite
    <3> QED
      BY <1>9, <3>1 DEF Tick
  <2>2. hour' \in 0..MaxHours
    BY <1>1, <1>9, SchedulerAssumption DEF Tick, TypeOK
  <2> QED
    BY <1>1, <1>9, <2>1, <2>2 DEF TypeInv, TypeOK, LoadersOK, Tick
<1>10. CASE Exit
  <2>1. crons' \in [1..MaxCrons -> Cron] /\ cron' \in 0..MaxCrons
    BY <1>10, FreshType, SchedulerAssumption DEF Exit
  <2>2. LoadersOK'
    BY <1>10, IdleType DEF Exit, LoadersOK
  <2> QED
    BY <1>1, <1>10, <2>1, <2>2 DEF TypeInv, TypeOK, LoadersOK, Exit
<1>11. CASE UNCHANGED vars
  BY <1>1, <1>11 DEF TypeInv, TypeOK, LoadersOK, vars
<1> QED
  BY <1>2, <1>3, <1>4, <1>5, <1>6, <1>7, <1>8, <1>9, <1>10, <1>11 DEF Next

(* The scheduler's variables have their types, whatever reloads run at the *)
(* same time: a goroutine that makes a cron holds a configuration, and the *)
(* jobs that are due at a change of hour are finitely many.                *)
THEOREM TypeOKHolds == Spec => []TypeOK
<1>1. Init => TypeInv
  BY TypeInvInit
<1>2. TypeInv /\ [Next]_vars => TypeInv'
  BY TypeInvKept
<1>3. TypeInv => TypeOK
  BY DEF TypeInv
<1> QED
  BY <1>1, <1>2, <1>3, PTL DEF Spec

-----------------------------------------------------------------------------
(* One goroutine of the form: what a step of the one at work leaves.       *)
Alone(g) == \A h \in Goroutine : AtWork(h) => h = g

CronsInv ==
    /\ \A c \in DOMAIN crons : c # cron => crons[c] = FreshCron
    /\ \A c \in DOMAIN crons : OneOfEach(crons[c].entries)

LEMMA FreshHasOne == OneOfEach(FreshCron.entries)
BY FreshType DEF OneOfEach, Cron

LEMMA WorkerAlone ==
    ASSUME SchedulerInv, NEW g \in Goroutine, AtWork(g)
    PROVE  Alone(g)
BY DEF SchedulerInv, Alone

LEMMA IdleIsFine ==
    ASSUME NEW g, loader[g].pc = "idle"
    PROVE  LoaderInv(g) /\ ~AtWork(g)
BY DEF LoaderInv, AtWork

(* When one goroutine goes on, it is the only one to look at.              *)
LEMMA WorkerSteps ==
    ASSUME SchedulerInv, NEW g \in Goroutine, Alone(g),
           \A h \in Goroutine \ {g} : loader'[h] = loader[h]
    PROVE  /\ \A h \in Goroutine \ {g} : LoaderInv(h)' /\ ~AtWork(h)'
           /\ \A h, i \in Goroutine : AtWork(h)' /\ AtWork(i)' => h = i
<1>1. ASSUME NEW h \in Goroutine \ {g}
      PROVE  LoaderInv(h)' /\ ~AtWork(h)'
  <2>1. loader[h].pc = "idle"
    BY DEF Alone, AtWork
  <2>2. loader'[h].pc = "idle"
    BY <2>1
  <2> QED
    BY <2>2 DEF LoaderInv, AtWork
<1> QED
  BY <1>1

LEMMA OneAtWork ==
    ASSUME SchedulerInv, OneSaver, NEW g \in Savers, UserSaves(g)
    PROVE  Quiet /\ Alone(g)
BY DEF OneSaver, UserSaves, Quiet, Goroutine, Alone, AtWork

(* The jobs that have been added differ.                                   *)
LEMMA BeginsDiffer ==
    ASSUME NEW cfg \in Config, NEW entries \in Seq(Entry), Begins(entries, cfg)
    PROVE  OneOfEach(entries)
<1>1. ASSUME NEW n \in DOMAIN entries
      PROVE  n \in 1..Len(Jobs(cfg)) /\ entries[n].job = Jobs(cfg)[n].job
  <2>1. n \in 1..Len(entries)
    OBVIOUS
  <2>2. /\ n <= Len(Jobs(cfg)) /\ Parses(Jobs(cfg)[n])
        /\ entries[n] = EntryOf(Jobs(cfg)[n])
    BY <2>1 DEF Begins
  <2>3. n \in 1..Len(Jobs(cfg)) /\ Jobs(cfg)[n] \in NewEntry
    BY <2>1, <2>2, JobsHave
  <2> QED
    BY <2>2, <2>3, EntryOfType
<1> QED
  BY <1>1, JobsDiffer DEF OneOfEach

(* One job is added to a cron that has the first ones.                     *)
LEMMA AddedBegins ==
    ASSUME NEW cfg \in Config, NEW entries \in Seq(Entry), NEW longer,
           NEW n, n = Len(entries) + 1, n <= Len(Jobs(cfg)), Parses(Jobs(cfg)[n]),
           Appended(entries, EntryOf(Jobs(cfg)[n]), longer), Begins(entries, cfg)
    PROVE  Begins(longer, cfg)
<1>1. Len(entries) \in Nat
  OBVIOUS
<1>2. Len(longer) = n /\ longer[n] = EntryOf(Jobs(cfg)[n])
  <2>1. longer[Len(entries) + 1] = EntryOf(Jobs(cfg)[n]) /\ Len(longer) = Len(entries) + 1
    BY DEF Appended
  <2> QED
    BY <2>1, Zenon
<1>3. ASSUME NEW m \in 1..Len(longer)
      PROVE  m <= Len(Jobs(cfg)) /\ Parses(Jobs(cfg)[m]) /\ longer[m] = EntryOf(Jobs(cfg)[m])
  <2>1. CASE m = n
    BY <1>2, <2>1
  <2>2. CASE m # n
    <3>1. m \in 1..Len(entries)
      BY <1>1, <1>2, <2>2
    <3> QED
      BY <3>1 DEF Appended, Begins
  <2> QED
    BY <2>1, <2>2
<1> QED
  BY <1>3 DEF Begins

LEMMA InvTypes ==
    ASSUME SchedulerInv
    PROVE  TypeInv
BY DEF SchedulerInv, TypeInv, TypeOK, LoadersOK, LoaderInv

(* What a step of the one at work has to show.                             *)
LEMMA WorkerKeeps ==
    ASSUME SchedulerInv, TypeInv', NEW g \in Goroutine, Alone(g),
           \A h \in Goroutine \ {g} : loader'[h] = loader[h],
           LoaderInv(g)', CronsInv', up, UNCHANGED <<up, view, ran>>,
           AtWork(Main)' => AtWork(Main),
           ~AtWork(g)' => (cron # 0 /\ config # NoConfig /\ Loaded)'
    PROVE  SchedulerInv'
<1>1. /\ \A h \in Goroutine : LoaderInv(h)'
      /\ \A h, i \in Goroutine : AtWork(h)' /\ AtWork(i)' => h = i
  BY WorkerSteps
<1>2. TypeOK'
  BY DEF TypeInv
<1>3. Quiet' => (cron # 0 /\ config # NoConfig /\ Loaded)'
  BY DEF Quiet, AtWork
<1>4. view' = "tested" => up' /\ ~AtWork(Main)'
  BY DEF SchedulerInv
<1>5. ~up' => cron' = 0
  OBVIOUS
<1>6. \A job \in Job : ran'[job] <= 1
  BY DEF SchedulerInv
<1> QED
  BY <1>1, <1>2, <1>3, <1>4, <1>5, <1>6 DEF SchedulerInv, CronsInv

LEMMA CronsStay ==
    ASSUME SchedulerInv, UNCHANGED <<cron, crons>>
    PROVE  CronsInv'
BY DEF SchedulerInv, CronsInv

LEMMA BootKeeps ==
    ASSUME SchedulerInv, TypeInv', Boot
    PROVE  SchedulerInv'
<1>1. Main \in Goroutine /\ TypeInv /\ LoadersOK
  BY InvTypes DEF Goroutine, TypeInv
<1>2. /\ Goto(Main, "boot") /\ up' /\ ~up
      /\ UNCHANGED <<config, cron, crons, view, nilUsed, hour, ran>>
  BY DEF Boot
<1>3. \A g \in Goroutine : ~AtWork(g)
  BY <1>2 DEF SchedulerInv, LoaderInv
<1>4. loader'[Main].pc = "boot" /\ \A h \in Goroutine \ {Main} : loader'[h] = loader[h]
  BY <1>1, <1>2, GotoLoaders DEF LoaderPc
<1>5. /\ \A h \in Goroutine \ {Main} : LoaderInv(h)' /\ ~AtWork(h)'
      /\ \A h, i \in Goroutine : AtWork(h)' /\ AtWork(i)' => h = i
  BY <1>1, <1>3, <1>4, WorkerSteps DEF Alone
<1>6. cron = 0 /\ view # "tested"
  BY <1>2 DEF SchedulerInv
<1>7. LoaderInv(Main)'
  BY <1>2, <1>4, <1>6 DEF LoaderInv, AtWork
<1>8. CronsInv'
  BY <1>2, CronsStay
<1>9. ~Quiet'
  BY <1>1, <1>4 DEF Quiet
<1>10. TypeOK' /\ \A job \in Job : ran'[job] <= 1
  BY <1>2 DEF TypeInv, SchedulerInv
<1> QED
  BY <1>2, <1>5, <1>6, <1>7, <1>8, <1>9, <1>10 DEF SchedulerInv, CronsInv

LEMMA DefaultsKeep ==
    ASSUME SchedulerInv, TypeInv', SaveDefaults
    PROVE  SchedulerInv'
<1>1. Main \in Goroutine /\ TypeInv /\ LoadersOK
  BY InvTypes DEF Goroutine, TypeInv
<1>2. /\ loader[Main].pc = "boot" /\ Goto(Main, "read")
      /\ UNCHANGED <<up, cron, crons, view, nilUsed, hour, ran>>
      /\ config' = IF config = NoConfig THEN DefaultConfig ELSE config
  BY DEF SaveDefaults
<1>3. loader'[Main].pc = "read" /\ \A h \in Goroutine \ {Main} : loader'[h] = loader[h]
  BY <1>1, <1>2, GotoLoaders DEF LoaderPc
<1>4. AtWork(Main) /\ Alone(Main) /\ LoaderInv(Main)
  BY <1>1, <1>2, WorkerAlone DEF AtWork, SchedulerInv
<1>5. up /\ cron = 0 /\ config' # NoConfig
  BY <1>2, <1>4, NoConfigOther DEF LoaderInv
<1>6. LoaderInv(Main)' /\ AtWork(Main)'
  BY <1>2, <1>3, <1>5 DEF LoaderInv, AtWork
<1> QED
  BY <1>1, <1>2, <1>3, <1>4, <1>5, <1>6, CronsStay, WorkerKeeps

LEMMA UserSavesKeeps ==
    ASSUME SchedulerInv, OneSaver, TypeInv', NEW g \in Savers, UserSaves(g)
    PROVE  SchedulerInv'
<1>1. g \in Goroutine /\ TypeInv /\ LoadersOK /\ g # Main
  BY InvTypes, SchedulerAssumption DEF Goroutine, TypeInv
<1>2. up /\ UNCHANGED <<up, config, cron, crons, view, nilUsed, hour, ran>>
  BY DEF UserSaves
<1>3. Quiet /\ Alone(g)
  BY OneAtWork
<1>4. cron # 0 /\ config # NoConfig
  BY <1>3 DEF SchedulerInv
<1>5. PICK cfg \in Config :
         loader' = [loader EXCEPT ![g] = [loader[g] EXCEPT !.pc = "save", !.cfg = cfg]]
  BY <1>1, SaveLoads
<1>6. PICK l : l = [loader[g] EXCEPT !.pc = "save", !.cfg = cfg]
  OBVIOUS
<1>7. l \in Loader /\ l.pc = "save" /\ l.cfg \in Config
  BY <1>1, <1>6 DEF LoadersOK, Loader, LoaderPc
<1>8. loader'[g] = l /\ \A h \in Goroutine \ {g} : loader'[h] = loader[h]
  BY <1>1, <1>5, <1>6, <1>7, GivenLoaders
<1>9. LoaderInv(g)' /\ AtWork(g)'
  BY <1>2, <1>4, <1>7, <1>8 DEF LoaderInv, AtWork
<1>10. AtWork(Main)' => AtWork(Main)
  BY <1>1, <1>8 DEF AtWork, Goroutine
<1> QED
  BY <1>1, <1>2, <1>3, <1>8, <1>9, <1>10, CronsStay, WorkerKeeps

LEMMA SaveConfigKeeps ==
    ASSUME SchedulerInv, TypeInv', NEW g \in Savers, SaveConfig(g)
    PROVE  SchedulerInv'
<1>1. g \in Goroutine /\ TypeInv /\ LoadersOK
  BY InvTypes DEF Goroutine, TypeInv
<1>2. /\ loader[g].pc = "save" /\ config' = loader[g].cfg /\ Goto(g, "stop")
      /\ UNCHANGED <<up, cron, crons, view, nilUsed, hour, ran>>
  BY DEF SaveConfig
<1>3. loader'[g].pc = "stop" /\ \A h \in Goroutine \ {g} : loader'[h] = loader[h]
  BY <1>1, <1>2, GotoLoaders DEF LoaderPc
<1>4. AtWork(g) /\ Alone(g) /\ LoaderInv(g)
  BY <1>1, <1>2, WorkerAlone DEF AtWork, SchedulerInv
<1>5. up /\ cron # 0 /\ config' # NoConfig
  BY <1>2, <1>4, NoConfigOther DEF LoaderInv
<1>6. LoaderInv(g)' /\ AtWork(g)'
  BY <1>2, <1>3, <1>5 DEF LoaderInv, AtWork
<1>7. AtWork(Main)' => AtWork(Main)
  BY <1>3, <1>4 DEF AtWork, Goroutine
<1> QED
  BY <1>1, <1>2, <1>3, <1>4, <1>5, <1>6, <1>7, CronsStay, WorkerKeeps

-----------------------------------------------------------------------------
(* Start and Stop, by the only goroutine at work.                          *)
LEMMA WorkerFacts ==
    ASSUME SchedulerInv, NEW g \in Goroutine, AtWork(g)
    PROVE  /\ TypeInv /\ TypeOK /\ LoadersOK /\ LoaderInv(g) /\ Alone(g)
           /\ up /\ (AtWork(Main) => g = Main)
           /\ loader[g] \in Loader /\ (cron # 0 => cron \in 1..MaxCrons)
<1>1. TypeInv /\ TypeOK /\ LoadersOK /\ LoaderInv(g) /\ Alone(g)
  BY InvTypes, WorkerAlone DEF TypeInv, SchedulerInv
<1>2. up /\ (AtWork(Main) => g = Main)
  BY <1>1 DEF LoaderInv, Alone, Goroutine
<1>3. loader[g] \in Loader /\ (cron # 0 => cron \in 1..MaxCrons)
  BY <1>1, SchedulerAssumption DEF TypeOK
<1> QED
  BY <1>1, <1>2, <1>3

LEMMA MainStays ==
    ASSUME NEW g \in Goroutine, AtWork(g),
           \A h \in Goroutine \ {g} : loader'[h] = loader[h]
    PROVE  AtWork(Main)' => AtWork(Main)
BY DEF AtWork, Goroutine

LEMMA StopTestKeeps ==
    ASSUME SchedulerInv, TypeInv', NEW g \in Goroutine, StopTest(g)
    PROVE  SchedulerInv'
<1>1. /\ loader[g].pc = "stop" /\ Goto(g, IF cron # 0 THEN "stopping" ELSE "read")
      /\ UNCHANGED <<up, config, cron, crons, view, nilUsed, hour, ran>>
  BY DEF StopTest
<1>2. AtWork(g)
  BY <1>1 DEF AtWork
<1>3. LoadersOK /\ LoaderInv(g) /\ Alone(g) /\ up
  BY <1>2, WorkerFacts
<1>4. cron # 0 /\ config # NoConfig /\ g \in Savers
  BY <1>1, <1>3 DEF LoaderInv
<1>5. Goto(g, "stopping")
  BY <1>1, <1>4
<1>6. loader'[g].pc = "stopping" /\ \A h \in Goroutine \ {g} : loader'[h] = loader[h]
  BY <1>3, <1>5, GotoLoaders DEF LoaderPc
<1>7. LoaderInv(g)' /\ AtWork(g)'
  BY <1>1, <1>3, <1>4, <1>6 DEF LoaderInv, AtWork
<1> QED
  BY <1>1, <1>2, <1>3, <1>6, <1>7, CronsStay, MainStays, WorkerKeeps

LEMMA StopCronKeeps ==
    ASSUME SchedulerInv, TypeInv', NEW g \in Goroutine, StopCron(g)
    PROVE  SchedulerInv' /\ UNCHANGED nilUsed
<1>1. /\ loader[g].pc = "stopping" /\ Goto(g, "read") /\ cron' = 0
      /\ UNCHANGED <<up, config, view, hour, ran>>
  BY DEF StopCron
<1>2. AtWork(g)
  BY <1>1 DEF AtWork
<1>3. TypeOK /\ LoadersOK /\ LoaderInv(g) /\ Alone(g) /\ up
  BY <1>2, WorkerFacts
<1>4. cron # 0 /\ config # NoConfig
  BY <1>1, <1>3 DEF LoaderInv
<1>5. crons' = [crons EXCEPT ![cron] = FreshCron] /\ UNCHANGED nilUsed /\ cron \in 1..MaxCrons
  BY <1>2, <1>4, WorkerFacts DEF StopCron
<1>6. \A c \in DOMAIN crons : crons'[c] = FreshCron
  BY <1>5 DEF SchedulerInv
<1>7. CronsInv'
  <2>1. DOMAIN crons' = DOMAIN crons
    BY <1>5
  <2> QED
    BY <1>6, <2>1, FreshHasOne DEF CronsInv
<1>8. loader'[g].pc = "read" /\ \A h \in Goroutine \ {g} : loader'[h] = loader[h]
  BY <1>1, <1>3, GotoLoaders DEF LoaderPc
<1>9. LoaderInv(g)' /\ AtWork(g)'
  BY <1>1, <1>3, <1>4, <1>8 DEF LoaderInv, AtWork
<1>10. SchedulerInv'
  BY <1>1, <1>2, <1>3, <1>7, <1>8, <1>9, MainStays, WorkerKeeps
<1> QED
  BY <1>5, <1>10

LEMMA ReadConfigKeeps ==
    ASSUME SchedulerInv, TypeInv', NEW g \in Goroutine, ReadConfig(g)
    PROVE  SchedulerInv'
<1>1. /\ loader[g].pc = "read"
      /\ UNCHANGED <<up, config, cron, crons, view, nilUsed, hour, ran>>
  BY DEF ReadConfig
<1>2. AtWork(g)
  BY <1>1 DEF AtWork
<1>3. TypeOK /\ LoadersOK /\ LoaderInv(g) /\ Alone(g) /\ up /\ loader[g] \in Loader
  BY <1>2, WorkerFacts
<1>4. cron = 0 /\ config # NoConfig
  BY <1>1, <1>3 DEF LoaderInv
<1>5. PICK cfg \in Config :
         /\ cfg = config
         /\ loader' = [loader EXCEPT ![g] = [loader[g] EXCEPT !.pc = "new", !.cfg = cfg]]
  BY <1>3, <1>4, ReadLoads DEF TypeOK
<1>6. PICK l : l = [loader[g] EXCEPT !.pc = "new", !.cfg = cfg]
  OBVIOUS
<1>7. l \in Loader /\ l.pc = "new" /\ l.cfg = cfg
  BY <1>3, <1>6 DEF Loader, LoaderPc
<1>8. loader'[g] = l /\ \A h \in Goroutine \ {g} : loader'[h] = loader[h]
  BY <1>3, <1>5, <1>6, <1>7, GivenLoaders
<1>9. LoaderInv(g)' /\ AtWork(g)'
  BY <1>1, <1>3, <1>4, <1>5, <1>7, <1>8 DEF LoaderInv, AtWork
<1> QED
  BY <1>1, <1>2, <1>3, <1>8, <1>9, CronsStay, MainStays, WorkerKeeps

LEMMA NewCronKeeps ==
    ASSUME SchedulerInv, TypeInv', NEW g \in Goroutine, NewCron(g)
    PROVE  SchedulerInv'
<1>1. /\ loader[g].pc = "new"
      /\ UNCHANGED <<up, config, view, nilUsed, hour, ran>>
  BY DEF NewCron
<1>2. AtWork(g)
  BY <1>1 DEF AtWork
<1>3. TypeOK /\ LoadersOK /\ LoaderInv(g) /\ Alone(g) /\ up /\ loader[g] \in Loader
  BY <1>2, WorkerFacts
<1>4. cron = 0 /\ config # NoConfig /\ loader[g].cfg = config
  BY <1>1, <1>3 DEF LoaderInv
<1>5. PICK todo \in Seq(NewEntry) :
         /\ todo = Jobs(loader[g].cfg)
         /\ loader' = [loader EXCEPT ![g] = [loader[g] EXCEPT !.pc = "add", !.todo = todo]]
  BY <1>3, NewLoads
<1>6. PICK l : l = [loader[g] EXCEPT !.pc = "add", !.todo = todo]
  OBVIOUS
<1>7. l \in Loader /\ l.pc = "add" /\ l.todo = todo /\ l.cfg = config
  BY <1>3, <1>4, <1>6 DEF Loader, LoaderPc
<1>8. loader'[g] = l /\ \A h \in Goroutine \ {g} : loader'[h] = loader[h]
  BY <1>3, <1>5, <1>6, <1>7, GivenLoaders
<1>9. PICK c \in 1..MaxCrons : crons' = [crons EXCEPT ![c] = FreshCron] /\ cron' = c
  BY DEF NewCron
<1>10. /\ \A d \in 1..MaxCrons : crons'[d] = FreshCron
       /\ DOMAIN crons' = 1..MaxCrons
  BY <1>3, <1>4, <1>9, SchedulerAssumption DEF SchedulerInv, TypeOK
<1>11. CronsInv'
  BY <1>10, FreshHasOne DEF CronsInv
<1>12. cron' # 0 /\ crons'[cron'] = FreshCron
  BY <1>9, <1>10
<1>13. Loading(g)'
  <2>1. PICK entries : entries = FreshCron.entries
    OBVIOUS
  <2>2. entries = crons'[cron'].entries /\ ~crons'[cron'].running
    BY <1>12, <2>1 DEF FreshCron
  <2>3. Len(entries) = 0
    BY <2>1, FreshType
  <2>4. PICK cfg : cfg = config'
    OBVIOUS
  <2>5. todo = Jobs(cfg) /\ todo = loader'[g].todo
    BY <1>1, <1>4, <1>5, <1>7, <1>8, <2>4
  <2>6. Begins(entries, cfg)
    BY <2>3 DEF Begins
  <2>7. Len(entries) + Len(todo) = Len(Jobs(cfg)) /\ Len(todo) \in Nat
    BY <2>3, <2>5
  <2>8. \A n \in 1..Len(todo) : todo[n] = Jobs(cfg)[Len(entries) + n]
    BY <2>3, <2>5, <2>7
  <2> QED
    BY <2>2, <2>4, <2>5, <2>6, <2>7, <2>8 DEF Loading
<1>14. LoaderInv(g)' /\ AtWork(g)'
  BY <1>1, <1>3, <1>4, <1>7, <1>8, <1>12, <1>13 DEF LoaderInv, AtWork
<1> QED
  BY <1>1, <1>2, <1>3, <1>8, <1>11, <1>14, MainStays, WorkerKeeps

(* The jobs that have been added, and those still to add, are those of the *)
(* configuration.                                                          *)
AddsTo(entries, todo, cfg) ==
    /\ entries \in Seq(Entry) /\ todo \in Seq(NewEntry) /\ cfg \in Config
    /\ Begins(entries, cfg)
    /\ Len(entries) + Len(todo) = Len(Jobs(cfg))
    /\ \A n \in 1..Len(todo) : todo[n] = Jobs(cfg)[Len(entries) + n]

LEMMA AddFacts ==
    ASSUME SchedulerInv, NEW g \in Goroutine, loader[g].pc = "add"
    PROVE  /\ AtWork(g) /\ cron \in 1..MaxCrons /\ cron # 0 /\ config # NoConfig
           /\ loader[g].cfg = config /\ ~crons[cron].running
           /\ AddsTo(crons[cron].entries, loader[g].todo, config)
<1>1. AtWork(g)
  BY DEF AtWork
<1>2. /\ TypeOK /\ LoaderInv(g) /\ loader[g] \in Loader
      /\ cron # 0 => cron \in 1..MaxCrons
  BY <1>1, WorkerFacts
<1>3. cron # 0 /\ config # NoConfig /\ loader[g].cfg = config /\ Loading(g)
  BY <1>2 DEF LoaderInv
<1>4. crons[cron].entries \in Seq(Entry)
  BY <1>2, <1>3 DEF TypeOK, Cron
<1>5. loader[g].todo \in Seq(NewEntry) /\ config \in Config
  BY <1>2, <1>3 DEF TypeOK, Loader
<1> QED
  BY <1>1, <1>2, <1>3, <1>4, <1>5 DEF Loading, AddsTo

LEMMA NextToAdd ==
    ASSUME NEW entries, NEW todo, NEW cfg, AddsTo(entries, todo, cfg), todo # <<>>
    PROVE  LET n == Len(entries) + 1 IN
           /\ Len(entries) \in Nat /\ n <= Len(Jobs(cfg)) /\ n \in DOMAIN Jobs(cfg)
           /\ Head(todo) = Jobs(cfg)[n] /\ Jobs(cfg)[n] \in NewEntry
<1>1. PICK n, jobs : n = Len(entries) + 1 /\ jobs = Jobs(cfg)
  OBVIOUS
<1>2. Len(todo) \in Nat \ {0} /\ Len(entries) \in Nat /\ Head(todo) = todo[1]
  BY EmptySeq DEF AddsTo
<1>3. todo[1] = jobs[n]
  <2>1. 1 \in 1..Len(todo)
    BY <1>2
  <2>2. todo[1] = Jobs(cfg)[Len(entries) + 1]
    BY <2>1 DEF AddsTo
  <2> QED
    BY <1>1, <2>2, Zenon
<1>4. Len(entries) + Len(todo) = Len(jobs) /\ jobs \in Seq(NewEntry)
  BY <1>1, JobsHave DEF AddsTo
<1>5. n \in 1..Len(jobs) /\ n <= Len(jobs)
  BY <1>1, <1>2, <1>4
<1>6. jobs[n] \in NewEntry /\ n \in DOMAIN jobs
  BY <1>4, <1>5
<1> QED
  BY <1>1, <1>2, <1>3, <1>5, <1>6, Zenon

LEMMA AddedOn ==
    ASSUME NEW entries, NEW todo, NEW cfg, AddsTo(entries, todo, cfg), todo # <<>>,
           Parses(Head(todo)), NEW longer, Appended(entries, EntryOf(Head(todo)), longer)
    PROVE  AddsTo(longer, Tail(todo), cfg)
<1>1. PICK n : n = Len(entries) + 1
  OBVIOUS
<1>2. /\ Len(entries) \in Nat /\ n <= Len(Jobs(cfg)) /\ n \in DOMAIN Jobs(cfg)
      /\ Head(todo) = Jobs(cfg)[n] /\ Jobs(cfg)[n] \in NewEntry
  BY <1>1, NextToAdd, Zenon
<1>3. Begins(longer, cfg)
  BY <1>1, <1>2, AddedBegins DEF AddsTo
<1>4. longer \in Seq(Entry) /\ Len(longer) = n
  BY <1>1, Zenon DEF Appended
<1>5. PICK rest : rest = Tail(todo)
  OBVIOUS
<1>6. /\ rest \in Seq(NewEntry) /\ Len(rest) = Len(todo) - 1
      /\ \A m \in 1..Len(rest) : rest[m] = todo[m + 1]
  BY <1>5, HeadTailProperties DEF AddsTo
<1>7. Len(todo) \in Nat
  BY DEF AddsTo
<1>8. Len(longer) + Len(rest) = Len(Jobs(cfg))
  <2>1. Len(entries) + Len(todo) = Len(Jobs(cfg))
    BY DEF AddsTo
  <2>2. n + Len(rest) = Len(entries) + Len(todo)
    BY <1>1, <1>2, <1>6, <1>7
  <2> QED
    BY <1>4, <2>1, <2>2, Zenon
<1>9. ASSUME NEW m \in 1..Len(rest)
      PROVE  rest[m] = Jobs(cfg)[Len(longer) + m]
  <2>1. m + 1 \in 1..Len(todo)
    BY <1>6, <1>7
  <2>2. todo[m + 1] = Jobs(cfg)[Len(entries) + (m + 1)]
    BY <2>1 DEF AddsTo
  <2>3. Len(entries) + (m + 1) = Len(longer) + m
    BY <1>1, <1>2, <1>4
  <2>4. rest[m] = todo[m + 1]
    BY <1>6
  <2> QED
    BY <2>2, <2>3, <2>4, Zenon
<1>10. AddsTo(longer, rest, cfg)
  BY <1>3, <1>4, <1>6, <1>8, <1>9 DEF AddsTo
<1> QED
  BY <1>5, <1>10, Zenon

LEMMA AddEntryKeeps ==
    ASSUME SchedulerInv, TypeInv', NEW g \in Goroutine, AddEntry(g)
    PROVE  SchedulerInv' /\ UNCHANGED nilUsed
<1>1. /\ loader[g].pc = "add" /\ loader[g].todo # <<>> /\ Parses(Head(loader[g].todo))
      /\ loader' = [loader EXCEPT ![g].todo = Tail(@)]
      /\ UNCHANGED <<up, config, cron, view, hour, ran>>
  BY DEF AddEntry
<1>2. PICK entries, cfg : entries = crons[cron].entries /\ cfg = config
  OBVIOUS
<1>3. /\ AtWork(g) /\ cron \in 1..MaxCrons /\ cron # 0 /\ config # NoConfig
      /\ loader[g].cfg = config /\ ~crons[cron].running
      /\ AddsTo(entries, loader[g].todo, cfg)
  BY <1>1, <1>2, AddFacts
<1>4. TypeOK /\ LoadersOK /\ LoaderInv(g) /\ Alone(g) /\ up /\ loader[g] \in Loader
  BY <1>3, WorkerFacts
<1>5. PICK new, todo : new = Head(loader[g].todo) /\ todo = Tail(loader[g].todo)
  OBVIOUS
<1>6. new \in NewEntry /\ todo \in Seq(NewEntry)
  BY <1>1, <1>4, <1>5, AddLoads
<1>7. loader' = [loader EXCEPT ![g] = [loader[g] EXCEPT !.todo = todo]]
  BY <1>1, <1>4, <1>5, AddLoads
<1>8. PICK l : l = [loader[g] EXCEPT !.todo = todo]
  OBVIOUS
<1>9. l \in Loader /\ l.pc = "add" /\ l.todo = todo /\ l.cfg = config
  BY <1>1, <1>3, <1>4, <1>6, <1>8 DEF Loader
<1>10. loader'[g] = l /\ \A h \in Goroutine \ {g} : loader'[h] = loader[h]
  BY <1>4, <1>7, <1>8, <1>9, GivenLoaders
<1>11. EntryOf(new) \in Entry
  BY <1>1, <1>5, <1>6, EntryOfType
<1>12. crons' = [crons EXCEPT ![cron].entries = Append(@, EntryOf(new))] /\ UNCHANGED nilUsed
  BY <1>3, <1>5 DEF AddEntry
<1>13. PICK longer : longer = crons'[cron].entries
  OBVIOUS
<1>14. /\ crons'[cron].running = crons[cron].running
       /\ Appended(entries, EntryOf(new), longer)
       /\ \A d \in 1..MaxCrons \ {cron} : crons'[d] = crons[d]
       /\ crons' \in [1..MaxCrons -> Cron]
  BY <1>2, <1>3, <1>4, <1>11, <1>12, <1>13, AddedCrons
<1>15. AddsTo(longer, todo, cfg)
  BY <1>1, <1>3, <1>5, <1>14, AddedOn, Zenon
<1>16. CronsInv'
  <2>1. OneOfEach(longer)
    BY <1>15, BeginsDiffer DEF AddsTo
  <2>2. DOMAIN crons' = 1..MaxCrons /\ DOMAIN crons = 1..MaxCrons
    BY <1>4, <1>14 DEF TypeOK
  <2>3. \A c \in DOMAIN crons' : c # cron' => crons'[c] = FreshCron
    BY <1>1, <1>14, <2>2 DEF SchedulerInv
  <2>4. \A c \in DOMAIN crons' : OneOfEach(crons'[c].entries)
    BY <1>1, <1>13, <2>1, <2>3, FreshHasOne
  <2> QED
    BY <2>3, <2>4 DEF CronsInv
<1>17. Loading(g)'
  <2>1. longer = crons'[cron'].entries /\ todo = loader'[g].todo /\ cfg = config'
    BY <1>1, <1>2, <1>9, <1>10, <1>13
  <2>2. ~crons'[cron'].running
    BY <1>1, <1>3, <1>14
  <2> QED
    BY <1>15, <2>1, <2>2 DEF Loading, AddsTo
<1>18. LoaderInv(g)' /\ AtWork(g)'
  BY <1>1, <1>3, <1>4, <1>9, <1>10, <1>17 DEF LoaderInv, AtWork
<1>19. SchedulerInv'
  BY <1>1, <1>3, <1>4, <1>10, <1>16, <1>18, MainStays, WorkerKeeps
<1> QED
  BY <1>12, <1>19

LEMMA AddFailsKeeps ==
    ASSUME SchedulerInv, TypeInv', NEW g \in Goroutine, AddFails(g)
    PROVE  SchedulerInv'
<1>1. /\ loader[g].pc = "add" /\ loader[g].todo # <<>> /\ ~Parses(Head(loader[g].todo))
      /\ Done(g) /\ UNCHANGED <<up, config, cron, crons, view, nilUsed, hour, ran>>
  BY DEF AddFails
<1>2. PICK entries, cfg, todo :
         entries = crons[cron].entries /\ cfg = config /\ todo = loader[g].todo
  OBVIOUS
<1>3. /\ AtWork(g) /\ cron \in 1..MaxCrons /\ cron # 0 /\ config # NoConfig
      /\ ~crons[cron].running /\ AddsTo(entries, todo, cfg)
  BY <1>1, <1>2, AddFacts
<1>4. LoadersOK /\ Alone(g) /\ up
  BY <1>3, WorkerFacts
<1>5. loader'[g].pc = "idle" /\ \A h \in Goroutine \ {g} : loader'[h] = loader[h]
  BY <1>1, <1>4, DoneLoaders
<1>6. PICK n : n = Len(entries) + 1
  OBVIOUS
<1>7. n \in DOMAIN Jobs(cfg) /\ Head(todo) = Jobs(cfg)[n]
  BY <1>1, <1>2, <1>3, <1>6, NextToAdd, Zenon
<1>8. ~Parses(Jobs(cfg)[n])
  BY <1>1, <1>2, <1>7
<1>9. Loaded'
  <2>1. cfg = config' /\ ~crons'[cron'].running
    BY <1>1, <1>2, <1>3
  <2> QED
    BY <1>7, <1>8, <2>1 DEF Loaded
<1>10. LoaderInv(g)'
  BY <1>5 DEF LoaderInv, AtWork
<1> QED
  BY <1>1, <1>3, <1>4, <1>5, <1>9, <1>10, CronsStay, MainStays, WorkerKeeps

LEMMA StartCronKeeps ==
    ASSUME SchedulerInv, TypeInv', NEW g \in Goroutine, StartCron(g)
    PROVE  SchedulerInv' /\ UNCHANGED nilUsed
<1>1. /\ loader[g].pc = "add" /\ loader[g].todo = <<>> /\ Done(g)
      /\ UNCHANGED <<up, config, cron, view, hour, ran>>
  BY DEF StartCron
<1>2. PICK entries, cfg, todo :
         entries = crons[cron].entries /\ cfg = config /\ todo = loader[g].todo
  OBVIOUS
<1>3. /\ AtWork(g) /\ cron \in 1..MaxCrons /\ cron # 0 /\ config # NoConfig
      /\ AddsTo(entries, todo, cfg)
  BY <1>1, <1>2, AddFacts
<1>4. TypeOK /\ LoadersOK /\ Alone(g) /\ up
  BY <1>3, WorkerFacts
<1>5. loader'[g].pc = "idle" /\ \A h \in Goroutine \ {g} : loader'[h] = loader[h]
  BY <1>1, <1>4, DoneLoaders
<1>6. crons' = [crons EXCEPT ![cron].running = TRUE] /\ UNCHANGED nilUsed
  BY <1>3 DEF StartCron
<1>7. /\ crons' \in [1..MaxCrons -> Cron]
      /\ crons'[cron].running /\ crons'[cron].entries = entries
      /\ \A d \in 1..MaxCrons \ {cron} : crons'[d] = crons[d]
  BY <1>2, <1>3, <1>4, <1>6, StartedCrons
<1>8. CronsInv'
  <2>1. DOMAIN crons' = 1..MaxCrons /\ DOMAIN crons = 1..MaxCrons
    BY <1>4, <1>7 DEF TypeOK
  <2>2. \A c \in DOMAIN crons' : crons'[c].entries = crons[c].entries
    BY <1>2, <1>7, <2>1
  <2>3. \A c \in DOMAIN crons' : OneOfEach(crons'[c].entries)
    BY <2>1, <2>2 DEF SchedulerInv
  <2>4. \A c \in DOMAIN crons' : c # cron' => crons'[c] = FreshCron
    BY <1>1, <1>7, <2>1 DEF SchedulerInv
  <2> QED
    BY <2>3, <2>4 DEF CronsInv
<1>9. Loaded'
  <2>1. cfg = config' /\ crons'[cron'].running /\ entries = crons'[cron'].entries
    BY <1>1, <1>2, <1>7
  <2>2. Len(todo) = 0
    BY <1>1, <1>2, EmptySeq
  <2>3. Len(entries) = Len(Jobs(cfg)) /\ Begins(entries, cfg)
    BY <1>3, <2>2 DEF AddsTo
  <2> QED
    BY <2>1, <2>3 DEF Loaded
<1>10. LoaderInv(g)'
  BY <1>5 DEF LoaderInv, AtWork
<1>11. SchedulerInv'
  BY <1>1, <1>3, <1>4, <1>5, <1>8, <1>9, <1>10, MainStays, WorkerKeeps
<1> QED
  BY <1>6, <1>11

-----------------------------------------------------------------------------
(* The entries that fire.                                                  *)
LEMMA FiringsOfCron ==
    ASSUME SchedulerInv, NEW job, NEW f \in Firings(job)
    PROVE  /\ cron \in DOMAIN crons /\ crons[cron].running
           /\ \E n \in DOMAIN crons[cron].entries :
                 f = <<cron, n>> /\ crons[cron].entries[n].job = job
<1>1. PICK c \in DOMAIN crons : \E n \in DOMAIN crons[c].entries :
         crons[c].running /\ f = <<c, n>> /\ crons[c].entries[n].job = job
  BY DEF Firings
<1>2. ~FreshCron.running
  BY DEF FreshCron
<1>3. c = cron
  BY <1>1, <1>2 DEF SchedulerInv
<1> QED
  BY <1>1, <1>3

LEMMA OneFiring ==
    ASSUME SchedulerInv, NEW job, NEW e \in Firings(job), NEW f \in Firings(job)
    PROVE  e = f
<1>1. /\ cron \in DOMAIN crons /\ crons[cron].running
      /\ \E n \in DOMAIN crons[cron].entries :
            e = <<cron, n>> /\ crons[cron].entries[n].job = job
  BY FiringsOfCron
<1>2. /\ crons[cron].running
      /\ \E n \in DOMAIN crons[cron].entries :
            f = <<cron, n>> /\ crons[cron].entries[n].job = job
  BY FiringsOfCron
<1>3. OneOfEach(crons[cron].entries)
  BY <1>1 DEF SchedulerInv
<1> QED
  BY <1>1, <1>2, <1>3 DEF OneOfEach

LEMMA FewAreFinite ==
    ASSUME NEW S, \A x, y \in S : x = y
    PROVE  IsFiniteSet(S) /\ Cardinality(S) <= 1
<1>1. CASE S = {}
  BY <1>1, FS_EmptySet
<1>2. CASE S # {}
  <2>1. PICK x \in S : TRUE
    BY <1>2
  <2>2. S = {x}
    BY <2>1
  <2>3. IsFiniteSet({x}) /\ Cardinality({x}) = 1
    BY FS_Singleton
  <2> QED
    BY <2>2, <2>3
<1> QED
  BY <1>1, <1>2

LEMMA TickKeeps ==
    ASSUME SchedulerInv, TypeInv', Tick
    PROVE  SchedulerInv'
<1>1. /\ UNCHANGED <<up, config, cron, crons, loader, view, nilUsed>>
      /\ ran' = [job \in Job |-> Cardinality(Due(job, (hour + 1) % 24))]
  BY DEF Tick
<1>2. ASSUME NEW job \in Job
      PROVE  ran'[job] <= 1
  <2>1. PICK due : due = Due(job, (hour + 1) % 24)
    OBVIOUS
  <2>2. \A e, f \in due : e = f
    BY <2>1, OneFiring DEF Due
  <2>3. Cardinality(due) <= 1
    BY <2>2, FewAreFinite
  <2>4. ran'[job] = Cardinality(due)
    BY <1>1, <2>1
  <2> QED
    BY <2>3, <2>4
<1> QED
  BY <1>1, <1>2 DEF SchedulerInv, TypeInv, LoaderInv, Loading, AtWork, Quiet, Loaded

LEMMA ViewKeeps ==
    ASSUME SchedulerInv, TypeInv', ViewTest \/ ViewEntries
    PROVE  SchedulerInv'
<1>1. UNCHANGED <<up, config, cron, crons, loader, hour, ran>>
  BY DEF ViewTest, ViewEntries
<1>2. view' = "tested" => up' /\ ~AtWork(Main)'
  BY <1>1 DEF ViewTest, ViewEntries, AtWork
<1> QED
  BY <1>1, <1>2 DEF SchedulerInv, TypeInv, LoaderInv, Loading, AtWork, Quiet, Loaded

LEMMA EmptyIsFine ==
    ASSUME TypeOK, ~up, cron = 0, view = "idle", \A c \in DOMAIN crons : crons[c] = FreshCron,
           \A g \in Goroutine : loader[g] = IdleLoader, \A job \in Job : ran[job] <= 1
    PROVE  SchedulerInv
<1>1. \A g \in Goroutine : LoaderInv(g) /\ ~AtWork(g)
  BY IdleType, IdleIsFine
<1>2. \A c \in DOMAIN crons : OneOfEach(crons[c].entries)
  BY FreshHasOne
<1>3. ~Quiet
  BY DEF Quiet
<1> QED
  BY <1>1, <1>2, <1>3 DEF SchedulerInv

LEMMA ExitKeeps ==
    ASSUME SchedulerInv, TypeInv', Exit
    PROVE  SchedulerInv'
<1>1. TypeOK' /\ ~up' /\ cron' = 0 /\ view' = "idle"
  BY DEF Exit, TypeInv
<1>2. /\ \A c \in DOMAIN crons' : crons'[c] = FreshCron
      /\ \A g \in Goroutine : loader'[g] = IdleLoader
      /\ \A job \in Job : ran'[job] <= 1
  BY DEF Exit, SchedulerInv
<1>3. \A g \in Goroutine : LoaderInv(g)' /\ ~AtWork(g)'
  BY <1>2, IdleType DEF LoaderInv, AtWork
<1>4. \A c \in DOMAIN crons' : OneOfEach(crons'[c].entries)
  BY <1>2, FreshHasOne
<1>5. ~Quiet'
  BY <1>1 DEF Quiet
<1> QED
  BY <1>1, <1>2, <1>3, <1>4, <1>5 DEF SchedulerInv

LEMMA SchedulerInvInit ==
    ASSUME Init
    PROVE  SchedulerInv
<1>1. TypeOK
  BY TypeInvInit DEF TypeInv
<1>2. /\ ~up /\ cron = 0 /\ view = "idle"
      /\ \A c \in DOMAIN crons : crons[c] = FreshCron
      /\ \A g \in Goroutine : loader[g] = IdleLoader
      /\ \A job \in Job : ran[job] <= 1
  BY DEF Init, NoRuns
<1> QED
  BY <1>1, <1>2, EmptyIsFine

LEMMA SchedulerInvKept ==
    ASSUME OneSaver, SchedulerInv, [Next]_vars
    PROVE  SchedulerInv'
<1>1. TypeInv'
  BY InvTypes, TypeInvKept
<1>2. CASE Boot
  BY <1>1, <1>2, BootKeeps
<1>3. CASE SaveDefaults
  BY <1>1, <1>3, DefaultsKeep
<1>4. ASSUME NEW g \in Savers, UserSaves(g)
      PROVE  SchedulerInv'
  BY <1>1, <1>4, UserSavesKeeps
<1>5. ASSUME NEW g \in Savers, SaveConfig(g)
      PROVE  SchedulerInv'
  BY <1>1, <1>5, SaveConfigKeeps
<1>6. ASSUME NEW g \in Goroutine, Load(g)
      PROVE  SchedulerInv'
  BY <1>1, <1>6, StopTestKeeps, StopCronKeeps, ReadConfigKeeps, NewCronKeeps,
     AddEntryKeeps, AddFailsKeeps, StartCronKeeps DEF Load
<1>7. CASE ViewTest \/ ViewEntries
  BY <1>1, <1>7, ViewKeeps
<1>8. CASE Tick
  BY <1>1, <1>8, TickKeeps
<1>9. CASE Exit
  BY <1>1, <1>9, ExitKeeps
<1>10. CASE UNCHANGED vars
  BY <1>1, <1>10
  DEF SchedulerInv, TypeInv, LoaderInv, Loading, AtWork, Quiet, Loaded, vars
<1> QED
  BY <1>2, <1>3, <1>4, <1>5, <1>6, <1>7, <1>8, <1>9, <1>10 DEF Next

(* With one goroutine of the form, the schedule is that of the saved       *)
(* configuration, or one is being loaded.                                  *)
THEOREM SchedulerInvHolds ==
    ASSUME OneSaver
    PROVE  Spec => []SchedulerInv
<1>1. Init => SchedulerInv
  BY SchedulerInvInit
<1>2. SchedulerInv /\ [Next]_vars => SchedulerInv'
  BY SchedulerInvKept
<1> QED
  BY <1>1, <1>2, PTL DEF Spec

-----------------------------------------------------------------------------
(* What fires once everything is loaded.                                   *)
LEMMA AllLoaded ==
    ASSUME SchedulerInv, Quiet, ValidConfig(config)
    PROVE  /\ cron \in DOMAIN crons /\ crons[cron].running /\ config \in Config
           /\ DOMAIN crons[cron].entries = 1..Len(Jobs(config))
           /\ \A n \in 1..Len(Jobs(config)) :
                 crons[cron].entries[n] = EntryOf(Jobs(config)[n])
<1>1. TypeOK /\ cron # 0 /\ Loaded
  BY DEF SchedulerInv
<1>2. PICK cfg, entries : cfg = config /\ entries = crons[cron].entries
  OBVIOUS
<1>3. cron \in DOMAIN crons /\ entries \in Seq(Entry)
  BY <1>1, <1>2, SchedulerAssumption DEF TypeOK, Cron
<1>4. cfg \in Config /\ ValidConfig(cfg)
  BY <1>1, <1>2 DEF TypeOK, ValidConfig
<1>5. \A n \in DOMAIN Jobs(cfg) : Parses(Jobs(cfg)[n])
  BY <1>4, JobsHave, JobsParse
<1>6. crons[cron].running /\ Begins(entries, cfg) /\ Len(entries) = Len(Jobs(cfg))
  BY <1>1, <1>2, <1>5 DEF Loaded
<1>7. DOMAIN entries = 1..Len(Jobs(cfg))
  BY <1>3, <1>6
<1>8. \A n \in 1..Len(Jobs(cfg)) : entries[n] = EntryOf(Jobs(cfg)[n])
  BY <1>6 DEF Begins
<1> QED
  BY <1>2, <1>3, <1>4, <1>6, <1>7, <1>8

LEMMA JobFires ==
    ASSUME SchedulerInv, Quiet, ValidConfig(config), NEW job,
           NEW n \in 1..Len(Jobs(config)), Jobs(config)[n].job = job
    PROVE  FiredBy(job, HoursOf(Jobs(config)[n]))
<1>1. PICK entries, new : entries = crons[cron].entries /\ new = Jobs(config)[n]
  OBVIOUS
<1>2. /\ cron \in DOMAIN crons /\ crons[cron].running
      /\ n \in DOMAIN entries /\ entries[n] = EntryOf(new)
  BY <1>1, AllLoaded
<1>3. entries[n].job = job /\ entries[n].hours = HoursOf(new)
  BY <1>1, <1>2 DEF EntryOf
<1>4. PICK f : f = <<cron, n>>
  OBVIOUS
<1>5. f \in Firings(job)
  BY <1>1, <1>2, <1>3, <1>4 DEF Firings
<1>6. Firings(job) = {f}
  BY <1>5, OneFiring
<1>7. HoursAt(f) = HoursOf(new)
  BY <1>1, <1>3, <1>4 DEF HoursAt
<1>8. Cardinality({f}) = 1
  BY FS_Singleton
<1> QED
  BY <1>1, <1>6, <1>7, <1>8 DEF FiredBy

LEMMA NoJobFires ==
    ASSUME SchedulerInv, Quiet, ValidConfig(config), NEW job \in Job,
           \A n \in 1..Len(Jobs(config)) : Jobs(config)[n].job # job
    PROVE  Firings(job) = {}
<1>1. SUFFICES ASSUME NEW f \in Firings(job)
               PROVE  FALSE
  OBVIOUS
<1>2. PICK n \in DOMAIN crons[cron].entries : crons[cron].entries[n].job = job
  BY FiringsOfCron
<1>3. n \in 1..Len(Jobs(config)) /\ crons[cron].entries[n] = EntryOf(Jobs(config)[n])
  BY <1>2, AllLoaded
<1>4. Jobs(config)[n].job = job
  BY <1>2, <1>3 DEF EntryOf
<1> QED
  BY <1>3, <1>4

(* The two kinds of backup, at the hours of their expressions.             *)
LEMMA FollowsConfig ==
    ASSUME SchedulerInv, Quiet, ValidConfig(config)
    PROVE  Follows("full", config.full) /\ Follows("log", config.log)
<1>1. PICK cfg, jobs : cfg = config /\ jobs = Jobs(cfg)
  OBVIOUS
<1>2. cfg \in Config
  BY <1>1, AllLoaded
<1>3. PICK f, l : f = Count(cfg.full) /\ l = Count(cfg.log)
  OBVIOUS
<1>4. /\ jobs = Jobs(config) /\ Len(jobs) = f + l + 2
      /\ cfg.full # {} => jobs[1].job = "full" /\ jobs[1].expr \in cfg.full
      /\ cfg.log # {} => jobs[f + 1].job = "log" /\ jobs[f + 1].expr \in cfg.log
  BY <1>1, <1>2, <1>3, JobsHave
<1>5. f \in {0, 1} /\ l \in {0, 1}
  BY <1>3 DEF Count
<1>6. cfg.log # {} => l = 1
  BY <1>3 DEF Count
<1>7. Follows("full", cfg.full)
  <2>1. CASE cfg.full = {}
    <3>1. \A n \in 1..Len(jobs) : jobs[n].job # "full"
      BY <1>1, <1>2, <2>1, JobsAt DEF JobAt
    <3> QED
      BY <1>4, <2>1, <3>1, NoJobFires DEF Follows, Job
  <2>2. CASE cfg.full # {}
    <3>1. 1 \in 1..Len(jobs)
      BY <1>4, <1>5
    <3>2. FiredBy("full", HoursOf(jobs[1]))
      BY <1>4, <2>2, <3>1, JobFires
    <3>3. HoursOf(jobs[1]) = FireHours[jobs[1].expr]
      BY <1>4, <2>2 DEF HoursOf
    <3> QED
      BY <1>4, <2>2, <3>2, <3>3 DEF Follows
  <2> QED
    BY <2>1, <2>2
<1>8. Follows("log", cfg.log)
  <2>1. CASE cfg.log = {}
    <3>1. \A n \in 1..Len(jobs) : jobs[n].job # "log"
      BY <1>1, <1>2, <2>1, JobsAt DEF JobAt
    <3> QED
      BY <1>4, <2>1, <3>1, NoJobFires DEF Follows, Job
  <2>2. CASE cfg.log # {}
    <3>1. PICK n : n = f + 1
      OBVIOUS
    <3>2. n \in 1..Len(jobs)
      BY <1>4, <1>5, <1>6, <2>2, <3>1
    <3>3. jobs[n].job = "log" /\ jobs[n].expr \in cfg.log
      BY <1>4, <2>2, <3>1, Zenon
    <3>4. FiredBy("log", HoursOf(jobs[n]))
      BY <1>4, <3>2, <3>3, JobFires
    <3>5. HoursOf(jobs[n]) = FireHours[jobs[n].expr]
      BY <3>3 DEF HoursOf
    <3> QED
      BY <2>2, <3>3, <3>4, <3>5 DEF Follows
  <2> QED
    BY <2>1, <2>2
<1> QED
  BY <1>1, <1>7, <1>8, Zenon

(* The jobs the program adds by itself, at its own hours.                  *)
LEMMA OwnJobsFire ==
    ASSUME SchedulerInv, Quiet, ValidConfig(config)
    PROVE  FiredBy("self", SelfBackupHours) /\ FiredBy("retention", RetentionHours)
<1>1. PICK cfg, jobs : cfg = config /\ jobs = Jobs(cfg)
  OBVIOUS
<1>2. cfg \in Config
  BY <1>1, AllLoaded
<1>3. PICK f, l, m, n : /\ f = Count(cfg.full) /\ l = Count(cfg.log)
                        /\ m = f + l + 1 /\ n = f + l + 2
  OBVIOUS
<1>4. jobs = Jobs(config) /\ Len(jobs) = n
  BY <1>1, <1>2, <1>3, JobsHave, Zenon
<1>5. f \in {0, 1} /\ l \in {0, 1}
  BY <1>3 DEF Count
<1>6. jobs[m] = OwnJobs[1] /\ jobs[n] = OwnJobs[2]
  BY <1>1, <1>2, <1>3, JobsHave, Zenon
<1>7. m \in 1..Len(jobs) /\ n \in 1..Len(jobs)
  BY <1>3, <1>4, <1>5
<1>8. jobs[m].job = "self" /\ jobs[n].job = "retention"
  BY <1>6, OwnJobsHave
<1>9. FiredBy("self", HoursOf(jobs[m])) /\ FiredBy("retention", HoursOf(jobs[n]))
  BY <1>4, <1>7, <1>8, JobFires
<1>10. HoursOf(jobs[m]) = SelfBackupHours /\ HoursOf(jobs[n]) = RetentionHours
  BY <1>8 DEF HoursOf
<1> QED
  BY <1>9, <1>10

(* After any number of reloads, mistyped expressions and restarts, the     *)
(* crons that run fire each job once, at the hours that are saved: the     *)
(* cron of the field has all the jobs or has not been started, and it is   *)
(* not started only behind an expression that does not parse.              *)
THEOREM ScheduleInForceHolds ==
    ASSUME OneSaver
    PROVE  Spec => []ScheduleInForce
<1>1. SchedulerInv => ScheduleInForce
  BY FollowsConfig, OwnJobsFire DEF ScheduleInForce
<1> QED
  BY <1>1, SchedulerInvHolds, PTL

(* No job runs twice when it is due, whatever reload is under way when the *)
(* hour changes.                                                           *)
THEOREM OncePerHourHolds ==
    ASSUME OneSaver
    PROVE  Spec => []OncePerHour
<1>1. SchedulerInv => OncePerHour
  BY DEF SchedulerInv, OncePerHour
<1> QED
  BY <1>1, SchedulerInvHolds, PTL

(* AddFunc, Start and Stop never find the field empty.                     *)
LEMMA NilStepKept ==
    ASSUME OneSaver, SchedulerInv, [Next]_vars
    PROVE  NilStep
<1>1. SUFFICES ASSUME nilUsed', ~nilUsed
               PROVE  \E g \in Goroutine : loader[g].pc \in {"read", "new"}
  BY DEF NilStep
<1>2. TypeInv'
  BY InvTypes, TypeInvKept
<1>3. ViewEntries
  <2>1. \A g \in Goroutine : ~StopCron(g) /\ ~AddEntry(g) /\ ~StartCron(g)
    BY <1>1, <1>2, StopCronKeeps, AddEntryKeeps, StartCronKeeps
  <2>2. ~UNCHANGED nilUsed
    BY <1>1
  <2> QED
    BY <2>1, <2>2 DEF Next, Load, Boot, SaveDefaults, UserSaves, SaveConfig, StopTest,
       ReadConfig, NewCron, AddFails, ViewTest, Tick, Exit, vars
<1>4. view = "tested" /\ cron = 0
  BY <1>1, <1>3 DEF ViewEntries
<1>5. up /\ ~AtWork(Main)
  BY <1>4 DEF SchedulerInv
<1>6. ~Quiet
  BY <1>4 DEF SchedulerInv
<1>7. PICK g \in Goroutine : AtWork(g)
  BY <1>5, <1>6 DEF Quiet, AtWork
<1>8. LoaderInv(g) /\ loader[g].pc \in LoaderPc /\ g # Main
  BY <1>5, <1>7 DEF SchedulerInv, TypeOK, Loader
<1> QED
  BY <1>4, <1>7, <1>8 DEF LoaderInv, LoaderPc, AtWork

(* A method is called on a nil cron only by NextRunTimes, and only while a *)
(* reload stands between Stop and the new cron.                            *)
THEOREM NilOnlyInReloadHolds ==
    ASSUME OneSaver
    PROVE  Spec => NilOnlyInReload
<1>1. SchedulerInv /\ [Next]_vars => NilStep
  BY NilStepKept
<1>2. SchedulerInv /\ [Next]_vars => [NilStep]_vars
  BY <1>1
<1> QED
  BY <1>2, SchedulerInvHolds, PTL DEF Spec, NilOnlyInReload
=============================================================================
