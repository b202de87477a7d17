----------------------------- MODULE Scheduler -----------------------------
(***************************************************************************)
(* BackupScheduler: Start reads the saved configuration, makes a cron and  *)
(* adds its jobs; Reload stops the cron and starts anew, on a goroutine of *)
(* its own each time the user presses Enter in the schedule form.  The     *)
(* goroutines share the field s.cron without a lock, and the TUI reads it  *)
(* to show the next runs.                                                  *)
(*                                                                         *)
(* Time goes by in hours.  A running cron fires its due entries when the   *)
(* hour changes; one that was started within the hour waits for the next.  *)
(* Every caller saves an enabled configuration, with at most one           *)
(* expression for each kind of backup.                                     *)
(***************************************************************************)
EXTENDS Naturals, FiniteSets, Sequences

CONSTANTS
    Expr,           \* cron expressions a user may type
    FireHours,      \* the hours at which the valid ones fire
    DefaultConfig,  \* DefaultSchedulerConfig
    Savers,         \* goroutines of the schedule form
    Main,           \* the goroutine of main
    MaxHours,       \* bound: hours that pass
    MaxCrons        \* bound: crons that are in the field or running

Hour == 0..23
SelfBackupHours == {0, 12}
RetentionHours == {1}

Valid == DOMAIN FireHours

Config == [full : SUBSET Expr, log : SUBSET Expr]
NoConfig == [full |-> {}]

ASSUME SchedulerAssumption ==
    /\ Valid \subseteq Expr /\ "own" \notin Expr
    /\ \A expr \in Valid : FireHours[expr] \subseteq Hour
    /\ DefaultConfig \in [full : SUBSET Valid, log : SUBSET Valid]
    /\ Main \notin Savers
    /\ MaxHours \in Nat /\ MaxCrons \in Nat

VARIABLES
    up,             \* the process runs
    config,         \* the saved SchedulerConfig
    cron,           \* s.cron: a position in crons, or 0 for nil
    crons,          \* the crons there are room for
    loader,         \* the goroutines inside Start or Reload
    view,           \* NextRunTimes: before or after its test for nil
    nilUsed,        \* a method was called on a nil cron
    hour,           \* hours since the beginning
    ran             \* how often each job was fired at the last change of hour

vars == <<up, config, cron, crons, loader, view, nilUsed, hour, ran>>

Job == {"full", "log", "self", "retention"}
NewEntry ==
    [job : {"full", "log"}, expr : Expr] \cup [job : {"self", "retention"}, expr : {"own"}]
Entry == [job : Job, hours : SUBSET Hour]
Cron == [entries : Seq(Entry), running : BOOLEAN]
FreshCron == [entries |-> <<>>, running |-> FALSE]

LoaderPc == {"idle", "boot", "save", "stop", "stopping", "read", "new", "add"}
Loader == [pc : LoaderPc, cfg : Config \cup {NoConfig}, todo : Seq(NewEntry)]
IdleLoader == [pc |-> "idle", cfg |-> NoConfig, todo |-> <<>>]

Goroutine == Savers \cup {Main}

NoRuns == [job \in Job |-> 0]

Init ==
    /\ up = FALSE
    /\ config = NoConfig
    /\ cron = 0
    /\ crons = [c \in 1..MaxCrons |-> FreshCron]
    /\ loader = [g \in Goroutine |-> IdleLoader]
    /\ view = "idle"
    /\ nilUsed = FALSE
    /\ hour = 0
    /\ ran = NoRuns

Goto(g, pc) == loader' = [loader EXCEPT ![g].pc = pc]
Done(g) == loader' = [loader EXCEPT ![g] = IdleLoader]

-----------------------------------------------------------------------------
(* main: saves the defaults if nothing is saved, then calls Start; the TUI *)
(* comes after it.                                                         *)
Boot ==
    /\ ~up
    /\ up' = TRUE
    /\ Goto(Main, "boot")
    /\ UNCHANGED <<config, cron, crons, view, nilUsed, hour, ran>>

SaveDefaults ==
    /\ loader[Main].pc = "boot"
    /\ config' = IF config = NoConfig THEN DefaultConfig ELSE config
    /\ Goto(Main, "read")
    /\ UNCHANGED <<up, cron, crons, view, nilUsed, hour, ran>>

(* Enter in the schedule form starts saveCmd, even while another runs. *)
UserSaves(g) ==
    /\ up
    /\ loader[Main].pc = "idle"
    /\ loader[g].pc = "idle"
    /\ \E full, log \in {{}} \cup {{expr} : expr \in Expr} :
          loader' = [loader EXCEPT ![g].pc = "save",
                                   ![g].cfg = [full |-> full, log |-> log]]
    /\ UNCHANGED <<up, config, cron, crons, view, nilUsed, hour, ran>>

(* Mistaken variant: saved, and left to the next start. *)
SaveConfigOnly(g) ==
    /\ loader[g].pc = "save"
    /\ config' = loader[g].cfg
    /\ Done(g)
    /\ UNCHANGED <<up, cron, crons, view, nilUsed, hour, ran>>

SaveConfig(g) ==
    /\ loader[g].pc = "save"
    /\ config' = loader[g].cfg
    /\ Goto(g, "stop")
    /\ UNCHANGED <<up, cron, crons, view, nilUsed, hour, ran>>

-----------------------------------------------------------------------------
(* Stop: a test for nil, then cron.Stop and s.cron = nil. *)
StopTest(g) ==
    /\ loader[g].pc = "stop"
    /\ Goto(g, IF cron # 0 THEN "stopping" ELSE "read")
    /\ UNCHANGED <<up, config, cron, crons, view, nilUsed, hour, ran>>

(* Mistaken variant: the cron is forgotten, and goes on. *)
ForgetCron(g) ==
    /\ loader[g].pc = "stopping"
    /\ nilUsed' = (nilUsed \/ cron = 0)
    /\ cron' = 0
    /\ Goto(g, "read")
    /\ UNCHANGED <<up, config, crons, view, hour, ran>>

StopCron(g) ==
    /\ loader[g].pc = "stopping"
    /\ IF cron = 0
       THEN nilUsed' = TRUE /\ UNCHANGED crons
       ELSE crons' = [crons EXCEPT ![cron] = FreshCron] /\ UNCHANGED nilUsed
    /\ cron' = 0
    /\ Goto(g, "read")
    /\ UNCHANGED <<up, config, view, hour, ran>>

(* Start: reads the configuration. *)
ReadConfig(g) ==
    /\ loader[g].pc = "read"
    /\ loader' = [loader EXCEPT ![g].pc = "new",
                                ![g].cfg = IF config = NoConfig THEN DefaultConfig ELSE config]
    /\ UNCHANGED <<up, config, cron, crons, view, nilUsed, hour, ran>>

(* The jobs in the order Start adds them. *)
Expressions(job, exprs) ==
    IF exprs = {} THEN <<>> ELSE << [job |-> job, expr |-> CHOOSE e \in exprs : TRUE] >>

OwnJobs == << [job |-> "self", expr |-> "own"], [job |-> "retention", expr |-> "own"] >>

Jobs(cfg) ==
    Expressions("full", cfg.full) \o Expressions("log", cfg.log) \o OwnJobs

(* A cron nobody refers to and that does not run is garbage. *)
Free(c) == c # cron /\ ~crons[c].running
FirstFree(c) == Free(c) /\ \A d \in 1..(c - 1) : ~Free(d)

(* Start: makes the cron. *)
NewCron(g) ==
    /\ loader[g].pc = "new"
    /\ \E c \in 1..MaxCrons :
          /\ FirstFree(c)
          /\ crons' = [crons EXCEPT ![c] = FreshCron]
          /\ cron' = c
    /\ loader' = [loader EXCEPT ![g].pc = "add", ![g].todo = Jobs(loader[g].cfg)]
    /\ UNCHANGED <<up, config, view, nilUsed, hour, ran>>

HoursOf(new) ==
    CASE new.job = "self" -> SelfBackupHours
      [] new.job = "retention" -> RetentionHours
      [] OTHER -> FireHours[new.expr]

EntryOf(new) == [job |-> new.job, hours |-> HoursOf(new)]

Parses(new) == new.expr \in Valid \cup {"own"}

(* AddFunc, on the cron the field holds by now. *)
AddEntry(g) ==
    LET new == Head(loader[g].todo) IN
    /\ loader[g].pc = "add"
    /\ loader[g].todo # <<>>
    /\ Parses(new)
    /\ IF cron = 0
       THEN nilUsed' = TRUE /\ UNCHANGED crons
       ELSE /\ crons' = [crons EXCEPT ![cron].entries = Append(@, EntryOf(new))]
            /\ UNCHANGED nilUsed
    /\ loader' = [loader EXCEPT ![g].todo = Tail(@)]
    /\ UNCHANGED <<up, config, cron, view, hour, ran>>

(* Mistaken variant: the error gives the cron up. *)
AddFailsEmpty(g) ==
    /\ loader[g].pc = "add"
    /\ loader[g].todo # <<>>
    /\ ~Parses(Head(loader[g].todo))
    /\ cron' = 0
    /\ Done(g)
    /\ UNCHANGED <<up, config, crons, view, nilUsed, hour, ran>>

(* An expression that does not parse: Start returns its error, and neither *)
(* starts the cron nor gives it up.                                        *)
AddFails(g) ==
    /\ loader[g].pc = "add"
    /\ loader[g].todo # <<>>
    /\ ~Parses(Head(loader[g].todo))
    /\ Done(g)
    /\ UNCHANGED <<up, config, cron, crons, view, nilUsed, hour, ran>>

StartCron(g) ==
    /\ loader[g].pc = "add"
    /\ loader[g].todo = <<>>
    /\ IF cron = 0
       THEN nilUsed' = TRUE /\ UNCHANGED crons
       ELSE crons' = [crons EXCEPT ![cron].running = TRUE] /\ UNCHANGED nilUsed
    /\ Done(g)
    /\ UNCHANGED <<up, config, cron, view, hour, ran>>

-----------------------------------------------------------------------------
(* NextRunTimes, from the View of the dashboard or of the form: the test,  *)
(* then cron.Entries.                                                      *)
ViewTest ==
    /\ up
    /\ loader[Main].pc = "idle"
    /\ view = "idle"
    /\ cron # 0
    /\ view' = "tested"
    /\ UNCHANGED <<up, config, cron, crons, loader, nilUsed, hour, ran>>

ViewEntries ==
    /\ view = "tested"
    /\ view' = "idle"
    /\ nilUsed' = (nilUsed \/ cron = 0)
    /\ UNCHANGED <<up, config, cron, crons, loader, hour, ran>>

-----------------------------------------------------------------------------
(* The entries of a job in the crons that run. *)
Firings(job) ==
    UNION {{<<c, n>> : n \in {k \in DOMAIN crons[c].entries :
                                  crons[c].entries[k].job = job}} :
              c \in {d \in DOMAIN crons : crons[d].running}}

HoursAt(f) == crons[f[1]].entries[f[2]].hours

Due(job, h) == {f \in Firings(job) : h \in HoursAt(f)}

(* The hour changes, and every running cron fires what is due. *)
Tick ==
    /\ hour < MaxHours
    /\ hour' = hour + 1
    /\ ran' = [job \in Job |-> Cardinality(Due(job, (hour + 1) % 24))]
    /\ UNCHANGED <<up, config, cron, crons, loader, view, nilUsed>>

(* The process ends, by ctrl+c or otherwise. *)
Exit ==
    /\ up
    /\ up' = FALSE
    /\ cron' = 0
    /\ crons' = [c \in 1..MaxCrons |-> FreshCron]
    /\ loader' = [g \in Goroutine |-> IdleLoader]
    /\ view' = "idle"
    /\ UNCHANGED <<config, nilUsed, hour, ran>>

Load(g) ==
    \/ StopTest(g)
    \/ StopCron(g)
    \/ ReadConfig(g)
    \/ NewCron(g)
    \/ AddEntry(g)
    \/ AddFails(g)
    \/ StartCron(g)

Next ==
    \/ Boot
    \/ SaveDefaults
    \/ \E g \in Savers : UserSaves(g) \/ SaveConfig(g)
    \/ \E g \in Goroutine : Load(g)
    \/ ViewTest
    \/ ViewEntries
    \/ Tick
    \/ Exit

Spec == Init /\ [][Next]_vars

(* The goroutines go on, and a process that ended is started again. *)
FairSpec ==
    /\ Spec
    /\ WF_vars(Boot)
    /\ WF_vars(SaveDefaults)
    /\ \A g \in Savers : WF_vars(SaveConfig(g))
    /\ \A g \in Goroutine : WF_vars(Load(g))

TypeOK ==
    /\ up \in BOOLEAN
    /\ config \in Config \cup {NoConfig}
    /\ cron \in 0..MaxCrons
    /\ crons \in [1..MaxCrons -> Cron]
    /\ loader \in [Goroutine -> Loader]
    /\ view \in {"idle", "tested"}
    /\ nilUsed \in BOOLEAN
    /\ hour \in 0..MaxHours
    /\ ran \in [Job -> Nat]

-----------------------------------------------------------------------------
Quiet == up /\ \A g \in Goroutine : loader[g].pc = "idle"

ValidConfig(cfg) == cfg # NoConfig /\ cfg.full \cup cfg.log \subseteq Valid

FiredBy(job, hours) ==
    /\ Cardinality(Firings(job)) = 1
    /\ \A f \in Firings(job) : HoursAt(f) = hours

Follows(job, exprs) ==
    IF exprs = {} THEN Firings(job) = {}
    ELSE \E expr \in exprs : FiredBy(job, FireHours[expr])

(* Reload "reloads cron expressions from persistence, restarting all       *)
(* jobs": when nobody is loading, the crons that run fire every job at the *)
(* hours of the saved configuration, and once, after any number of         *)
(* changes, mistyped ones and restarts.                                    *)
ScheduleInForce ==
    Quiet /\ ValidConfig(config) =>
        /\ Follows("full", config.full)
        /\ Follows("log", config.log)
        /\ FiredBy("self", SelfBackupHours)
        /\ FiredBy("retention", RetentionHours)

(* Retention and the backups run once when they are due, whatever reloads  *)
(* are under way when the hour changes.                                    *)
OncePerHour == \A job \in Job : ran[job] <= 1

(* NextRunTimes: "s.cron == nil" is tested before the field is used.  What *)
(* it tested can be gone only while a reload is between Stop and the new   *)
(* cron, and not after one that failed.                                    *)
NilStep == nilUsed' /\ ~nilUsed => \E g \in Goroutine : loader[g].pc \in {"read", "new"}

NilOnlyInReload == [][NilStep]_vars

(* A valid configuration that was saved is in force in the end, unless it  *)
(* is replaced, or the process keeps dying.                                *)
InForce(cfg) ==
    /\ Follows("full", cfg.full)
    /\ Follows("log", cfg.log)

SavedTakesEffect ==
    \A expr \in Valid :
        LET cfg == [full |-> {expr}, log |-> {}] IN
        (config = cfg) ~> (InForce(cfg) \/ config # cfg \/ ~up)

-----------------------------------------------------------------------------
(* The inductive invariant, for one goroutine of the form: it is the only  *)
(* one at work, every cron but that of the field has been given up, and    *)
(* that one has the first jobs of the configuration, those that its loader *)
(* has already added, or all of them, or it waits behind an expression     *)
(* that does not parse.                                                    *)
OneSaver == \A g, h \in Savers : g = h

AtWork(g) == loader[g].pc # "idle"

(* The entries are the first jobs of a configuration. *)
Begins(entries, cfg) ==
    \A n \in 1..Len(entries) :
        n <= Len(Jobs(cfg)) /\ Parses(Jobs(cfg)[n]) /\ entries[n] = EntryOf(Jobs(cfg)[n])

Loading(g) ==
    LET entries == crons[cron].entries
        todo == loader[g].todo
    IN /\ ~crons[cron].running
       /\ Begins(entries, config)
       /\ Len(entries) + Len(todo) = Len(Jobs(config))
       /\ \A n \in 1..Len(todo) : todo[n] = Jobs(config)[Len(entries) + n]

Loaded ==
    IF crons[cron].running
    THEN Begins(crons[cron].entries, config) /\ Len(crons[cron].entries) = Len(Jobs(config))
    ELSE \E n \in DOMAIN Jobs(config) : ~Parses(Jobs(config)[n])

(* No cron has two entries for a job. *)
OneOfEach(entries) ==
    \A m, n \in DOMAIN entries : entries[m].job = entries[n].job => m = n

LoaderInv(g) ==
    LET pc == loader[g].pc IN
    /\ AtWork(g) => up
    /\ pc = "boot" => g = Main
    /\ pc \in {"save", "stop", "stopping"} => g \in Savers
    /\ pc \in {"save", "stop", "stopping", "add"} => cron # 0
    /\ pc \in {"boot", "read", "new"} => cron = 0
    /\ pc = "save" => loader[g].cfg \in Config
    /\ pc \notin {"idle", "boot"} => config # NoConfig
    /\ pc \in {"new", "add"} => loader[g].cfg = config
    /\ pc = "add" => Loading(g)

SchedulerInv ==
    /\ TypeOK
    /\ \A g \in Goroutine : LoaderInv(g)
    /\ \A g, h \in Goroutine : AtWork(g) /\ AtWork(h) => g = h
    /\ \A c \in DOMAIN crons : c # cron => crons[c] = FreshCron
    /\ \A c \in DOMAIN crons : OneOfEach(crons[c].entries)
    /\ ~up => cron = 0
    /\ view = "tested" => up /\ ~AtWork(Main)
    /\ Quiet => cron # 0 /\ config # NoConfig /\ Loaded
    /\ \A job \in Job : ran[job] <= 1

-----------------------------------------------------------------------------
(* What the documentation says of the scheduler, and the code does not do. *)

(* NextRunTimes "returns the next scheduled run times", and Stop stops: no *)
(* method is called on a cron that is nil.                                 *)
NoNilCron == ~nilUsed

(* "The scheduler runs daily at 1:00 AM": as long as the process runs and  *)
(* nobody is loading, the retention job is scheduled.                      *)
RetentionScheduled == Quiet => Firings("retention") # {}

(* The snapshot of the own database is taken "every hour" a cron runs.     *)
SelfBackupStep ==
    hour' # hour /\ (\E c \in DOMAIN crons : crons[c].running) => ran'["self"] >= 1

SelfBackupHourly == [][SelfBackupStep]_vars
=============================================================================
