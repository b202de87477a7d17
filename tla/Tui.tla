--------------------------------- MODULE Tui ---------------------------------
(***************************************************************************)
(* The root model of the interface.  What a key starts runs on a goroutine *)
(* of its own (a command) and ends in a message, which Update gives to the *)
(* view of the tab that is active by then.                                 *)
(*                                                                         *)
(* A command is first carried out and then delivered; id is what it is     *)
(* about, ok and list what it answers.                                     *)
(***************************************************************************)
EXTENDS Naturals, FiniteSets

CONSTANTS
    MaxId,          \* bound: instances, and records, there may be
    Slot,           \* bound: one for each command under way at once
    InitConfigured, \* whether S3 has been configured before
    Uses            \* bound: which tabs the user works in; of others nothing is loaded

ASSUME TuiAssumption ==
    /\ MaxId \in Nat
    /\ IsFiniteSet(Slot)
    /\ Uses \subseteq SUBSET {"instances", "backups"}
    /\ \A use \in Uses : Cardinality(Slot) >= 1 + Cardinality(use)
    /\ InitConfigured \subseteq BOOLEAN

VARIABLES
    used,           \* the tabs the user works in, chosen once
    tab,            \* activeTab
    s3Configured,   \* of the model
    s3Saved,        \* in the store
    dashLoaded,     \* history: the dashboard has been loaded once
    cmds

tuiVars == <<used, tab, s3Configured, s3Saved, dashLoaded, cmds>>

TabDashboard == 0
TabInstances == 1
TabBackups == 2
TabS3Config == 3
Tabs == 0..4

Id == 1..MaxId

Kind == {"dash", "saveS3",
         "loadInstances", "saveInstance", "deleteInstance", "test", "backup",
         "loadBackups", "delete", "restore", "preview", "restoreAll", "history"}

Command ==
    [kind : Kind \cup {"none"}, id : Id \cup {0}, done : BOOLEAN, ok : BOOLEAN,
     list : SUBSET Id]

NoCommand == [kind |-> "none", id |-> 0, done |-> FALSE, ok |-> FALSE, list |-> {}]
Command0(kind, id) == [NoCommand EXCEPT !.kind = kind, !.id = id]

TuiTypeOK ==
    /\ used \in Uses
    /\ tab \in Tabs
    /\ s3Configured \in BOOLEAN
    /\ s3Saved \in BOOLEAN
    /\ dashLoaded \in BOOLEAN
    /\ cmds \in [Slot -> Command]

(* Refresh of each view. *)
Loads == [instances |-> "loadInstances", backups |-> "loadBackups"]

(* What the program starts with: Init of the root model and of its views.  *)
Started ==
    {"dash"} \cup {Loads[view] : view \in used}

TuiInit ==
    /\ used \in Uses
    /\ tab = TabDashboard
    /\ s3Configured = FALSE
    /\ s3Saved \in InitConfigured
    /\ dashLoaded = FALSE
    /\ cmds \in {f \in [Slot -> {Command0(kind, 0) : kind \in Started \cup {"none"}}] :
                   \A kind \in Started : Cardinality({s \in Slot : f[s].kind = kind}) = 1}

-----------------------------------------------------------------------------
(* Commands. *)
Free(s) == cmds[s].kind = "none"

Send(kind, id) ==
    \E s \in Slot : Free(s) /\ cmds' = [cmds EXCEPT ![s] = Command0(kind, id)]

InFlight(kind) == \E s \in Slot : cmds[s].kind = kind

(* The command of slot s, of that kind, is carried out. *)
Carry(s, kind) == cmds[s].kind = kind /\ ~cmds[s].done

Done(s, ok, list) ==
    cmds' = [cmds EXCEPT ![s].done = TRUE, ![s].ok = ok, ![s].list = list]

(* Its message arrives. *)
Arrives(s, kind) == cmds[s].kind = kind /\ cmds[s].done

Over(s) == cmds' = [cmds EXCEPT ![s] = NoCommand]

-----------------------------------------------------------------------------
(* Pages down and up, which S3 has to be configured for.  The new tab is   *)
(* loaded again.                                                           *)
TabNext(t) == (t + 1) % 5
TabPrev(t) == (t + 4) % 5

(* Mistaken variant: the configuration is not asked for. *)
MayMoveAlways == TRUE
MayMove == s3Configured

LoadOf(t) ==
    CASE t = TabDashboard -> "dash"
      [] t = TabInstances /\ "instances" \in used -> Loads.instances
      [] t = TabBackups /\ "backups" \in used -> Loads.backups
      [] OTHER -> "none"

KeyTab ==
    /\ MayMove
    /\ tab' \in {TabNext(tab), TabPrev(tab)}
    /\ IF LoadOf(tab') = "none" THEN UNCHANGED cmds ELSE Send(LoadOf(tab'), 0)
    /\ UNCHANGED <<s3Configured, s3Saved, dashLoaded>>

(* Every ten seconds on the dashboard, and after a backup.  Bound: one at  *)
(* a time, and only where no other tab is worked in.                       *)
DashTick ==
    /\ used = {}
    /\ tab = TabDashboard
    /\ ~InFlight("dash")
    /\ Send("dash", 0)
    /\ UNCHANGED <<tab, s3Configured, s3Saved, dashLoaded>>

BackupEnds ==
    /\ used = {}
    /\ ~InFlight("dash")
    /\ Send("dash", 0)
    /\ UNCHANGED <<tab, s3Configured, s3Saved, dashLoaded>>

DashReads(s) ==
    /\ Carry(s, "dash")
    /\ Done(s, s3Saved, {})
    /\ UNCHANGED <<tab, s3Configured, s3Saved, dashLoaded>>

DashLoaded(s) ==
    /\ Arrives(s, "dash")
    /\ dashLoaded' = TRUE
    /\ s3Configured' = cmds[s].ok
    /\ tab' = IF cmds[s].ok THEN tab ELSE TabS3Config
    /\ Over(s)
    /\ UNCHANGED s3Saved

(* The tab of S3.  Save refuses a configuration without a bucket or        *)
(* credentials.                                                            *)
KeySaveS3 ==
    /\ tab = TabS3Config
    /\ Send("saveS3", 0)
    /\ UNCHANGED <<tab, s3Configured, s3Saved, dashLoaded>>

SavesS3(s) ==
    /\ Carry(s, "saveS3")
    /\ \/ s3Saved' = TRUE /\ Done(s, TRUE, {})
       \/ UNCHANGED s3Saved /\ Done(s, FALSE, {})
    /\ UNCHANGED <<tab, s3Configured, dashLoaded>>

SavedMsg(s) ==
    /\ Arrives(s, "saveS3")
    /\ s3Configured' = (s3Configured \/ cmds[s].ok)
    /\ Over(s)
    /\ UNCHANGED <<tab, s3Saved, dashLoaded>>

RootKeys == DashTick \/ BackupEnds \/ KeySaveS3
RootCommand(s) == DashReads(s) \/ DashLoaded(s) \/ SavesS3(s) \/ SavedMsg(s)

-----------------------------------------------------------------------------
(* The lists of the views: sets of ids, of which the i-th is selected.     *)
At(list, i) == CHOOSE x \in list : Cardinality({y \in list : y < x}) = i - 1
InList(list, i) == i \in 1..Cardinality(list)

(* Mistaken variant. *)
Keep(list, i) == i

Clamp(list, i) == IF InList(list, i) \/ list = {} THEN i ELSE Cardinality(list)

Moves(list, i) == {j \in {i - 1, i + 1} : j >= 1 /\ (j < i \/ j <= Cardinality(list))}
=============================================================================
