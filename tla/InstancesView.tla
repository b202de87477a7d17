---------------------------- MODULE InstancesView ----------------------------
(***************************************************************************)
(* The tab of the instances, over InstanceUseCase and its repository.      *)
(***************************************************************************)
EXTENDS Tui

VARIABLES
    instances,      \* the ids in the store
    iv,             \* the model of the view
    panicked

instancesVars == <<instances, iv, panicked>>

InstancesMode == {"list", "form", "confirmDelete", "confirmBackup", "testing"}

InstancesTypeOK ==
    /\ instances \subseteq Id
    /\ iv \in [mode : InstancesMode, list : SUBSET Id, selected : Nat \ {0},
               editing : Id \cup {0}, typed : BOOLEAN]
    /\ panicked \in BOOLEAN

InstancesInit ==
    /\ instances = Id
    /\ iv = [mode |-> "list", list |-> {}, selected |-> 1, editing |-> 0, typed |-> FALSE]
    /\ panicked = FALSE

Selected == At(iv.list, iv.selected)

-----------------------------------------------------------------------------
(* The keys, by the mode they are for. *)
InstancesKey(mode) == tab = TabInstances /\ iv.mode = mode
ToMode(mode) == iv' = [iv EXCEPT !.mode = mode]

IMove ==
    /\ InstancesKey("list")
    /\ \E i \in Moves(iv.list, iv.selected) : iv' = [iv EXCEPT !.selected = i]
    /\ UNCHANGED <<cmds, instances, panicked>>

INew ==
    /\ InstancesKey("list")
    /\ iv' = [iv EXCEPT !.mode = "form", !.editing = 0]
    /\ UNCHANGED <<cmds, instances, panicked>>

IEdit ==
    /\ InstancesKey("list") /\ iv.list # {}
    /\ iv' = [iv EXCEPT !.mode = "form", !.editing = Selected]
    /\ UNCHANGED <<cmds, instances, panicked>>

IDelete ==
    /\ InstancesKey("list") /\ iv.list # {}
    /\ ToMode("confirmDelete")
    /\ UNCHANGED <<cmds, instances, panicked>>

ITest ==
    /\ InstancesKey("list") /\ iv.list # {}
    /\ ToMode("testing")
    /\ Send("test", Selected)
    /\ UNCHANGED <<instances, panicked>>

IBackup ==
    /\ InstancesKey("list") /\ iv.list # {}
    /\ iv' = [iv EXCEPT !.mode = "confirmBackup", !.typed = FALSE]
    /\ UNCHANGED <<cmds, instances, panicked>>

IRefresh ==
    /\ InstancesKey("list")
    /\ Send("loadInstances", 0)
    /\ UNCHANGED <<iv, instances, panicked>>

IEsc ==
    /\ \E mode \in {"form", "confirmDelete", "confirmBackup"} : InstancesKey(mode)
    /\ ToMode("list")
    /\ UNCHANGED <<cmds, instances, panicked>>

ISubmit ==
    /\ InstancesKey("form")
    /\ ToMode("list")
    /\ Send("saveInstance", iv.editing)
    /\ UNCHANGED <<instances, panicked>>

IYes ==
    /\ InstancesKey("confirmDelete")
    /\ ToMode("list")
    /\ IF iv.list = {} THEN UNCHANGED cmds ELSE Send("deleteInstance", Selected)
    /\ UNCHANGED <<instances, panicked>>

IType ==
    /\ InstancesKey("confirmBackup")
    /\ iv' = [iv EXCEPT !.typed = ~@]
    /\ UNCHANGED <<cmds, instances, panicked>>

(* The index is used without a test: out of range, the program ends. *)
IConfirm ==
    /\ InstancesKey("confirmBackup")
    /\ iv.typed
    /\ IF InList(iv.list, iv.selected)
         THEN ToMode("list") /\ Send("backup", Selected) /\ UNCHANGED panicked
         ELSE panicked' = TRUE /\ UNCHANGED <<iv, cmds>>
    /\ UNCHANGED instances

InstancesKeys ==
    \/ IMove \/ INew \/ IEdit \/ IDelete \/ ITest \/ IBackup \/ IRefresh
    \/ IEsc \/ ISubmit \/ IYes \/ IType \/ IConfirm

-----------------------------------------------------------------------------
(* The commands.  A deletion and a save go on to read the list; a save of  *)
(* what the form cannot make an instance of, or of one that is gone, does  *)
(* not.                                                                    *)
Reload(s) == cmds' = [cmds EXCEPT ![s] = Command0("loadInstances", 0)]

ReadsInstances(s) ==
    /\ Carry(s, "loadInstances")
    /\ Done(s, TRUE, instances)
    /\ UNCHANGED <<instances, iv, panicked>>

Deletes(s) ==
    /\ Carry(s, "deleteInstance")
    /\ instances' = instances \ {cmds[s].id}
    /\ Reload(s)
    /\ UNCHANGED <<iv, panicked>>

Saves(s) ==
    /\ Carry(s, "saveInstance")
    /\ \/ /\ \E i \in Id :
                /\ IF cmds[s].id = 0 THEN i \notin instances
                   ELSE i = cmds[s].id /\ i \in instances
                /\ instances' = instances \cup {i}
          /\ Reload(s)
       \/ /\ cmds' = [cmds EXCEPT ![s] =
                         [Command0("loadInstances", 0) EXCEPT !.done = TRUE]]
          /\ UNCHANGED instances
    /\ UNCHANGED <<iv, panicked>>

TestsOrBacksUp(s) ==
    /\ Carry(s, "test") \/ Carry(s, "backup")
    /\ \E ok \in BOOLEAN : Done(s, ok, {})
    /\ UNCHANGED <<instances, iv, panicked>>

InstancesCommand(s) ==
    ReadsInstances(s) \/ Deletes(s) \/ Saves(s) \/ TestsOrBacksUp(s)

-----------------------------------------------------------------------------
(* The messages; with another tab active, nobody takes them. *)
InstancesKinds == {"loadInstances", "test", "backup"}

InstancesLoaded(s) ==
    /\ Arrives(s, "loadInstances")
    /\ iv' = IF cmds[s].ok
               THEN [iv EXCEPT !.list = cmds[s].list,
                               !.selected = Clamp(cmds[s].list, @)]
               ELSE iv

TestResult(s) == Arrives(s, "test") /\ ToMode("list")

BackupFinished(s) == Arrives(s, "backup") /\ UNCHANGED iv

InstancesMessage(s) ==
    /\ \/ /\ tab = TabInstances
          /\ InstancesLoaded(s) \/ TestResult(s) \/ BackupFinished(s)
       \/ /\ tab # TabInstances
          /\ \E kind \in InstancesKinds : Arrives(s, kind)
          /\ UNCHANGED iv
    /\ Over(s)
    /\ UNCHANGED <<instances, panicked>>
=============================================================================
