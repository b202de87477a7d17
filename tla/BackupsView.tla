----------------------------- MODULE BackupsView -----------------------------
(***************************************************************************)
(* The tab of the backups: what the user confirms there, what it starts,   *)
(* and when the answers arrive.  What the use cases do is in BackupQuery   *)
(* and Restore; here a deletion takes a record away and the rest takes its *)
(* time.                                                                   *)
(***************************************************************************)
EXTENDS Tui

VARIABLES
    records,        \* the ids in the store
    bv,             \* the model of the view
    asked           \* history: the word was typed in the dialog that is open

backupsVars == <<records, bv, asked>>

BackupsMode ==
    {"list", "detail", "confirmDelete", "restore", "restoring",
     "restoreAll", "restoringAll", "history"}

BackupsTypeOK ==
    /\ records \subseteq Id
    /\ bv \in [mode : BackupsMode, list : SUBSET Id, selected : Nat \ {0},
               loading : BOOLEAN, deleteID : Id \cup {0},
               confirmInput : BOOLEAN, restoreConfirm : BOOLEAN]
    /\ asked \in BOOLEAN

BackupsInit ==
    /\ records = Id
    /\ bv = [mode |-> "list", list |-> {}, selected |-> 1, loading |-> TRUE,
             deleteID |-> 0, confirmInput |-> FALSE, restoreConfirm |-> FALSE]
    /\ asked = FALSE

Chosen == At(bv.list, bv.selected)
BackupsKey(mode) == tab = TabBackups /\ bv.mode = mode

-----------------------------------------------------------------------------
(* The keys of the list and of the detail. *)
BMove ==
    /\ BackupsKey("list")
    /\ \E i \in Moves(bv.list, bv.selected) : bv' = [bv EXCEPT !.selected = i]
    /\ UNCHANGED <<cmds, records, asked>>

BDetail ==
    /\ BackupsKey("list") /\ bv.list # {}
    /\ bv' = [bv EXCEPT !.mode = "detail"]
    /\ UNCHANGED <<cmds, records, asked>>

(* Mistaken variant: the word of an earlier dialog is still there. *)
StartDeleteKeepsWord ==
    bv' = [bv EXCEPT !.mode = "confirmDelete", !.deleteID = Chosen]

StartDelete ==
    bv' = [bv EXCEPT !.mode = "confirmDelete", !.deleteID = Chosen, !.confirmInput = FALSE]

BDelete ==
    /\ BackupsKey("list") \/ BackupsKey("detail")
    /\ bv.list # {}
    /\ StartDelete
    /\ asked' = FALSE
    /\ UNCHANGED <<cmds, records>>

BRestore ==
    /\ BackupsKey("list") \/ BackupsKey("detail")
    /\ bv.list # {}
    /\ bv' = [bv EXCEPT !.mode = "restore", !.restoreConfirm = FALSE]
    /\ asked' = FALSE
    /\ UNCHANGED <<cmds, records>>

BRestoreAll ==
    /\ BackupsKey("list")
    /\ bv' = [bv EXCEPT !.mode = "restoreAll", !.loading = TRUE]
    /\ Send("preview", 0)
    /\ asked' = FALSE
    /\ UNCHANGED records

BHistory ==
    /\ BackupsKey("list") \/ BackupsKey("history")
    /\ bv' = [bv EXCEPT !.mode = "history", !.loading = TRUE]
    /\ Send("history", 0)
    /\ UNCHANGED <<records, asked>>

BRefresh ==
    /\ BackupsKey("list")
    /\ bv' = [bv EXCEPT !.loading = TRUE]
    /\ Send("loadBackups", 0)
    /\ UNCHANGED <<records, asked>>

BEsc ==
    /\ \E mode \in {"detail", "confirmDelete", "restore", "restoreAll", "history"} :
          BackupsKey(mode)
    /\ bv' = [bv EXCEPT !.mode = "list",
                 !.deleteID = IF bv.mode = "confirmDelete" THEN 0 ELSE @]
    /\ asked' = FALSE
    /\ UNCHANGED <<cmds, records>>

-----------------------------------------------------------------------------
(* Typing and deleting the word, and Enter. *)
BType ==
    /\ \/ /\ BackupsKey("confirmDelete") \/ (BackupsKey("restoreAll") /\ ~bv.loading)
          /\ bv' = [bv EXCEPT !.confirmInput = ~@]
       \/ /\ BackupsKey("restore")
          /\ bv' = [bv EXCEPT !.restoreConfirm = ~@]
    /\ asked' = IF bv.mode = "restore" THEN ~bv.restoreConfirm ELSE ~bv.confirmInput
    /\ UNCHANGED <<cmds, records>>

EnterDelete ==
    /\ BackupsKey("confirmDelete")
    /\ bv.confirmInput
    /\ bv' = [bv EXCEPT !.loading = TRUE]
    /\ Send("delete", bv.deleteID)
    /\ UNCHANGED <<records, asked>>

EnterRestore ==
    /\ BackupsKey("restore")
    /\ bv.restoreConfirm
    /\ bv' = [bv EXCEPT !.mode = "restoring", !.loading = TRUE]
    /\ Send("restore", 0)
    /\ asked' = FALSE
    /\ UNCHANGED records

EnterRestoreAll ==
    /\ BackupsKey("restoreAll")
    /\ ~bv.loading
    /\ bv.confirmInput
    /\ bv' = [bv EXCEPT !.mode = "restoringAll", !.loading = TRUE]
    /\ Send("restoreAll", 0)
    /\ asked' = FALSE
    /\ UNCHANGED records

BackupsKeys ==
    \/ BMove \/ BDetail \/ BDelete \/ BRestore \/ BRestoreAll \/ BHistory
    \/ BRefresh \/ BEsc \/ BType \/ EnterDelete \/ EnterRestore \/ EnterRestoreAll

-----------------------------------------------------------------------------
(* The commands. *)
ReadsBackups(s) ==
    /\ Carry(s, "loadBackups")
    /\ Done(s, TRUE, records)
    /\ UNCHANGED <<records, bv, asked>>

DeletesBackup(s) ==
    /\ Carry(s, "delete")
    /\ \/ /\ cmds[s].id \in records
          /\ records' = records \ {cmds[s].id}
          /\ Done(s, TRUE, {})
       \/ Done(s, FALSE, {}) /\ UNCHANGED records
    /\ UNCHANGED <<bv, asked>>

Answers(s) ==
    /\ \E kind \in {"restore", "preview", "restoreAll", "history"} : Carry(s, kind)
    /\ \E ok \in BOOLEAN : Done(s, ok, {})
    /\ UNCHANGED <<records, bv, asked>>

BackupsCommand(s) == ReadsBackups(s) \/ DeletesBackup(s) \/ Answers(s)

-----------------------------------------------------------------------------
(* The messages.  After a deletion, and after all databases were restored, *)
(* the list is loaded again.                                               *)
BackupsKinds == {"loadBackups", "delete", "restore", "preview", "restoreAll", "history"}

BackupsLoaded(s) ==
    /\ Arrives(s, "loadBackups")
    /\ bv' = [bv EXCEPT !.loading = FALSE, !.list = cmds[s].list,
                        !.selected = Clamp(cmds[s].list, @)]
    /\ Over(s)

LoadAgain(s) == cmds' = [cmds EXCEPT ![s] = Command0("loadBackups", 0)]

DeleteMsg(s) ==
    /\ Arrives(s, "delete")
    /\ bv' = [bv EXCEPT !.loading = TRUE, !.mode = IF cmds[s].ok THEN "list" ELSE @]
    /\ LoadAgain(s)

(* Mistaken variant: a failure leaves the view where it was. *)
RestoreDoneIfOk(s) ==
    /\ Arrives(s, "restore")
    /\ bv' = [bv EXCEPT !.loading = FALSE, !.mode = IF cmds[s].ok THEN "list" ELSE @]
    /\ Over(s)

RestoreDone(s) ==
    /\ Arrives(s, "restore")
    /\ bv' = [bv EXCEPT !.loading = FALSE, !.mode = "list"]
    /\ Over(s)

Preview(s) ==
    /\ Arrives(s, "preview")
    /\ bv' = IF cmds[s].ok THEN [bv EXCEPT !.loading = FALSE, !.confirmInput = FALSE]
                           ELSE [bv EXCEPT !.loading = FALSE, !.mode = "list"]
    /\ Over(s)

RestoreAllDone(s) ==
    /\ Arrives(s, "restoreAll")
    /\ bv' = [bv EXCEPT !.loading = TRUE, !.mode = "list"]
    /\ LoadAgain(s)

HistoryLoaded(s) ==
    /\ Arrives(s, "history")
    /\ bv' = [bv EXCEPT !.loading = FALSE]
    /\ Over(s)

BackupsMessage(s) ==
    /\ \/ /\ tab = TabBackups
          /\ \/ BackupsLoaded(s) \/ DeleteMsg(s) \/ RestoreDone(s)
             \/ Preview(s) \/ RestoreAllDone(s) \/ HistoryLoaded(s)
       \/ /\ tab # TabBackups
          /\ \E kind \in BackupsKinds : Arrives(s, kind)
          /\ UNCHANGED bv
          /\ Over(s)
    /\ UNCHANGED <<records, asked>>
=============================================================================
