------------------------------- MODULE TuiApp -------------------------------
(***************************************************************************)
(* The interface: the root model and its views of instances and backups.   *)
(***************************************************************************)
EXTENDS InstancesView, BackupsView

vars == <<used, tab, s3Configured, s3Saved, dashLoaded, cmds,
          instances, iv, panicked, records, bv, asked>>

Init == TuiInit /\ InstancesInit /\ BackupsInit

TypeOK == TuiTypeOK /\ InstancesTypeOK /\ BackupsTypeOK

(* Refresh of the view of the backups shows that it is loading; the views  *)
(* keep their mode.                                                        *)
ChangeTab ==
    /\ KeyTab
    /\ bv' = [bv EXCEPT !.loading = @ \/ LoadOf(tab') = "loadBackups"]
    /\ UNCHANGED <<instances, iv, panicked, records, asked>>

Keys ==
    \/ /\ RootKeys
       /\ UNCHANGED <<instances, iv, panicked, records, bv, asked>>
    \/ /\ "instances" \in used
       /\ InstancesKeys
       /\ UNCHANGED <<tab, s3Configured, s3Saved, dashLoaded, records, bv, asked>>
    \/ /\ "backups" \in used
       /\ BackupsKeys
       /\ UNCHANGED <<tab, s3Configured, s3Saved, dashLoaded, instances, iv, panicked>>

(* What one command does: it is carried out, or its message delivered. *)
CommandStep(s) ==
    \/ /\ RootCommand(s)
       /\ UNCHANGED <<instances, iv, panicked, records, bv, asked>>
    \/ /\ InstancesCommand(s) \/ InstancesMessage(s)
       /\ UNCHANGED <<tab, s3Configured, s3Saved, dashLoaded, records, bv, asked>>
    \/ /\ BackupsCommand(s) \/ BackupsMessage(s)
       /\ UNCHANGED <<tab, s3Configured, s3Saved, dashLoaded, instances, iv, panicked>>

AppNext ==
    /\ ~panicked
    /\ \/ ChangeTab
       \/ Keys
       \/ \E s \in Slot : CommandStep(s)
    /\ UNCHANGED used

Spec == Init /\ [][AppNext]_vars

-----------------------------------------------------------------------------
(* "Keep selected index in bounds": in both lists, whatever was deleted    *)
(* while the list was being shown.                                         *)
SelectionsInRange ==
    /\ iv.list # {} => InList(iv.list, iv.selected)
    /\ bv.list # {} => InList(bv.list, bv.selected)

(* Without S3 the user is kept on its tab, once the program knows.         *)
KeptOnS3 == ~s3Configured => tab = TabS3Config \/ ~dashLoaded

(* A deletion is of the record its dialog was opened for, and neither it   *)
(* nor a restore starts before the word was typed in its dialog.           *)
ConfirmedStep ==
    /\ EnterDelete => asked /\ bv.deleteID # 0
    /\ EnterRestore => asked

Confirmed == [][ConfirmedStep]_vars

(* The same for the restore of all databases. *)
RestoreAllConfirmed == [][EnterRestoreAll => asked]_vars

(* An answer is lost only on a user who left: a view that takes no key     *)
(* until it is answered starts to wait with its command under way, and     *)
(* still waits after the answer came only if another tab was shown then.   *)
Ends(kind) == InFlight(kind) /\ ~InFlight(kind)'

AnswersReachStep ==
    /\ iv'.mode = "testing" =>
          IF iv.mode = "testing" THEN Ends("test") => tab # TabInstances
                                 ELSE InFlight("test")'
    /\ bv'.mode = "restoring" =>
          IF bv.mode = "restoring" THEN Ends("restore") => tab # TabBackups
                                   ELSE InFlight("restore")'
    /\ bv'.mode = "restoringAll" =>
          IF bv.mode = "restoringAll" THEN Ends("restoreAll") => tab # TabBackups
                                      ELSE InFlight("restoreAll")'

AnswersReach == [][AnswersReachStep]_vars

(* Such a view has a command under way that will answer it. *)
AnswersComing ==
    /\ iv.mode = "testing" => InFlight("test")
    /\ bv.mode = "restoring" => InFlight("restore")
    /\ bv.mode = "restoringAll" => InFlight("restoreAll")

(* The program knows of a configuration it saved. *)
StaysConfigured == [][s3Configured /\ s3Saved => s3Configured']_vars

(* No key ends the program by an index out of range. *)
NoPanic == ~panicked

-----------------------------------------------------------------------------
(* The inductive invariant. *)

(* The dialog that is open holds what was typed since it was opened.       *)
DialogKnown ==
    /\ bv.mode = "confirmDelete" => bv.deleteID # 0 /\ (bv.confirmInput => asked)
    /\ bv.mode = "restore" => (bv.restoreConfirm => asked)

(* No answer of before S3 was configured is left once it is: the first     *)
(* load of the dashboard is the only one that may come too early.          *)
StartKnown ==
    /\ s3Configured => s3Saved
    /\ \A s \in Slot : cmds[s].kind \in {"dash", "saveS3"} /\ cmds[s].ok => s3Saved
    /\ used # {} /\ ~dashLoaded =>
          /\ tab = TabDashboard
          /\ ~s3Configured
          /\ ~InFlight("saveS3")
          /\ \A s, t \in Slot : cmds[s].kind = "dash" /\ cmds[t].kind = "dash" => s = t
    /\ used # {} /\ dashLoaded =>
          \A s \in Slot : cmds[s].kind = "dash" =>
             s3Saved /\ (cmds[s].done => cmds[s].ok)

TuiInv ==
    /\ TypeOK
    /\ SelectionsInRange
    /\ KeptOnS3
    /\ DialogKnown
    /\ StartKnown
=============================================================================
