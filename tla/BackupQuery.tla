---------------------------- MODULE BackupQuery ----------------------------
(***************************************************************************)
(* BackupQueryUseCase.DeleteBackup with its cascade, called by the TUI and *)
(* by the retention sweep (module Retention).  Every bbolt transaction and *)
(* every S3 request is a step of its own, and what a step read is kept in  *)
(* the goroutine's local state, where it grows stale.                      *)
(***************************************************************************)
EXTENDS BackupRecords

CONSTANTS
    Users,         \* goroutines of the TUI that run DeleteBackup
    Sweeps         \* goroutines that run ApplyRetention

ASSUME DeletersAssumption == Users \cap Sweeps = {}

VARIABLE del       \* the activation of DeleteBackup of each goroutine

Deleters == Users \cup Sweeps

Target == [id : RecId, key : Key \cup {NoKey}]
NoTarget == [id |-> NoId, key |-> NoKey]

DelPc == {"idle", "find", "list", "cascade", "mark", "ok", "err"}

DelState ==
    [pc   : DelPc,
     root : Target \cup {NoTarget},     \* rec: the record DeleteBackup was given
     kids : SUBSET Target,              \* the children not yet deleted
     cur  : Target \cup {NoTarget},     \* the argument of deleteOne
     owed  : SUBSET RecId,       \* history: the logs completed when it found its record
     asked : BOOLEAN]            \* history: S3 was asked to delete cur's object

IdleDel ==
    [pc |-> "idle", root |-> NoTarget, kids |-> {}, cur |-> NoTarget,
     owed |-> {}, asked |-> FALSE]

CallDelete(i) ==
    [IdleDel EXCEPT !.pc = "find", !.root = [id |-> i, key |-> NoKey]]

QueryInit == del = [p \in Deleters |-> IdleDel]

QueryTypeOK == del \in [Deleters -> DelState]

-----------------------------------------------------------------------------
(* DeleteBackup *)

CompletedChildren(i) == {j \in FindChildren(i) : records[j].status = "completed"}

(* Mistaken variant: the children are never listed. *)
DeleteFindAlone(p) ==
    LET i == del[p].root.id IN
    /\ del[p].pc = "find"
    /\ del' = [del EXCEPT ![p].root.key = records[i].fileName,
                          ![p].owed = CompletedChildren(i),
                          ![p].pc = "cascade"]
    /\ UNCHANGED <<records, bucket, now>>

(* FindByID. *)
DeleteFind(p) ==
    LET i == del[p].root.id IN
    /\ del[p].pc = "find"
    /\ del' = [del EXCEPT ![p].root.key = records[i].fileName,
                          ![p].owed = CompletedChildren(i),
                          ![p].pc = IF IsFull(i) THEN "list" ELSE "cascade"]
    /\ UNCHANGED <<records, bucket, now>>

(* FindAll, filtered by ParentBackupID, with the file names as of now. *)
DeleteList(p) ==
    /\ del[p].pc = "list"
    /\ del' = [del EXCEPT
                 ![p].kids = {[id |-> j, key |-> records[j].fileName] :
                                 j \in FindChildren(del[p].root.id)},
                 ![p].pc = "cascade"]
    /\ UNCHANGED <<records, bucket, now>>

(* What deleteOne is called with next: the children first, the record last. *)
NextTargets(p) == IF del[p].kids # {} THEN del[p].kids ELSE {del[p].root}

(* deleteOne's first half: DeleteObject, unless the record has no file. *)
DeleteObjectOf(p) ==
    /\ del[p].pc = "cascade"
    /\ \E one \in NextTargets(p) :
          /\ DeleteObject(one.key)
          /\ del' = [del EXCEPT ![p].pc = "mark", ![p].cur = one,
                                ![p].kids = @ \ {one},
                                ![p].asked = one.key # NoKey]
    /\ UNCHANGED <<records, now>>

(* The S3 configuration cannot be read or used: deleteOne goes on as if    *)
(* there were nothing to delete.                                           *)
DeleteObjectSkipped(p) ==
    /\ "config" \in Faults
    /\ del[p].pc = "cascade"
    /\ \E one \in NextTargets(p) :
          /\ one.key # NoKey
          /\ del' = [del EXCEPT ![p].pc = "mark", ![p].cur = one,
                                ![p].kids = @ \ {one},
                                ![p].asked = FALSE]
    /\ UNCHANGED <<records, bucket, now>>

(* DeleteObject returned an error, whether or not S3 removed the object:   *)
(* the whole DeleteBackup is abandoned.                                    *)
DeleteObjectFail(p) ==
    /\ "delete" \in Faults
    /\ del[p].pc = "cascade"
    /\ \E one \in NextTargets(p) :
          /\ one.key # NoKey
          /\ DeleteObject(one.key) \/ UNCHANGED bucket
    /\ del' = [del EXCEPT ![p].pc = "err"]
    /\ UNCHANGED <<records, now>>

(* deleteOne's second half: UpdateStatus(Expired).  After the record       *)
(* itself DeleteBackup returns; after a child it goes on.                  *)
DeleteMark(p) ==
    /\ del[p].pc = "mark"
    /\ UpdateStatus(del[p].cur.id, "expired")
    /\ del' = [del EXCEPT ![p].pc = IF del[p].cur.id = del[p].root.id
                                    THEN "ok" ELSE "cascade"]
    /\ UNCHANGED <<bucket, now>>

DeleteStep(p) ==
    \/ DeleteFind(p)
    \/ DeleteList(p)
    \/ DeleteObjectOf(p)
    \/ DeleteObjectSkipped(p)
    \/ DeleteObjectFail(p)
    \/ DeleteMark(p)

(* The TUI lets the user delete any record of the list, whatever its status. *)
UserDeletes(u) ==
    /\ del[u].pc = "idle"
    /\ \E i \in DOMAIN records : del' = [del EXCEPT ![u] = CallDelete(i)]
    /\ UNCHANGED <<records, bucket, now>>

UserReturns(u) ==
    /\ del[u].pc \in {"ok", "err"}
    /\ del' = [del EXCEPT ![u] = IdleDel]
    /\ UNCHANGED <<records, bucket, now>>
=============================================================================
