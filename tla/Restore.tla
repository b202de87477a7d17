------------------------------ MODULE Restore ------------------------------
(***************************************************************************)
(* RestoreUseCase: RestoreBackup of one record and RestoreAll, each on a   *)
(* goroutine the TUI starts.  A restore downloads and applies the backups  *)
(* of a chain one after the other, while backups go on and deletions may   *)
(* take the objects away.  Restores are in place: the TUI fills in the     *)
(* instance and the database of the record.                                *)
(***************************************************************************)
EXTENDS SqlServerAdapter

CONSTANTS
    Restorers,     \* the goroutines that run restores
    Master,        \* the databases named master
    MaxRestores    \* bound: restore records in a behaviour

ASSUME RestoreAssumption ==
    /\ Master \subseteq SqlServer
    /\ MaxRestores \in Nat

VARIABLES
    restores,      \* the RestoreRecords
    restore        \* the local state of each goroutine

Link == [id : RecId, key : Key \cup {NoKey}]

RestoreRecord ==
    [db     : Databases,
     target : RecId,
     status : Status,
     chain  : Seq(RecId)]

RestorePc == {"idle", "next", "chain", "download", "apply", "finish"}

RestoreState ==
    [pc    : RestorePc,
     all   : BOOLEAN,              \* RestoreAll or RestoreBackup
     todo  : SUBSET RecId,         \* targets of the RestoreBackup calls to come
     rec   : Nat,                  \* the restore record of the current call
     key   : Key \cup {NoKey},     \* the target's file name, as FindByID read it
     chain : Seq(Link),            \* what buildChain returned
     ids   : Seq(RecId),           \* chainIDs; its length is the loop's position
     data  : Data \cup {NoData},   \* what Download returned last
     done  : Seq(RecId),           \* the backups the engine took in
     err   : BOOLEAN]              \* restoreErr # nil

IdleRestore ==
    [pc |-> "idle", all |-> FALSE, todo |-> {}, rec |-> 0, key |-> NoKey,
     chain |-> <<>>, ids |-> <<>>, data |-> NoData,
     done |-> <<>>, err |-> FALSE]

RestoreInit ==
    /\ restores = <<>>
    /\ restore = [r \in Restorers |-> IdleRestore]

RestoreTypeOK ==
    /\ restores \in Seq(RestoreRecord)
    /\ restore \in [Restorers -> RestoreState]

backupVars == <<records, bucket, now, job>>

TargetId(r) == restores[restore[r].rec].target
TargetDb(r) == restores[restore[r].rec].db

-----------------------------------------------------------------------------
(* RestoreBackup of any record of the list, whatever its status. *)
UserRestores(r) ==
    /\ restore[r].pc = "idle"
    /\ Len(restores) < MaxRestores
    /\ \E i \in DOMAIN records :
          restore' = [restore EXCEPT ![r] = [IdleRestore EXCEPT !.pc = "next", !.todo = {i}]]
    /\ UNCHANGED restores
    /\ UNCHANGED backupVars
    /\ KeepData

(* latestRestorePoints: the newest log of the newest full, or the full.    *)
LogsOf(full) ==
    {j \in FindChildren(full) : records[j].status = "completed" /\ ~IsFull(j)}

LatestPoint(db, i) ==
    \E full \in CompletedFulls(db) :
        /\ LatestCompletedFull(db, full)
        /\ Newest(i, LogsOf(full) \cup {full})

RestorePoints ==
    {i \in DOMAIN records : records[i].db \notin Master /\ LatestPoint(records[i].db, i)}

(* RestoreAll, of the databases of one instance.                           *)
UserRestoresAll(r) ==
    /\ restore[r].pc = "idle"
    /\ Len(restores) + Cardinality(RestorePoints) <= MaxRestores
    /\ restore' = [restore EXCEPT ![r] = [IdleRestore EXCEPT
                      !.pc = "next", !.all = TRUE, !.todo = RestorePoints]]
    /\ UNCHANGED restores
    /\ UNCHANGED backupVars
    /\ KeepData

RestoreReturns(r) ==
    /\ restore[r].pc = "next"
    /\ restore[r].todo = {}
    /\ restore' = [restore EXCEPT ![r] = IdleRestore]
    /\ UNCHANGED restores
    /\ UNCHANGED backupVars
    /\ KeepData

-----------------------------------------------------------------------------
(* RestoreBackup: FindByID and startRestoreRecord.                         *)
RestoreStarts(r) ==
    /\ restore[r].pc = "next"
    /\ \E i \in restore[r].todo :
          /\ restores' = Append(restores, [db |-> records[i].db, target |-> i,
                                           status |-> "running", chain |-> <<>>])
          /\ restore' = [restore EXCEPT ![r].pc = "chain",
                                        ![r].todo = restore[r].todo \ {i},
                                        ![r].rec = Len(restores) + 1,
                                        ![r].key = records[i].fileName]
    /\ UNCHANGED backupVars
    /\ KeepData

(* Mistaken variant: in the order FindAll may have them. *)
LogsNewestFirst(full, i) == SetToSortSeq({j \in LogsOf(full) : j <= i}, >)

InOrder(S) ==
    CHOOSE seq \in [1..Cardinality(S) -> S] :
        \A m, n \in 1..Cardinality(S) : m < n => seq[m] < seq[n]

(* The completed logs of a full up to one of them, oldest first. *)
LogsUpTo(full, i) == InOrder({j \in LogsOf(full) : j <= i})

(* buildChain, in the order of StartedAt.  The other engines have no chain. *)
BuildChain(i, key) ==
    IF IsFull(i) \/ records[i].db \notin SqlServer
    THEN << [id |-> i, key |-> key] >>
    ELSE LET full == records[i].parent
             ids == <<full>> \o LogsUpTo(full, i)
         IN [n \in DOMAIN ids |-> [id |-> ids[n], key |-> records[ids[n]].fileName]]

RestoreChain(r) ==
    /\ restore[r].pc = "chain"
    /\ restore' = [restore EXCEPT ![r].pc = "download",
                                  ![r].chain = BuildChain(TargetId(r), restore[r].key)]
    /\ UNCHANGED restores
    /\ UNCHANGED backupVars
    /\ KeepData

(* The chain cannot be read, or there is no storage to read it from.       *)
RestoreNoStorage(r) ==
    /\ "download" \in Faults
    /\ restore[r].pc = "chain"
    /\ restore' = [restore EXCEPT ![r].pc = "finish", ![r].err = TRUE]
    /\ UNCHANGED restores
    /\ UNCHANGED backupVars
    /\ KeepData

(* What the adapter pipes to the engine or, for SQL Server, first to a file *)
(* of the container.                                                       *)
SendToContainer(r, file, data) ==
    tmp' = IF TargetDb(r) \in SqlServer THEN [tmp EXCEPT ![file] = data] ELSE tmp

Position(r) == Len(restore[r].ids)
LinkToApply(r) == restore[r].chain[Position(r)]
IsLast(r) == Position(r) = Len(restore[r].chain)

RestoreFile(n) == IF n = 1 THEN "rest_full" ELSE "rest_log"
RemoveRestoreFile(r) == SendToContainer(r, RestoreFile(Position(r)), NoData)

(* The backup counts among chainIDs before it is downloaded; the download  *)
(* of a SQL Server backup goes to the temporary file of all restores.      *)
RestoreDownload(r) ==
    LET link == restore[r].chain[Position(r) + 1]
        ids == Append(restore[r].ids, link.id)
    IN
    /\ restore[r].pc = "download"
    /\ \/ /\ ObjectExists(link.key)
          /\ restore' = [restore EXCEPT ![r].pc = "apply", ![r].ids = ids,
                                        ![r].data = contents[link.key]]
          /\ SendToContainer(r, RestoreFile(Len(ids)), contents[link.key])
       \/ /\ ~ObjectExists(link.key) \/ "download" \in Faults
          /\ restore' = [restore EXCEPT ![r].pc = "finish", ![r].ids = ids,
                                        ![r].err = TRUE]
          /\ UNCHANGED tmp
    /\ UNCHANGED <<restores, contents>>
    /\ UNCHANGED dbVars
    /\ UNCHANGED backupVars

(* What the engine reads. *)
Incoming(r) ==
    IF TargetDb(r) \in SqlServer THEN tmp[RestoreFile(Position(r))] ELSE restore[r].data

(* The first of the chain goes to Restore, the others to RestoreLog.       *)
Accepted(r) ==
    IF Position(r) = 1
    THEN AcceptsFull(TargetDb(r), Incoming(r))
    ELSE AcceptsLog(TargetDb(r), Incoming(r))

(* Mistaken variant: off by one. *)
RecoveryAfterLast(r) == Position(r) > Len(restore[r].chain)

(* Recovery with the last one only. *)
Recovery(r) == IsLast(r)

RestoreApply(r) ==
    /\ restore[r].pc = "apply"
    /\ Accepted(r)
    /\ RestoreData(TargetDb(r), Incoming(r), Recovery(r))
    /\ RemoveRestoreFile(r)
    /\ restore' = [restore EXCEPT ![r].pc = IF IsLast(r) THEN "finish" ELSE "download",
                                  ![r].done = restore[r].ids]
    /\ UNCHANGED restores
    /\ UNCHANGED backupVars

(* The engine refuses the dump, or the restore breaks off: a full that was *)
(* being restored leaves the database RESTORING.                           *)
RestoreApplyFails(r) ==
    /\ restore[r].pc = "apply"
    /\ \/ ~Accepted(r) /\ UNCHANGED online
       \/ /\ "restore" \in Faults
          /\ online' = IF Position(r) = 1 /\ TargetDb(r) \in SqlServer
                       THEN online \ {TargetDb(r)} ELSE online
    /\ restore' = [restore EXCEPT ![r].pc = "finish", ![r].err = TRUE]
    /\ RemoveRestoreFile(r)
    /\ UNCHANGED <<commits, history, logStart, contents, restores>>
    /\ UNCHANGED backupVars

(* RestoreBackup has returned: all that is left is what RestoreAll keeps.  *)
NextCall(r) ==
    [IdleRestore EXCEPT !.pc = "next", !.all = restore[r].all, !.todo = restore[r].todo]

(* Mistaken variants: the error is not recorded; its record is not closed. *)
RestoreFinishAnyway(r) ==
    /\ restore[r].pc = "finish"
    /\ restores' = [restores EXCEPT ![restore[r].rec].status = "completed",
                                    ![restore[r].rec].chain = restore[r].ids]
    /\ restore' = [restore EXCEPT ![r] = NextCall(r)]
    /\ UNCHANGED backupVars
    /\ KeepData

RestoreFinishUnlessError(r) ==
    /\ restore[r].pc = "finish"
    /\ IF restore[r].err THEN UNCHANGED restores
       ELSE restores' = [restores EXCEPT ![restore[r].rec].status = "completed",
                                         ![restore[r].rec].chain = restore[r].ids]
    /\ restore' = [restore EXCEPT ![r] = NextCall(r)]
    /\ UNCHANGED backupVars
    /\ KeepData

(* finishRestoreRecord. *)
RestoreFinish(r) ==
    /\ restore[r].pc = "finish"
    /\ restores' = [restores EXCEPT
                      ![restore[r].rec].status =
                          IF restore[r].err THEN "failed" ELSE "completed",
                      ![restore[r].rec].chain = restore[r].ids]
    /\ restore' = [restore EXCEPT ![r] = NextCall(r)]
    /\ UNCHANGED backupVars
    /\ KeepData

RestoreStep(r) ==
    \/ RestoreReturns(r)
    \/ RestoreStarts(r)
    \/ RestoreChain(r)
    \/ RestoreNoStorage(r)
    \/ RestoreDownload(r)
    \/ RestoreApply(r)
    \/ RestoreApplyFails(r)
    \/ RestoreFinish(r)
=============================================================================
