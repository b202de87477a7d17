----------------------------- MODULE RunBackup -----------------------------
(***************************************************************************)
(* RunBackupUseCase: one goroutine taking one database through             *)
(* runForInstance and backupDatabase.  The scheduler's cron entries and    *)
(* the TUI's "back up now" start such goroutines at any time, and nothing  *)
(* stops two of them from overlapping.                                     *)
(***************************************************************************)
EXTENDS BackupRecords

CONSTANTS
    Backups,       \* the goroutines that may run a backup
    UniqueStamps   \* environment: no two backups of a database in the same minute

ASSUME UniqueStampsAssumption == UniqueStamps \in BOOLEAN

VARIABLE job       \* the local state of each backup goroutine

JobPc == {"idle", "chained", "dumping", "uploading", "closing",
          "discarding", "failing", "completing"}

IdleJob == [pc |-> "idle", id |-> NoId, db |-> NoDb, parent |-> NoId, key |-> NoKey]

JobState ==
    [pc     : JobPc,
     id     : RecId \cup {NoId},
     db     : Databases \cup {NoDb},
     parent : RecId \cup {NoId},
     key    : Key \cup {NoKey}]

JobTypeOK == job \in [Backups -> JobState]

JobInit == job = [b \in Backups |-> IdleJob]

(* Beyond MaxRecords no backup starts. *)
Room == Len(records) < MaxRecords

JobType(b) == IF job[b].parent = NoId THEN "full" ELSE "log"

(* The record backupDatabase saves before it does anything else, with the  *)
(* retention days the policy lookup returned.                              *)
StartRecord(b, db, parent) ==
    /\ \E days \in RetainDays :
          Save(NewRecord(db, IF parent = NoId THEN "full" ELSE "log", parent, days))
    /\ job' = [job EXCEPT ![b] = [pc |-> "dumping", id |-> Len(records) + 1,
                                  db |-> db, parent |-> parent, key |-> NoKey]]
    /\ UNCHANGED <<bucket, now>>

(* A full backup reads nothing before it saves its record. *)
BeginFull(b) ==
    /\ job[b].pc = "idle"
    /\ Room
    /\ \E db \in Databases : StartRecord(b, db, NoId)

(* latestCompletedFull, the first transaction of a log backup: without a   *)
(* completed full there is no chain to back up.                            *)
BeginLog(b) ==
    /\ job[b].pc = "idle"
    /\ Room
    /\ \E db \in SqlServer, full \in DOMAIN records :
          /\ LatestCompletedFull(db, full)
          /\ job' = [job EXCEPT ![b].pc = "chained", ![b].db = db,
                                ![b].parent = full]
    /\ UNCHANGED <<records, bucket, now>>

SaveLog(b) ==
    /\ job[b].pc = "chained"
    /\ Room
    /\ StartRecord(b, job[b].db, job[b].parent)

(* The timestamp of an object key.  Its resolution is a minute for SQL     *)
(* Server and a second for the others: with UniqueStamps no two backups of *)
(* a database fall into the same one, so the record's own number stands    *)
(* for it; without, it is the clock's tick.                                *)
Stamp(b) == IF UniqueStamps THEN job[b].id ELSE now

(* Mistaken variant: nothing waits for the upload. *)
DumpOnly(b) ==
    /\ job[b].pc = "dumping"
    /\ job' = [job EXCEPT ![b].pc = "closing",
                          ![b].key = <<job[b].db, JobType(b), Stamp(b)>>]
    /\ UNCHANGED <<records, bucket, now>>

(* doBackup: the adapter names the object and starts the dump.  The        *)
(* record's FileName is set in memory only.                                *)
Dump(b) ==
    /\ job[b].pc = "dumping"
    /\ job' = [job EXCEPT ![b].pc = "uploading",
                          ![b].key = <<job[b].db, JobType(b), Stamp(b)>>]
    /\ UNCHANGED <<records, bucket, now>>

(* The dump could not be started, or the log backup is not applicable.     *)
DumpFail(b) ==
    /\ "dump" \in Faults
    /\ job[b].pc = "dumping"
    /\ job' = [job EXCEPT ![b].pc = "failing"]
    /\ UNCHANGED <<records, bucket, now>>

Upload(b) ==
    /\ job[b].pc = "uploading"
    /\ PutObject(job[b].key)
    /\ job' = [job EXCEPT ![b].pc = "closing"]
    /\ UNCHANGED <<records, now>>

(* An error from Upload does not say whether the object was stored.        *)
UploadFail(b) ==
    /\ "upload" \in Faults
    /\ job[b].pc = "uploading"
    /\ PutObject(job[b].key) \/ UNCHANGED bucket
    /\ job' = [job EXCEPT ![b].pc = "failing"]
    /\ UNCHANGED <<records, now>>

(* reader.Close succeeded; TagExpiry's result is ignored. *)
Close(b) ==
    /\ job[b].pc = "closing"
    /\ job' = [job EXCEPT ![b].pc = "completing"]
    /\ UNCHANGED <<records, bucket, now>>

(* The dump process exited with an error.  SQL Server's reader discards    *)
(* the exit status, so its Close never reports one.                        *)
CloseFail(b) ==
    /\ "close" \in Faults
    /\ job[b].pc = "closing"
    /\ job[b].db \notin SqlServer
    /\ job' = [job EXCEPT ![b].pc = "discarding"]
    /\ UNCHANGED <<records, bucket, now>>

(* The partial object is removed; an error of DeleteObject is ignored.     *)
Discard(b) ==
    /\ job[b].pc = "discarding"
    /\ DeleteObject(job[b].key) \/ ("delete" \in Faults /\ UNCHANGED bucket)
    /\ job' = [job EXCEPT ![b].pc = "failing"]
    /\ UNCHANGED <<records, now>>

(* Mistaken variants: the failure is not recorded, or under a name that is  *)
(* no status.                                                              *)
FailSilently(b) ==
    /\ job[b].pc = "failing"
    /\ job' = [job EXCEPT ![b] = IdleJob]
    /\ UNCHANGED <<records, bucket, now>>

FailAsError(b) ==
    /\ job[b].pc = "failing"
    /\ UpdateStatus(job[b].id, "error")
    /\ job' = [job EXCEPT ![b] = IdleJob]
    /\ UNCHANGED <<bucket, now>>

Fail(b) ==
    /\ job[b].pc = "failing"
    /\ UpdateStatus(job[b].id, "failed")
    /\ job' = [job EXCEPT ![b] = IdleJob]
    /\ UNCHANGED <<bucket, now>>

Complete(b) ==
    /\ job[b].pc = "completing"
    /\ Update(job[b].id, "completed", job[b].key)
    /\ job' = [job EXCEPT ![b] = IdleJob]
    /\ UNCHANGED <<bucket, now>>

BackupBegins(b) == BeginFull(b) \/ BeginLog(b)

BackupStep(b) ==
    \/ SaveLog(b)
    \/ Dump(b)
    \/ DumpFail(b)
    \/ Upload(b)
    \/ UploadFail(b)
    \/ Close(b)
    \/ CloseFail(b)
    \/ Discard(b)
    \/ Fail(b)
    \/ Complete(b)
=============================================================================
