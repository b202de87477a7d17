--------------------------- MODULE RestoreSystem ---------------------------
(***************************************************************************)
(* Backups, deletions and restores over databases that go on committing:   *)
(* what the backups hold, whether their chains can be replayed, and what a *)
(* restore makes of a database.  Retention acts here through DeleteBackup  *)
(* only (module BackupSystem has the sweeps).                              *)
(***************************************************************************)
EXTENDS Restore, BackupQuery

CONSTANTS
    FullEntries,   \* the goroutines that run full backups
    LogEntries,    \* those that run log backups
    MaxExpired     \* bound: with so many records expired the users stop deleting

ASSUME EntriesAssumption ==
    /\ FullEntries \cup LogEntries \subseteq Backups
    /\ MaxExpired \in Nat

VARIABLE overlapped   \* history: the records of backups with another in the way

vars == <<records, bucket, now, job, del, commits, history, online, logStart,
          tmp, contents, restores, restore, overlapped>>

Init ==
    /\ StoreInit
    /\ JobInit
    /\ QueryInit
    /\ AdapterInit
    /\ RestoreInit
    /\ overlapped = {}

Application(db) ==
    /\ Commit(db)
    /\ UNCHANGED <<records, bucket, now, job, del, restores, restore, overlapped>>

(* Backups at the same time are in each other's way when they are of one   *)
(* database, or when they write the temporary file of one type.            *)
InTheWay(b, c) ==
    /\ c # b
    /\ job[c].pc # "idle"
    /\ \/ job[c].db = job[b].db
       \/ {job[b].db, job[c].db} \subseteq SqlServer /\ JobType(c) = JobType(b)

Working(b) == job[b].pc \notin {"idle", "chained"}

Overlap == {job[b].id : b \in {c \in Backups : Working(c) /\ \E d \in Backups : InTheWay(c, d)}}

BackupRuns(b) ==
    /\ \/ b \in FullEntries /\ BeginFull(b) /\ KeepData
       \/ b \in LogEntries /\ BeginLog(b) /\ KeepData
       \/ AdapterStep(b)
    /\ overlapped' = overlapped \cup Overlap'
    /\ UNCHANGED <<del, restores, restore>>

Expired == {i \in DOMAIN records : records[i].status = "expired"}

UserActs(u) ==
    /\ \/ UserDeletes(u) /\ Cardinality(Expired) < MaxExpired
       \/ DeleteStep(u)
       \/ UserReturns(u)
    /\ KeepData
    /\ UNCHANGED <<job, restores, restore, overlapped>>

RestoreRuns(r) == RestoreStep(r) /\ UNCHANGED <<del, overlapped>>

RestoreAsked(r) ==
    /\ UserRestores(r) \/ UserRestoresAll(r)
    /\ UNCHANGED <<del, overlapped>>

(* The process dies and is started again; neither a backup nor a restore   *)
(* is taken up where it was.                                               *)
Crash ==
    /\ "crash" \in Faults
    /\ \/ \E b \in Backups : job[b].pc # "idle"
       \/ \E p \in Deleters : del[p].pc # "idle"
       \/ \E r \in Restorers : restore[r].pc # "idle"
    /\ job' = [b \in Backups |-> IdleJob]
    /\ del' = [p \in Deleters |-> IdleDel]
    /\ restore' = [r \in Restorers |-> IdleRestore]
    /\ UNCHANGED <<records, bucket, now, restores, overlapped>>
    /\ KeepData

Next ==
    \/ \E db \in Databases : Application(db)
    \/ \E b \in Backups : BackupRuns(b)
    \/ \E u \in Users : UserActs(u)
    \/ \E r \in Restorers : RestoreAsked(r) \/ RestoreRuns(r)
    \/ Crash

Spec == Init /\ [][Next]_vars

HistoryTypeOK == overlapped \subseteq RecId \cup {NoId}

TypeOK ==
    /\ StoreTypeOK
    /\ JobTypeOK
    /\ QueryTypeOK
    /\ AdapterTypeOK
    /\ RestoreTypeOK
    /\ HistoryTypeOK

-----------------------------------------------------------------------------
(* What a completed backup holds is a dump of its own database: "verify    *)
(* the dump process exited successfully".                                  *)
OwnData ==
    \A i \in DOMAIN records :
        records[i].status = "completed" /\ ObjectExists(records[i].fileName)
            => contents[records[i].fileName].db = records[i].db

(* A log backup "with every intervening log up to (and including) it" can  *)
(* be applied in order: each dump begins no later and ends no earlier than *)
(* the one before ended.  That holds, whatever else runs, fails or dies,   *)
(* as long as the database was not restored to an earlier point and, since *)
(* the full of the log, no backup of it was deleted, no log of it was lost *)
(* and no backup was in the way of one that counts.                        *)
NeverRestored(db) == \A k \in DOMAIN restores : restores[k].db # db

Counts(j) ==
    /\ j \notin overlapped
    /\ records[j].status # "expired"
    /\ ~IsFull(j) => records[j].status = "completed"

ChainThere(i) ==
    LET db == records[i].db IN
    /\ NeverRestored(db)
    /\ \A j \in records[i].parent..i : records[j].db = db => Counts(j)
    /\ \A link \in Range(BuildChain(i, records[i].fileName)) : ObjectExists(link.key)

Joins(chain) ==
    \A n \in 1..Len(chain) - 1 :
        LET before == contents[chain[n].key]
            after == contents[chain[n + 1].key]
        IN IsPrefix(after.from, before.to) /\ IsPrefix(before.to, after.to)

ChainsJoin ==
    \A i \in DOMAIN records :
        records[i].status = "completed" /\ ~IsFull(i) /\ ChainThere(i)
            => Joins(BuildChain(i, records[i].fileName))

(* A restore record says what was done.  Completed: the database was left  *)
(* ONLINE, with everything the last backup of its chain saw, and           *)
(* chain_backup_ids is what was applied.  Failed: it is what was applied,  *)
(* in order, and after it at most the backup at which it broke off.        *)
Finishes(r) == restore[r].pc = "finish" /\ restore'[r].pc = "next"

RestoredStep ==
    \A r \in Restorers : Finishes(r) =>
        LET recorded == restores'[restore[r].rec].chain
            applied == restore[r].done
        IN IF restores'[restore[r].rec].status = "completed"
           THEN /\ TargetDb(r) \in online
                /\ IsPrefix(restore[r].data.to, history[TargetDb(r)])
                /\ recorded = applied
           ELSE IsPrefix(applied, recorded) /\ Len(recorded) <= Len(applied) + 1

RestoredAsRecorded == [][RestoredStep]_vars

(* A database that is left RESTORING is being restored, or its last        *)
(* restore record says that it did not complete.                           *)
LastRestore(db, k) == Newest(k, {n \in DOMAIN restores : restores[n].db = db})

RestoringHasReason ==
    \A db \in Databases \ online :
        \E k \in DOMAIN restores : LastRestore(db, k) /\ restores[k].status # "completed"

(* Whatever fails, a restore says in its record how it ended: as long as   *)
(* the process lives, a record is Running only while a restore is at it.   *)
RunningIsAttended ==
    \A k \in DOMAIN restores : restores[k].status = "running" =>
        \E r \in Restorers : restore[r].rec = k /\ restore[r].pc \notin {"idle", "next"}

-----------------------------------------------------------------------------
(* The inductive invariants. *)

LogsStarted == {db \in SqlServer : logStart[db] # NoLog}

Dumped == {"uploading", "closing", "discarding", "completing"}

(* A log is of a SQL Server database, and follows a full of it that was    *)
(* dumped; an object bears the name of its database.                       *)
RecordLinked(i) ==
    LET rec == records[i] IN
    /\ IsFull(i) <=> rec.parent = NoId
    /\ ~IsFull(i) => rec.db \in LogsStarted /\ rec.parent \in DOMAIN records
    /\ rec.status = "completed" /\ rec.db \in SqlServer => rec.db \in LogsStarted
    /\ rec.fileName # NoKey => rec.fileName[1] = rec.db

RecordsLinked == \A i \in DOMAIN records : RecordLinked(i)

JobKnown(b) ==
    /\ job[b].pc # "idle" => job[b].db \in Databases
    /\ job[b].parent # NoId =>
          job[b].db \in LogsStarted /\ job[b].parent \in DOMAIN records
    /\ job[b].pc \notin {"idle", "chained"} =>
          job[b].id \in DOMAIN records /\ records[job[b].id].db = job[b].db
    /\ job[b].pc \in Dumped =>
          /\ job[b].key \in Key /\ job[b].key[1] = job[b].db
          /\ job[b].db \in SqlServer => job[b].db \in LogsStarted

JobsKnown == \A b \in Backups : JobKnown(b)

DeletesKnown ==
    \A p \in Deleters :
        /\ del[p].pc # "idle" => del[p].root.id \in DOMAIN records
        /\ \A kid \in del[p].kids : kid.id \in DOMAIN records
        /\ del[p].pc = "mark" => del[p].cur.id \in DOMAIN records

Busy(r) == restore[r].pc \notin {"idle", "next"}

RestoresKnown ==
    /\ \A k \in DOMAIN restores : restores[k].target \in DOMAIN records
    /\ \A r \in Restorers :
          /\ restore[r].todo \subseteq DOMAIN records
          /\ restore[r].pc \in {"next", "chain"} => restore[r].ids = <<>>
          /\ Busy(r) => restore[r].rec \in DOMAIN restores
          /\ restore[r].pc = "download" => Position(r) < Len(restore[r].chain)
          /\ restore[r].pc = "apply" => Position(r) \in 1..Len(restore[r].chain)

RestoreInv ==
    /\ TypeOK
    /\ RecordsLinked
    /\ JobsKnown
    /\ DeletesKnown
    /\ RestoresKnown

(* With one restore at a time: the record of a restore is the last one and *)
(* still running, and what was applied is what it lists, but for a backup  *)
(* that is on its way.                                                     *)
OneRestorer == \A r, q \in Restorers : r = q

InHand(r) ==
    LET rest == restore[r] IN
    /\ Busy(r) =>
          /\ rest.rec = Len(restores)
          /\ restores[rest.rec].status = "running"
    /\ rest.pc \in {"next", "chain"} => rest.done = <<>> /\ ~rest.err
    /\ rest.pc = "download" => rest.ids = rest.done /\ ~rest.err
    /\ rest.pc = "apply" =>
          /\ ~rest.err
          /\ IsPrefix(rest.done, rest.ids) /\ Len(rest.ids) <= Len(rest.done) + 1
          /\ TargetDb(r) \in SqlServer => tmp[RestoreFile(Position(r))] = rest.data
    /\ rest.pc = "finish" /\ rest.err =>
          IsPrefix(rest.done, rest.ids) /\ Len(rest.ids) <= Len(rest.done) + 1
    /\ rest.pc = "finish" /\ ~rest.err =>
          /\ rest.ids = rest.done
          /\ TargetDb(r) \in online
          /\ TargetDb(r) \in SqlServer =>
                rest.data \in Data /\ IsPrefix(rest.data.to, history[TargetDb(r)])

Underway == \A r \in Restorers : InHand(r)

RestoringInv == Underway /\ RestoringHasReason

(* With one backup of a type at a time, the temporary file of a type is of *)
(* the database whose dump is being uploaded.                              *)
OneOfAType ==
    /\ \A b, c \in FullEntries : b = c
    /\ \A b, c \in LogEntries : b = c

DumpsOwn(b) ==
    /\ job[b].pc # "idle" =>
          IF JobType(b) = "full" THEN b \in FullEntries ELSE b \in LogEntries
    /\ job[b].pc = "uploading" /\ job[b].db \in SqlServer
          => tmp[JobType(b)].db = job[b].db

DataInv ==
    /\ \A b \in Backups : DumpsOwn(b)
    /\ \A key \in bucket : contents[key].db = key[1]

(* A record that no backup is at, and that never will be completed; one    *)
(* that was.                                                               *)
AtWork(i) == \E b \in Backups : Working(b) /\ job[b].id = i

Lost(i) == ~AtWork(i) /\ records[i].status # "completed"
Settled(i) == ~AtWork(i) /\ records[i].status \in {"completed", "expired"}

(* Between a log and the full it is chained to lies no full of its         *)
(* database but those that are lost or that overlapped another backup.     *)
ChainedTo(full, db, last) ==
    /\ full \in DOMAIN records /\ full <= last
    /\ IsFull(full) /\ records[full].db = db
    /\ Settled(full)
    /\ \A f \in full + 1..last :
          IsFull(f) /\ records[f].db = db => f \in overlapped \/ Lost(f)

RecordInOrder(i) ==
    /\ records[i].fileName # NoKey => records[i].fileName[3] = i
    /\ ~IsFull(i) => ChainedTo(records[i].parent, records[i].db, i - 1)

(* Each backup is at a record of its own, and a record of its database     *)
(* that comes after it overlaps.                                           *)
JobInOrder(b) ==
    LET i == job[b].id IN
    /\ Working(b) =>
          /\ records[i].fileName = NoKey
          /\ records[i].status # "completed"
          /\ records[i].parent = job[b].parent
          /\ \A c \in Backups : c # b /\ Working(c) => job[c].id # i
          /\ \A j \in DOMAIN records :
                j > i /\ records[j].db = job[b].db => {i, j} \subseteq overlapped
    /\ job[b].pc \in Dumped => job[b].key[3] = i
    /\ job[b].pc = "chained" => ChainedTo(job[b].parent, job[b].db, Len(records))

OrderInv ==
    /\ Overlap \subseteq overlapped
    /\ \A i \in DOMAIN records : RecordInOrder(i)
    /\ \A b \in Backups : JobInOrder(b)

(* The dump of a record, wherever it is: in the temporary file, under the  *)
(* job's key, or under that of the record.                                 *)
DumpsOf(i) ==
    {contents[key] : key \in bucket \cap {records[i].fileName}}
        \cup {tmp[JobType(b)] : b \in {c \in Backups : job[c].pc = "uploading" /\ job[c].id = i}}
        \cup {contents[job[b].key] : b \in {c \in Backups :
                    /\ job[c].pc \in {"closing", "completing"} /\ job[c].id = i
                    /\ job[c].key \in bucket}}

NoLogSince(i) ==
    \A j \in DOMAIN records : j > i /\ records[j].db = records[i].db /\ ~IsFull(j) =>
        \E b \in Backups : job[b].pc = "dumping" /\ job[b].id = j

NoLogBetween(i, j) ==
    \A k \in i + 1..j - 1 : records[k].db = records[i].db => IsFull(k)

(* Each dump ends in the past of its database, and no earlier than the log *)
(* not yet backed up begins; the next one goes on from there.              *)
DumpJoins(i) ==
    LET db == records[i].db IN
    \A data \in DumpsOf(i) :
        /\ data \in Data /\ IsPrefix(data.to, history[db])
        /\ NoLogSince(i) => IsPrefix(logStart[db], data.to)
        /\ \A j \in DOMAIN records \ overlapped : \A after \in DumpsOf(j) :
              i < j /\ records[j].db = db /\ ~IsFull(j) /\ NoLogBetween(i, j)
                  => IsPrefix(after.from, data.to) /\ IsPrefix(data.to, after.to)

JoinInv ==
    /\ \A db \in LogsStarted : NeverRestored(db) => IsPrefix(logStart[db], history[db])
    /\ \A i \in DOMAIN records \ overlapped :
          records[i].db \in SqlServer /\ NeverRestored(records[i].db) => DumpJoins(i)

-----------------------------------------------------------------------------
(* What the documentation says of restores, and the code does not do.      *)

(* "The full it chains from and every intervening log up to (and           *)
(* including) it are applied": a completed restore applied its target.     *)
ReachesTargetStep ==
    \A r \in Restorers :
        Finishes(r) /\ restores'[restore[r].rec].status = "completed"
            => Last(restore[r].done) = TargetId(r)

RestoreReachesTarget == [][ReachesTargetStep]_vars

(* chain_backup_ids: "full + logs actually applied, in order".             *)
ChainWasAppliedStep ==
    \A r \in Restorers :
        Finishes(r) => restores'[restore[r].rec].chain = restore[r].done

ChainWasApplied == [][ChainWasAppliedStep]_vars

(* master "is left out of the automatic restore, of R on its own backup    *)
(* and of A": no restore touches it.                                       *)
MasterSpared == \A k \in DOMAIN restores : restores[k].db \notin Master

(* A restores "ALL the SQL Server databases", and no others.               *)
AllOfSqlServerStep ==
    \A r \in Restorers :
        restore[r].all /\ restore'[r].done # restore[r].done
            => \A db \in Databases \ SqlServer : history'[db] = history[db]

RestoreAllOfSqlServer == [][AllOfSqlServerStep]_vars

(* The log of a SIMPLE database is left out "and does not count as an      *)
(* error": no Failed record comes of it.                                   *)
SimpleLogNotFailed ==
    \A i \in DOMAIN records :
        records[i].db \in SimpleModel /\ ~IsFull(i) => records[i].status # "failed"
=============================================================================
