-------------------------- MODULE SqlServerAdapter --------------------------
(***************************************************************************)
(* What a backup holds.  The database adapters under RunBackupUseCase: SQL *)
(* Server writes every dump of a type to one and the same temporary file   *)
(* of its container, from which docker exec streams it to S3; the other    *)
(* engines stream their dump directly.                                     *)
(*                                                                         *)
(* The databases are external and modelled by what a backup of them can    *)
(* hold: the sequence of transactions committed so far, whether SQL Server *)
(* has the database ONLINE, and where the part of its log that no BACKUP   *)
(* LOG has taken begins.  A full backup does not move that point.  All SQL *)
(* Server databases live in one container.                                 *)
(***************************************************************************)
EXTENDS RunBackup, SequencesExt

CONSTANTS
    SimpleModel,   \* SQL Server databases of recovery model SIMPLE
    MaxCommits     \* bound: transactions committed in a behaviour

ASSUME AdapterAssumption ==
    /\ SimpleModel \subseteq SqlServer
    /\ NoDb \notin Databases
    /\ MaxCommits \in Nat

VARIABLES
    commits,       \* how many transactions were ever committed
    history,       \* the transactions each database holds
    online,        \* the databases whose state_desc is ONLINE
    logStart,      \* where the log not yet backed up begins
    tmp,           \* the temporary files of the container
    contents       \* what the objects of the bucket hold

dbVars == <<commits, history, online, logStart>>

Transactions == Seq(1..MaxCommits)

(* tmp_backiie_bak.bak and tmp_backiie_trn.bak, written by backups;        *)
(* tmp_backiie_rest.bak and tmp_backiie_rest.trn, written by restores.     *)
TmpFile == Type \cup {"rest_full", "rest_log"}

(* A dump takes a database from one point of its history to another: a     *)
(* full from the beginning, a log from where the log before it ended.      *)
Data == [db : Databases, from : Transactions, to : Transactions]
NoData == [db |-> NoDb]                 \* no file, or an object of no bytes
NoLog == <<0>>                          \* no full has started the log chain

AdapterInit ==
    /\ commits = 0
    /\ history = [db \in Databases |-> <<>>]
    /\ online = Databases
    /\ logStart = [db \in SqlServer |-> NoLog]
    /\ tmp = [file \in TmpFile |-> NoData]
    /\ contents = <<>>

AdapterTypeOK ==
    /\ commits \in 0..MaxCommits
    /\ history \in [Databases -> Transactions]
    /\ online \subseteq Databases
    /\ logStart \in [SqlServer -> Transactions \cup {NoLog}]
    /\ tmp \in [TmpFile -> Data \cup {NoData}]
    /\ contents \in [bucket -> Data \cup {NoData}]

-----------------------------------------------------------------------------
(* The application that uses a database. *)
Commit(db) ==
    /\ db \in online
    /\ commits < MaxCommits
    /\ commits' = commits + 1
    /\ history' = [history EXCEPT ![db] = Append(@, commits + 1)]
    /\ UNCHANGED <<online, logStart, tmp, contents>>

(* What goes on without a dump: objects that are gone have no contents. *)
KeepContents == contents' = [key \in bucket' |-> contents[key]]

KeepData ==
    /\ KeepContents
    /\ UNCHANGED <<commits, history, online, logStart, tmp>>

-----------------------------------------------------------------------------
(* SQL Server has no log backup of a SIMPLE database, and no backup of one *)
(* that is not ONLINE.                                                     *)
Refused(b) ==
    \/ job[b].db \in SimpleModel /\ JobType(b) = "log"
    \/ job[b].db \notin online

(* ErrLogBackupNotApplicable, or BACKUP failed; either way backupDatabase  *)
(* fails the record.                                                       *)
BackupRefused(b) ==
    /\ job[b].pc = "dumping"
    /\ Refused(b)
    /\ job' = [job EXCEPT ![b].pc = "failing"]
    /\ UNCHANGED <<records, bucket, now>>
    /\ KeepData

DumpOf(b) ==
    LET db == job[b].db IN
    [db |-> db,
     from |-> IF JobType(b) = "log" THEN logStart[db] ELSE <<>>,
     to |-> history[db]]

(* BACKUP LOG goes on where the last one ended; the first full begins the  *)
(* chain.                                                                  *)
AdvanceLog(b) ==
    LET db == job[b].db IN
    IF db \in SqlServer /\ (JobType(b) = "log" \/ logStart[db] = NoLog)
    THEN logStart' = [logStart EXCEPT ![db] = history[db]]
    ELSE UNCHANGED logStart

(* Mistaken variant: one file for both types. *)
BackupToOneFile(b) ==
    /\ Dump(b)
    /\ ~Refused(b)
    /\ AdvanceLog(b)
    /\ tmp' = IF job[b].db \in SqlServer
              THEN [file \in TmpFile |-> IF file \in Type THEN DumpOf(b) ELSE tmp[file]]
              ELSE tmp
    /\ UNCHANGED <<commits, history, online, contents>>

(* backup: BACKUP ... TO DISK WITH INIT overwrites the temporary file, and *)
(* docker exec starts to read it.                                          *)
BackupToDisk(b) ==
    /\ Dump(b)
    /\ ~Refused(b)
    /\ AdvanceLog(b)
    /\ tmp' = IF job[b].db \in SqlServer
              THEN [tmp EXCEPT ![JobType(b)] = DumpOf(b)] ELSE tmp
    /\ UNCHANGED <<commits, history, online, contents>>

BackupFails(b) == DumpFail(b) /\ KeepData

(* What the upload reads.  The file counts as read at one moment of the    *)
(* transfer; if docker exec fails nothing comes, and an empty stream is    *)
(* uploaded like any other.                                                *)
Stream(b) ==
    (IF job[b].db \in SqlServer THEN {tmp[JobType(b)]} ELSE {DumpOf(b)})
        \cup (IF "extract" \in Faults THEN {NoData} ELSE {})

Stored(b) ==
    \E data \in Stream(b) :
        contents' = [key \in bucket' |->
                        IF key = job[b].key THEN data ELSE contents[key]]

(* dockerReader.Close: the temporary file is removed, and the exit status  *)
(* of the extraction dropped.                                              *)
RemoveTmp(b) ==
    tmp' = IF job[b].db \in SqlServer THEN [tmp EXCEPT ![JobType(b)] = NoData] ELSE tmp

UploadStream(b) ==
    /\ Upload(b)
    /\ Stored(b)
    /\ UNCHANGED <<dbVars, tmp>>

UploadStreamFails(b) ==
    /\ UploadFail(b)
    /\ IF bucket' = bucket THEN UNCHANGED contents ELSE Stored(b)
    /\ RemoveTmp(b)
    /\ UNCHANGED dbVars

CloseReader(b) ==
    /\ Close(b) \/ CloseFail(b)
    /\ RemoveTmp(b)
    /\ UNCHANGED <<dbVars, contents>>

AdapterStep(b) ==
    \/ BackupRefused(b)
    \/ BackupToDisk(b)
    \/ BackupFails(b)
    \/ UploadStream(b)
    \/ UploadStreamFails(b)
    \/ CloseReader(b)
    \/ (SaveLog(b) \/ Discard(b) \/ Fail(b) \/ Complete(b)) /\ KeepData

-----------------------------------------------------------------------------
(* RESTORE DATABASE ... WITH REPLACE: replaces a database by a full dump   *)
(* of it.  WITH NORECOVERY leaves it RESTORING.                            *)
AcceptsFull(db, data) == data.db = db /\ data.from = <<>>

(* RESTORE LOG: the log has to begin no later than the database ends, and  *)
(* to end no earlier, and the database has to be RESTORING.                *)
AcceptsLog(db, data) ==
    /\ db \notin online
    /\ data.db = db
    /\ IsPrefix(data.from, history[db])
    /\ IsPrefix(history[db], data.to)

(* The engine takes the dump in; the log not yet backed up begins anew at  *)
(* what was restored.  psql goes on after an error, and so may leave what  *)
(* the database held as it was, and report success.                        *)
RestoreData(db, data, recovery) ==
    /\ \E to \in {data.to} \cup (IF db \in SqlServer THEN {} ELSE {history[db]}) :
          history' = [history EXCEPT ![db] = to]
    /\ online' = IF recovery THEN online \cup {db} ELSE online \ {db}
    /\ logStart' = IF db \in SqlServer
                   THEN [logStart EXCEPT ![db] = data.to] ELSE logStart
    /\ UNCHANGED <<commits, contents>>
=============================================================================
