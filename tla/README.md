# BackiieTUI: TLA+ models

BackiieTUI backs up databases (SQL Server, PostgreSQL, MySQL, Redis) to an S3
bucket, keeps the audit records of its backups in a bbolt file, expires old
backups, restores them, and does all of this from a terminal UI and from a cron
scheduler in the same process. This directory holds TLA+ models of the program,
the TLC configurations that check them and the theorems TLAPS proves about them.

    tlc -config sweeps.cfg MCBackupSystem      # check a run
    tlapm DeletionProofs.tla                   # check the proofs of a module

## 1. Inventory

| component | state | operations | who calls it |
|---|---|---|---|
| `adapters/persistence/bbolt` | bucket of backup records, of restore records, of configurations; each operation one transaction | Save, Update, UpdateStatus, FindAll, FindByID, FindByInstance, FindExpired, ... | every use case |
| `adapters/storage/s3` | the keys of the bucket (behind a PathPrefix), its lifecycle rules | Upload, Download, ListObjects, DeleteObject; Get / PutLifecycleRules | every use case |
| `RunBackupUseCase` | the locals of each call | RunForAll, RunLogsForAll, RunForInstance: per database Save(Running), dump, Upload, Close, Update(Completed) or UpdateStatus(Failed) | cron entries, "back up now" of the TUI |
| `BackupQueryUseCase` | the locals of each call | DeleteBackup (with the cascade to the logs of a full), ApplyRetention (by date, then the golden rule for SQL Server) | TUI; cron entry at 1 AM; a goroutine at startup |
| `RestoreUseCase` | restore records, the target databases | RestoreBackup (a full, or the chain of a log), RestoreAll; RestorePointInTime has no caller | TUI |
| SQL Server adapter | the engine's log, the temporary files of its container | Backup, BackupLog, Restore, RestoreLog | run-backup and restore |
| PostgreSQL, MySQL / MariaDB and Redis adapters | the commands of a dump and the pipes between them; the keys of Redis | ListDatabases, Backup, Restore, the reader's Close | run-backup and restore |
| `BackupScheduler` | the field `cron` and its entries, the saved schedule | Start, Reload, Stop, NextRunTimes | main, TUI |
| self-backup and self-restore | snapshots of the bbolt file in the bucket, one prefix per host | Run, pruneOld; recover | cron; command line |
| `LifecycleUseCase` | the lifecycle rules of the bucket, the retention policy | GetRules, SyncWithRetention, DeleteRule | TUI |
| TUI | the active tab, the model of each view, the commands and messages in flight | Update | the user, the commands |
| configuration use cases | instances, S3 configuration, policy, schedule | Save, Find | TUI |

**How they interact.** Nothing is locked across use cases. Every cron entry,
every command of the TUI and the startup goroutine runs on a goroutine of its
own, and they meet in the bbolt file, in the bucket, in the container's
temporary files and in the scheduler's field: a goroutine reads, talks to S3 or
to an engine for seconds or hours, and writes by what it read. A bbolt
transaction is atomic and an S3 request is atomic; nothing makes two of them
atomic together. What a command answers goes, as a message, to the view of the
tab that is active by then.

**What is hard.** Goroutines that overlap (two sweeps, a sweep and a user's
deletion, a deletion and the backup it deletes, a full and a log backup, two
reloads); values read before a slow call and used after it; a crash between the
S3 request and the bbolt transaction that belong together; operations that fail
half way (a cascade, a chain of restores); names that two backups, two hosts or
two dumps share; answers that arrive late; commands that break off, or wait for one
another, at the ends of a pipe; data that changes while it is walked.

**What makes it correct.**

- *Records and bucket*: a Completed record has its object; every object belongs
  to a record somebody can see; a record does not stay Running.
- *Deletion*: a log is never on offer without its full.
- *Retention*: two verified fulls remain; the two newest are spared whatever
  users delete meanwhile; old fulls do go in the end.
- *Backup and restore*: a completed backup is of its own database, and whole; the
  dumps of a chain join; a restore recorded as Completed was one, and its record
  lists what it applied.
- *A run over an instance*: every database has its turn, no command outlives its
  backup, and the interface lists what is running.
- *Scheduler*: the saved schedule is the one in force, each job once.
- *Self-backup*: a host recovers its own newest snapshot, and pruning leaves it.
- *Lifecycle*: rules of other tools stay; S3 and the program agree on the days.
- *TUI*: selections stay in their lists, nothing irreversible starts
  unconfirmed, no view waits for an answer that nobody will send.

## 2. Modules

| module | models | state |
|---|---|---|
| `BackupRecords` | the records and the bucket, with the operations of the repository and of the storage adapter | `records`, `bucket`, `now` |
| `RunBackup` | `run_backup.go`: a goroutine taking one database through a full or a log backup | `job[b]` |
| `BackupQuery` | `DeleteBackup`, `deleteOne`: the cascade, with what it read growing stale; what it owes and whether it asked S3, as history | `del[p]` |
| `Retention` | `ApplyRetention`, `ApplySQLServerRetention`, `existsInS3` | `sweep[s]` |
| `BackupSystem` | composes the four above with time and crashes; invariants and properties | |
| `VerifiedFulls` | abstract: what the application promises about the fulls of a database | `fulls[d]` |
| `BackupSystemProofs`, `DeletionProofs` | theorems and proofs about `BackupSystem`: what goroutines know of the records; what deletions take away and leave | |
| `InstanceRun` | `runForInstance` and `backupDatabase` with the transfer taken apart, and the jobs the interface lists; composes the next two | `run`, `status[d]`, `stored[d]`, `activeJobs` |
| `DumpPipes` | the adapters' commands, the pipes of the operating system, the readers and their Close | `proc[c]`, `pipe[p]`, `held` |
| `RedisAdapter` | SCAN and DUMP, the object as JSON, RESTORE, and the application that uses the keys | `store`, `scan`, `dumped`, `object`, `replay` |
| `BackupOutcome` | abstract: what a run promises of the record and the object of a database | `status[d]`, `stored[d]` |
| `InstanceRunProofs` | theorems and proofs about `InstanceRun` | |
| `SqlServerAdapter` | what a dump holds; the temporary files; the engine (external) | `history`, `online`, `logStart`, `tmp`, `contents` |
| `Restore` | `restore_usecase.go`: `buildChain`, `latestRestorePoints`, one step per download and per command | `restores`, `restore[r]` |
| `RestoreSystem` | composes `RunBackup`, `BackupQuery`, `SqlServerAdapter` and `Restore` | `overlapped` (history) |
| `RestoreSystemProofs`, `SchedulerProofs`, `SelfBackupProofs`, `LifecycleProofs`, `TuiProofs` | theorems and proofs about `RestoreSystem`, `Scheduler`, `SelfBackup`, `Lifecycle` and `TuiApp` | |
| `Scheduler` | `scheduler.go`, with main, the schedule form and the cron library (external) | `config`, `cron`, `crons`, `loader[g]` |
| `SelfBackup` | `self_backup_usecase.go`, `self_restore_usecase.go`, `recover.go`, for several hosts | `objects`, `job[h]`, `recovery[h]`, `stuck` |
| `Lifecycle` | `lifecycle_usecase.go`, the adapter's translation of rules, the lifecycle tab | `bucket` (the rules), `policy`, `ops[g]`, `view` |
| `Tui`, `InstancesView`, `BackupsView`, `TuiApp` | `tui/app.go` and two of its views | `tab`, `cmds`, `iv`, `bv` |
| `MC...` | small instances for TLC | |

`BackupSystem` and `RestoreSystem` share `RunBackup` and `BackupQuery`: the first
leaves out what dumps hold, the second leaves out retention sweeps. `InstanceRun`
has the steps of `RunBackup` again, for one goroutine and at a finer grain: there
`Dump`, `Upload` and `Close` succeed or fail at will, here they do as the commands
at the other end of the pipe do.

### How state and actions correspond to the code

- A goroutine is a record with a program counter and the locals that outlive a
  step; a step ends where the code makes its next transaction, S3 request or
  engine command. Early returns and error paths are disjuncts of their own, and
  `Faults` says which failures a run has.
- Records are numbered in the order of `Save`, and a record's number stands for
  its id and orders `StartedAt`, as the code sorts by it. Time passes in days
  (`now`).
- The loops of `RunForAll` over instances and databases are the free choice of a
  goroutine's next database: any order of any number of goroutines.
- A key is `<<database, type, stamp>>`. With `UniqueStamps` the stamp is the
  record; without it two records may share one, as the format with the
  resolution of a minute allows.
- A dump is `[db, from, to]`: it takes a database from one point of its history
  of transactions to another. What SQL Server accepts (`AcceptsFull`,
  `AcceptsLog`, `RestoreData`, `AdvanceLog`) is external. The temporary file is
  read at one moment of the transfer.
- In `InstanceRun` a dump counts in chunks, a pipe holds `PipeCap` of them, and
  `stored[d]` is whether the object has all of them. `held` are the pipes whose
  read end this process has open, which decides who is killed by a broken pipe and
  who waits. `engine` is chosen once; the commands are those of its adapter. Redis
  has no command: its walk ends before the upload begins, and a restore (of the
  last object of the run) follows when the run is over. What the record says and what
  the interface is told are two steps, as they are two calls.
- What `DUMP` returns is binary, and the object is JSON: `Marshalled` keeps a value
  of `Utf8` and spoils any other, as `json.Marshal` does, and `RESTORE` refuses a
  spoiled one. Names of keys are taken to be UTF-8.
- The lifecycle configuration of a bucket is a set of rules with different ids; the tab
  lists them in any order (`Lists`), as S3 promises none. A rule has a prefix, days,
  and two marks for what the adapter does not know: that its filter has more than a
  prefix (`tagged`), and that it does more than expire objects (`extra`).
- `overlapped` collects the records of backups that at some time had another *in their
  way*: one of the same database, or one that writes the same temporary file.
- A command of the TUI is first carried out and then delivered; `KeyTab` and
  `ChangeTab` make the delivery to an inactive view lose the message.
- *Mistaken variants* are operators that change one definition as a plausible
  bug would; with each of them in place the run named in `PROJECT.json` finds its
  property violated.

## 3. What the runs check

| run | instance | shows |
|---|---|---|
| `one_at_a_time` | a SQL Server and a PostgreSQL database, 4 records, one backup, one sweep, one user, one at a time | `GoldenRule` through failing dumps, Closes and listings, user deletions included |
| `sweeps` | two concurrent sweeps and a backup, 4 records, crashes and failing deletions | `RetentionInv` (the invariant of the proofs), `NoOrphanLog`, `GoldenRule`, `ImplementsPromise` (refinement of `VerifiedFulls`) |
| `users` | a user, a sweep and a backup at once, 3 records, failing dumps, listings and reads of the configuration | `TypeOK`, `CompletedHasObject`, `SparesNewest`, `LogsGoFirst`, `KeptInSight` |
| `liveness` | fair goroutines, 4 records, failing dumps and uploads | `BackupsEnd`, `OldFullsPruned` |
| `restores` | one database, 3 records, one commit, one restore, a user, failing uploads, engines and downloads | `RestoringHasReason`, `RunningIsAttended`, `RestoredAsRecorded` |
| `dumps` | an instance of each engine, three databases of which one is excluded, dumps of 0 to 3 chunks, pipes of 1, three keys in two pages, commands that break off, uploads that fail | `ImplementsOutcome` (refinement of `BackupOutcome`), `RunInv`, `NothingLeft`, `EachHasItsTurn`, `QuietKeysKept`, `RestoredAsDumped` |
| `streams` | three databases of two engines, 4 records, one commit, a full and a log backup at once, every failure and crashes | `OwnData`, `ChainsJoin` |
| `schedules` | the goroutine of main and one saver, two valid expressions and a mistyped one, 2 hours, fair | `ScheduleInForce`, `OncePerHour`, `SavedTakesEffect`, `NilOnlyInReload` |
| `snapshots` | two hosts, windows of one and two half days, two half days, every call failing | `RecoveryFinds`, `RecoversNewest`, `SnapshotKept`, `PrunesOwnOld`, `PrunesAll` |
| `lifecycle` | two rules and an object of another tool, two operations at once of three, two days | `OthersKept`, `SelectionInRange`, `SyncAgrees`, `ForeignKept` |
| `interface` | two instances, two records, two commands at once | `SelectionsInRange`, `KeptOnS3`, `AnswersReach`, `Confirmed` |
| `v_collision` | as `sweeps`, without unique stamps | a violation of `GoldenRule` |

### The bounds, and why they are enough

- *4 records*: the golden rule needs a candidate and two verified fulls; the
  fourth is a log of the candidate, or one more full for a second sweep to find.
  `users` has 3, a full and its logs or three fulls: what its properties say is about
  one record, one object or one cascade at a time, and all of them are proved for any
  number. *2 days* with a window of 1 let a full pass the window while newer
  ones exist.
- *3 records, one commit, one restore* are a full and two logs, with the commit
  before, between or after them, so that a log may hold it, lack it, or have
  lost its place, or lost its upload; a deletion may take any of them away at each
  step of the restore. The user deletes once (`MaxExpired`): a log, or a full with
  its logs.
- *4 records of 3 databases, one commit* in `streams`: two dumps in the container's
  files at once and two that follow; or a full, a log that is lost or dies, and two
  logs after it; or a log with a full beside it that it does not go to.
- *One saver* in `schedules` (`OneSaver` in the proofs) is a user who waits for the reload before pressing
  Enter again; *2 crons* are the one to stop and the new one; *2 hours* see every
  job fire, as hour 0, 1 and 12 are what the entries are about: the retention
  entry is due within the bound, and `ScheduleInForce` looks at the hours of the
  entries themselves.
- *2 half days* let the window of one host pass, and not that of the other.
- *Three operations* in `lifecycle` are those a mistake takes: one that reads,
  one that writes in between, one that looks.
- *3 chunks* are more than one pipe and one command hold together, so that a writer
  waits for its reader, and a dump breaks off before, within and after its last
  chunk; *a pipe of 1* is full most of the time. *3 databases* are one to fail, one
  to pass over and one to have its turn. *Two pages*, of two keys and of one, have a
  key that is listed and not yet taken, one that is taken, and one not yet listed;
  *two writes* remove a key and bring it back, or move a value from one to another.
- *Two ids* let a list shrink under its selection, *two commands* (`Slot`, whose members are alike)
  let one answer overtake another. In a behaviour the user works in one tab besides those of the
  dashboard and of S3 (`Uses`); messages do not reach other views, so two tabs
  meet only in being the active one or not.

*Deadlock* is checked except in `restores`, `dumps`, `snapshots`, `lifecycle` and
`interface`: there nothing is left to do when the bounds
are used up and the user asks for no more, as in the program when nobody presses
a key. That nothing waits in vain before is what `RunningIsAttended`, `EachHasItsTurn`,
`PrunesAll` and `AnswersReach` are for.

### Environment assumptions of the runs

A passing run says what holds under the constants of its cfg. Where one excludes
something, section 5 says what happens without it.

- `UniqueStamps`: no two backups of a type and database in one minute.
- `Serial` (`one_at_a_time` only): no two operations at once. `GoldenRule` holds
  with users only so; without them the sweeps may overlap (`sweeps`).
- `sweeps` has one backup goroutine and no user. With a user, or with two goroutines
  of which one completes two fulls while the other is about to save a log,
  `NoOrphanLog` fails. `LogsGoFirst` is what a cascade keeps to in any case: the logs
  that were on offer when it found the full are gone before the full is.
  `KeptInSight` does the same for the objects nobody can see (`NoLeakedObject`): it
  names the steps that leave one (`LeftBehind`: a deletion that had no file name to
  ask S3 for or no configuration to ask with, an upload or a Discard that fails, a
  crash), and says that no other does.
- `FullEntries`, `LogEntries`: `restores` has one goroutine for both, `streams`
  one for each: there is one full run at a time.
- `ChainsJoin` is about a log since whose full every backup of the database *counts*:
  none was deleted, no log of them was lost, and none had another in its way; in a
  database that was not restored. Other backups, of whichever databases and types,
  overlap, fail and die as they like. `restores` has the chains with a gap: a restore
  across one is never recorded as Completed.
- `QuietKeysKept` and `RestoredAsDumped` are about what JSON can carry: a quiet key is in
  the object with its value, or spoiled when that is not UTF-8; and a restore that
  reports success met no spoiled value.
- `AnswersReach` says that a view which waits has its command under way when it begins
  to, and that the answer is lost only on a user who left the tab. Section 5 has what
  happens then.
- `dumps` has no `docker exec` that fails, no gzip that does not start, no Redis key
  that cannot be read, no deletion that fails and no upload that fails after it was
  carried out; `EachHasItsTurn` is about behaviours in which gzip does not die, and
  listings that succeed.
- `Begins <- Distinct`: no host's name begins with that of another.
  `Prefixed = FALSE`: no PathPrefix.
- `PlainTwo`: the rules of other tools have a prefix and days, and no more;
  `Interferes = FALSE`: others do not write between Get and Put.
- `SavedPolicies = {2}`: a policy has been saved.

### Fairness

`liveness` assumes that time passes, that goroutines go on until they end (Go's
scheduler, and calls that return), and that the retention entry comes round
again (cron). It assumes nothing of users and of which database is backed up.
`schedules` assumes that main and the goroutines inside Reload go on. `dumps` assumes
that the run's goroutine goes on, and that a command that can read, write or end does
(the operating system); nothing of the application, and nothing of failures. Neither `liveness` nor `schedules`
has crashes that repeat for ever between a start and its end: `liveness` has no
crash, and `SavedTakesEffect` asks only for processes that stay up.

## 4. What is proved

TLAPS checks each of these for every value of the constants: any set of databases,
hosts, instances, rules or expressions, any number of records, goroutines, restores,
reloads and days, and every choice of failures that the last column does not take
away. Together they state every invariant and every property of steps that the runs
check, but `NoOrphanLog`; a run shows it on a small instance, the theorem in general.

| theorem | states | assumes |
|---|---|---|
| `BackupSystemProofs` | | |
| `TypeCorrect` | `Spec => []TypeOK` | |
| `InvHolds` | `Spec => []Inv` | |
| `DeletionProofs` | | |
| `NewestAreSpared` | `Spec => SparesNewest` | `UniqueStamps` |
| `RetentionInvHolds` | `Spec => []RetentionInv` | |
| `GoldenRuleHolds` | `Spec => GoldenRule` | `UniqueStamps`, `Users = {}` |
| `PromiseKept` | `Spec => Promise!Spec` | `UniqueStamps`, `Users = {}` |
| `CompletedHasObjectHolds` | `Spec => []CompletedHasObject` | `UniqueStamps`, no crash, no failing deletion in S3 |
| `LogsGoFirstHolds` | `Spec => LogsGoFirst` | |
| `KeptInSightHolds` | `Spec => KeptInSight` | `UniqueStamps` |
| `RestoreSystemProofs` | | |
| `RestoreInvHolds` | `Spec => []RestoreInv` | |
| `RunningIsAttendedHolds` | `Spec => []RunningIsAttended` | no crash |
| `RestoringHasReasonHolds` | `Spec => []RestoringHasReason` | `OneRestorer` |
| `RestoredAsRecordedHolds` | `Spec => RestoredAsRecorded` | `OneRestorer`, `SqlServer = Databases` |
| `OwnDataHolds` | `Spec => []OwnData` | `OneOfAType`, no extraction that fails unnoticed |
| `ChainsJoinHolds` | `Spec => []ChainsJoin` | `UniqueStamps`, no such extraction |
| `InstanceRunProofs` | | |
| `RunInvHolds` | `Spec => []RunInv` | `Reliable` |
| `NothingLeftHolds` | `Spec => []NothingLeft` | `Reliable` |
| `QuietKeysKeptHolds` | `Spec => []QuietKeysKept` | `Reliable` |
| `RestoredAsDumpedHolds` | `Spec => []RestoredAsDumped` | `Reliable` |
| `OutcomeKept` | `Spec => Outcome!Spec` | `Reliable` |
| `SchedulerProofs` | | |
| `TypeOKHolds` | `Spec => []TypeOK` | |
| `SchedulerInvHolds` | `Spec => []SchedulerInv` | `OneSaver` |
| `ScheduleInForceHolds` | `Spec => []ScheduleInForce` | `OneSaver` |
| `OncePerHourHolds` | `Spec => []OncePerHour` | `OneSaver` |
| `NilOnlyInReloadHolds` | `Spec => NilOnlyInReload` | `OneSaver` |
| `SelfBackupProofs` | | |
| `SelfInvHolds` | `Spec => []SelfInv` | `DistinctHosts` |
| `SnapshotKeptHolds` | `Spec => SnapshotKept` | `DistinctHosts` |
| `PrunesOwnOldHolds` | `Spec => PrunesOwnOld` | `DistinctHosts` |
| `PrunesAllHolds` | `Spec => PrunesAll` | `DistinctHosts`, `~Prefixed` |
| `RecoveryFindsHolds` | `Spec => []RecoveryFinds` | `DistinctHosts`, `~Prefixed` |
| `RecoversNewestHolds` | `Spec => RecoversNewest` | `DistinctHosts`, `~Prefixed` |
| `LifecycleProofs` | | |
| `ConfigInvHolds` | `Spec => []ConfigInv` | |
| `SelectionHolds` | `Spec => []SelectionInRange` | |
| `OthersKeptHolds` | `Spec => []OthersKept` | `Simple`, `~Interferes` |
| `ForeignKeptHolds` | `Spec => ForeignKept` | `Simple`, `Prefixed` |
| `SyncAgreesHolds` | `Spec => []SyncAgrees` | `0 \notin SavedPolicies` |
| `TuiProofs` | | |
| `TuiInvHolds` | `Spec => []TuiInv` | |
| `SelectionsInRangeHolds` | `Spec => []SelectionsInRange` | |
| `KeptOnS3Holds` | `Spec => []KeptOnS3` | |
| `AnswersReachHolds` | `Spec => AnswersReach` | |
| `ConfirmedHolds` | `Spec => Confirmed` | |

besides the assumptions on constants that the modules name
(`ConstantsAssumption`, `SerialAssumption`, `SchedulerAssumption` and those of the
goroutines: disjoint, finite sets of process names). What becomes of a property without
one of the other assumptions is a row of section 5, but for these:

- `Users = {}`: a user may delete any full, and so one of the last two.
- Without `OneRestorer`, two restores of one database take turns at its `RESTORE`
  commands, and the record of the one says nothing of what the other left.
- In a database that is not SQL Server, `RestoredAsRecorded` fails because psql goes on
  after an error of a statement.
- A crash between the deletion of an object and the update of its record leaves a
  Completed record without its object.
- Without a PathPrefix the rule of the program covers the whole bucket, and so expires
  the objects of other tools.
- Two backups with one stamp share an object: what is deleted for the one, or uploaded
  for it, is the other's too (the first row of section 5).

### The arguments

Hardly any of the properties is inductive: what a goroutine may do depends on what it
read earlier, in a store that others have changed since. The invariants below say what
its locals still know; they stand beside the properties in the modules, and TLC checks
`RetentionInv` and `RunInv` on every run of theirs (`sweeps`, `dumps`); the others were
checked on the bounds of their runs before they were proved.

**Backups and retention.** A job's record is its own, has no
file name and is not Completed (`JobOK`), so that `Complete` can only turn a
running or failed record into a completed one. What a deletion holds are records
that exist, the children being logs (`DelOK`), so that a cascade reaches one full,
its root. What a sweep holds are fulls that completed once, and those it counts
are newer than its candidate and not the candidate (`SweepOK`): "completed once"
is stable under everything, "completed" is not. From this `SparesNewest`
follows: what a sweep takes away is its candidate, and two newer fulls completed.

`GoldenRule` needs more, since what was verified may be gone by the time of the
deletion. `RetentionInv` adds that deletions hold the file names of their records,
that an uploaded object waits for its record, and `AllCovered`: a full that
completed once is restorable or followed by two that are. When a sweep deletes its
candidate, the two newer ones it verified are covered each; the newest two of
those that completed are therefore restorable themselves, as nothing newer could
cover for them. Users break `AllCovered`, and two records with one object break
"what goes is the candidate": hence the two assumptions. `PromiseKept` maps
`fulls[d]` to the restorable fulls and a step to `Complete`, `Retire` or a stutter.

**Deletions.** `CompletedHasObject` follows from what deletions hold: an object goes
only with the record that has its key, and that record is then being deleted.
`LogsGoFirst` needs to know where the logs are that a cascade owes to its full:
`OwedOK` says that they are logs of that full which completed, that whichever of them
is still on offer is among those the cascade has before it, and that none is when it
comes to the full. Other deletions may take them away meanwhile, and nobody puts one
back, for a record completes once: that is why no overlap needs to be excluded.
`KeptInSight` needs `AskedGone` (the object S3 was asked to delete is the record's, is
gone, and is not uploaded anew, as its key has one record) and `Uploaded` (a job that
was uploaded has its object until its record says so).

**Restores.** `RestoreInv` keeps what backups, deletions and restores hold of one
another's records, and the place of a restore in its chain, which is why no index is out
of range. `RestoringInv` follows one restore: its record is the last and still Running,
and what was applied is what the record will list, but for the backup on its way; a
database is in RESTORING only while somebody is at it or after a record that did not
complete. `DataInv` ties the temporary file of a type to the only job of that type that
may be uploading it, and each object to the database of its key.

`ChainsJoin` needs two. `OrderInv` says that each backup at work is at a record of its
own, that a later record of its database means that both are in `overlapped`, and that
between a log and the full it is chained to (`ChainedTo`) no full of the database has
completed but those that overlapped: `LatestCompletedFull` took the newest that had, and
whatever completed since was at work by then. So the chain of a log since whose full
every backup counts leaves out none of them. `JoinInv` looks at the dump of a record
wherever it is by then, in the temporary file, under the job's key or under the
record's: it ends in the past of its database and no earlier than the log that is not
backed up yet begins, and the next dump of a log goes on from there. It is about the
records that are not `overlapped`, whose dumps nobody else can touch. A backup that dies
or fails after `BACKUP LOG` moved that point has a record, Running or Failed, that does
not count.

**A run.** `Reliable` leaves out the
failures the code does not recover from, those of "Environment assumptions" above:
`gzip` not starting, the extraction of a SQL Server dump breaking off, a lost answer
of S3, a deletion in S3 that fails, a key of Redis that cannot be read. Everything else
may break off. What the record of a transfer will say is decided after the commands that
decide it are gone, so that the promise of `BackupOutcome` is not inductive:
`RunInv` carries what was known of them. `CommandsKnown` ties the commands and the
pipes to the stage of the run and to how many were waited for; `ChunksCounted` says
that the chunks a dump made are those read and those in the pipes, and that who
exited well has passed on all it had; hence `WholeOrKnown`: a stream that ended
was whole, or a command that died is still to be waited for, or was waited for and
reported. `KeysKnown` says the same of Redis: a key nobody wrote is in a page not
seen yet, is waiting to be taken, or is in the dump as it is in the store.
`EachAtItsStage` keeps the records of the other databases where they are.
A key whose value is not UTF-8 is in the object as `Spoiled`, and the walk of a restore
that met one has failed. `OutcomeKept` maps `Begin`, `UploadEnds`, `Discard`, `Complete`, `Fail` and
`NotApplicable` to the steps of `BackupOutcome` and every other step to a stutter.

**Scheduler.** `SchedulerInv` says that one goroutine is at work at most, that every
cron but that of the field was given up, and that the latter's entries and its loader's
jobs are together those of the saved configuration, in their order; once nobody is
loading, it has them all and runs, or waits behind an expression that does not parse.
`ScheduleInForce` follows as the jobs of a configuration differ, `OncePerHour` as only
one cron runs and has no job twice, and `NilOnlyInReload` as a loader that calls a
method of the cron has one. The types need no such invariant, and hold with any number
of goroutines of the form.

**Self-backup.** `SelfInv` says that the keys in the bucket have the prefix once and
differ, that what a run is about to prune is its own and past the window while the
snapshot it uploaded is within it and stays, and that the snapshot a recovery chose is
the newest of its host, which does not run meanwhile.

**Lifecycle.** `ConfigInv` has the types and what an operation carries. For
`OthersKept`, what a sync or a deletion is about to write has every rule of another tool
that the user did not delete (`OwnedInv`); for `ForeignKept`, every rule in sight is one
another tool wrote or the program's own (`KnownInv`), whose scope is its prefix; for
`SyncAgrees`, the sync that counts is the only one and carries the days of the policy,
which nobody changes meanwhile (`SyncInv`).

**Interface.** `TuiInv` has the properties themselves, that a dialog holds what was typed
since it was opened (`DialogKnown`), that only the first load of the dashboard may
answer before S3 is configured (`StartKnown`). `AnswersReach` is a property of steps: each
key that makes a view wait starts its command in the same step, and each answer that is
delivered to the view in front ends the waiting.

### Only model-checked

The four liveness properties: `BackupsEnd`, `OldFullsPruned`, `SavedTakesEffect` and
`EachHasItsTurn`. They need fairness, and so `ENABLED`, which the provers do not handle. And `NoOrphanLog`,
with one backup goroutine: that one goroutine cannot complete two fulls between the
choice of a log's parent and the log's record would have to be carried into the
invariant of every deletion.
Also TLC alone finds the violations of section 5.

## 5. Where the code departs from its documents

One of these is a run (`v_collision`) and a finding in `PROJECT.json`. TLC finds each of the others when the run named is given the
constants of the second column and the property of the third, alone. A
property of states is then an `INVARIANT`, one of steps a `PROPERTY`.

| what happens | run, with | property | what says otherwise |
|---|---|---|---|
| Two SQL Server fulls within a minute share an object; the sweep counts both and deletes it with the older (`sqlserver/adapter.go:148`) | `v_collision` | `GoldenRule` | `retention_policy.go:5` |
| With a PathPrefix the recovery asks for the prefix twice and always fails (`self_restore_usecase.go:82`) | `snapshots`, `Prefixed = TRUE` | `RecoveryFinds` | `recover.go:17` |
| With a PathPrefix nothing is pruned, for the same reason (`self_backup_usecase.go:106`) | `snapshots`, `Prefixed = TRUE` | `PrunesAll` | `self_backup_usecase.go:60` |
| Host `srv` recovers from a snapshot of `srv2`, and prunes its snapshots, to the last one: listings have no closing slash (`self_restore_usecase.go:57`, `self_backup_usecase.go:97`) | `snapshots`, `Begins <- Alike` | `RecoversNewest`, `PrunesOwnOld`, `SnapshotKept` | `self_restore_usecase.go:37` |
| A self-backup that fails to upload leaves a goroutine, and its read transaction, waiting on the pipe; at the exit Close of bbolt waits for it (`self_backup_usecase.go:79`) | `snapshots` | `ReadersEnd` | `store.go:40` |
| A log that saves its record after `DeleteBackup` listed the children completes with an expired full (`backup_usecase.go:54`) | `users`, no faults; `sweeps`, `Backups = {b1, b2}`, `Sweeps = {s1}`, no faults | `NoOrphanLog` | `backup_usecase.go:45` |
| Deleting a Running record leaves the object that is uploaded meanwhile (`backup_usecase.go:71`) | `users`, no faults | `NoLeakedObject` | `backup_usecase.go:44` |
| The log of a database that is being backed up in full is chained to the full before, and the next log begins past the new one (`run_backup.go:160`) | `streams`, `Databases` and `SqlServer` `{sql}`, no faults, without `j \notin overlapped` in `Counts` | `ChainsJoin` | `restore_usecase.go:63` |
| Two full backups at once upload one dump as both (`sqlserver/adapter.go:183`) | `streams`, `FullEntries = {b1, b2}` | `OwnData` | `sqlserver/adapter.go:153` |
| A failing `docker exec` leaves a Completed record of nothing, or of a part (`sqlserver/adapter.go:142`) | `streams`, fault `"extract"`; `dumps`, `PipeFaults = {"extract"}` | `OwnData`; `ImplementsOutcome` | `run_backup.go:253` |
| When gzip dies (an upload that fails closes its pipe), mysqldump waits for ever to write: its reader is gone, but this process still holds the pipe, and Close waits for mysqldump first (`mysql/adapter.go:90`, `:150`) | `dumps`, without `[](proc["gzip"] # "died")` in the property | `EachHasItsTurn` | `run_backup.go:253` |
| When gzip does not start, mysqldump is killed and never waited for (`mysql/adapter.go:101`) | `dumps`, `PipeFaults = {"gzip"}` | `NothingLeft` | `mysql/adapter.go:105` |
| A Redis key that cannot be read is left out of a Completed backup (`redis/adapter.go:85`) | `dumps`, `RedisFaults = {"key"}` | `QuietKeysKept` | `redis/adapter.go:64` |
| What DUMP returns is binary, and JSON keeps only UTF-8: most values are spoiled in the backup, and `RESTORE` refuses them (`redis/adapter.go:96`) | `dumps` | `ValuesKept` | `redis/adapter.go:64`, `:113` |
| A restored Redis key never expires: the dump has no time to live, and 0 is given (`redis/adapter.go:133`) | `dumps` | `TimeToLiveKept` | `redis/adapter.go:113` |
| An upload that fails after it was carried out, or an object that cannot be deleted, leaves its object with a Failed record (`run_backup.go:247`, `:257`) | `dumps`, `RunFaults = {"answer"}` or `{"delete"}` | `ImplementsOutcome` | `run_backup.go:257` |
| The log backup of a SIMPLE database stays on the list of active jobs (`run_backup.go:167`) | `dumps` | `NoJobLeft` | `tui/app.go:255` |
| Restoring a log that is not Completed applies those before it only, and is recorded as Completed (`restore_usecase.go:366`) | `restores`, fault `"dump"` | `RestoreReachesTarget` | `restore_usecase.go:63` |
| A failed restore records a backup that was not applied (`restore_usecase.go:112`) | `restores` | `ChainWasApplied` | `restore_record.go:13` |
| `R` restores master (`restore_usecase.go:65`) | `restores`, `Master = {sql}` | `MasterSpared` | `operaciones.md:245` |
| `A` restores PostgreSQL and MySQL too (`restore_usecase.go:174`) | `restores`, `Databases = {sql, pg}`, `MaxRestores = 2` | `RestoreAllOfSqlServer` | `restore_usecase.go:154`, `operaciones.md:239` |
| The log of a SIMPLE database leaves a Failed record every hour (`run_backup.go:238`) | `restores`, `SimpleModel = {sql}` | `SimpleLogNotFailed` | `operaciones.md:227` |
| Enter twice in the schedule form: jobs are fired twice from then on (`scheduler.go:64`) | `schedules`, `Savers = {s1, s2}` | `OncePerHour` | `operaciones.md:233` |
| A mistyped expression is saved, and no job runs any more, not even after a restart (`scheduler.go:74`) | `schedules` | `RetentionScheduled` | `s3-retencion.md:22` |
| `NextRunTimes` uses a field that a reload may set to nil after its test (`scheduler.go:152`) | `schedules` | `NoNilCron` | `scheduler.go:146` |
| The self-backup runs at 0 and 12, not every hour (`scheduler.go:96`) | `schedules` | `SelfBackupHourly` | `operaciones.md:278` |
| Without a saved policy S3 gets 3 days and records get 7 (`lifecycle_usecase.go:101`, `run_backup.go:110`) | `lifecycle`, `SavedPolicies = {0}` | `SyncAgrees` | `s3-retencion.md:90` |
| A rule that does more than expire (transitions, old versions, unfinished uploads) comes back without that (`s3/lifecycle.go:30`) | `lifecycle`, `OtherRules <- Archived` | `OthersKept` | `lifecycle_usecase.go:54` |
| A rule with a tag, or a size, in its filter comes back as one of the whole bucket (`s3/lifecycle.go:37`) | `lifecycle`, `OtherRules <- Tagged` | `ForeignKept` | `lifecycle_usecase.go:54` |
| A rule another tool writes between Get and Put is lost (`lifecycle_usecase.go:138`) | `lifecycle`, `Interferes = TRUE` | `OthersKept` | `s3-retencion.md:84` |
| With a rule that has no expiration in days every sync is refused (`s3/lifecycle.go:70`) | `lifecycle`, `OtherRules <- NoDays` | `SyncWorks` | `s3-retencion.md:69` |
| The global rule expires SQL Server fulls by age alone (`lifecycle_usecase.go:128`) | `lifecycle` | `FullsExpire` | `operaciones.md:233` |
| The answer of a restore that ends on another tab is dropped, and the view takes no key any more (`tui/app.go:276`) | `interface` | `AnswersComing` | `backups/model.go:767` |
| A load that ends during the preview lets Enter restore all databases with the word of an earlier deletion (`backups/model.go:393`) | `interface` | `RestoreAllConfirmed` | `operaciones.md:240` |
| The last instance is gone when its backup is confirmed: index out of range (`instances/model.go:312`) | `interface` | `NoPanic` | `instances/model.go:139` |
| A dashboard read before S3 was saved is delivered after it, and the user cannot leave the tab of S3 (`tui/app.go:203`) | `interface` | `StaysConfigured` | `tui/app.go:208` |

`SyncAgrees` asks for a sync that nothing overlapped, and `ForeignKept` counts a
deleted rule of another tool among its own, because a sync or a deletion that read
the configuration before another wrote it has the last word
(`lifecycle_usecase.go:138`): a sync can put a deleted rule back, and a save that
is still under way can leave S3 with the days before it. A crash leaves the
record of a backup or a restore Running for ever: `BackupsEnd` and
`RunningIsAttended` are checked without crashes. A log whose upload fails leaves a
gap in its chain, as the engine has moved on (`run_backup.go:249`).

## 6. Not modelled, and why

- *Failing bbolt writes*, and a database file that cannot be opened: the code
  passes most of these errors on and has no path of its own for them.
- *Which databases an instance has*: `ListDatabases` of each adapter. Redis lists
  its numbered databases and backs up the one the client is connected to for each
  of them (`redis/adapter.go:66`).
- *The settings forms of retention and S3* beyond what `Lifecycle` and `Tui` have of
  them: fields and their text. Saves that overlap are those of `Lifecycle`.
- *Restores into another instance or under another name*; `RestorePointInTime`,
  which nobody calls; `TagExpiry`, whose error is dropped and whose tag no rule of the
  program looks at; several containers; two restores at once.
- *Time zones*, and the flag that disables the schedule, which no caller sets.
- *Self-backup*: a run that takes longer than the interval, and `recover` while
  the program runs. A host that is started again waits for the next firing.
- *Lifecycle*: policies of single instances, which the program has no way to
  save; the status of rules, and disabled ones; what of a rule's `extra` is which.
- *TUI*: text and focus of the other fields, spinners, notifications, the
  counter of active backups, the connection test of S3, and what of an instance
  an edit keeps.
- *Engines, their tools and docker*: external, but for their failures.
- *Formatting, hashing, ids, errors, styles*: pure helpers.

## 7. Plan

Done, in this order: records and bucket; backups, deletions, retention and their
composition; dumps, chains and restores; scheduler; self-backup; lifecycle;
interface; the pipes and keys of a run; and the proofs about each of them. The order is
that of what is lost when it goes wrong.

Next:

1. *Abstract specifications*: for `Scheduler`, the schedule as one variable that
   saves replace, implemented by crons and reloads with one saver; for
   `SelfBackup`, a host as the sequence of its versions of which the newest in
   the bucket is recovered; for `Restore`, a restore as one step on the database.
2. *Proofs*: the refinements of 1, once they are checked; `RestoringHasReason` and
   `RestoredAsRecorded` with several restores of different databases;
   `NoOrphanLog` with one backup goroutine.
3. *Compositions*: retention sweeps within `RestoreSystem`; expiration by S3
   (`Lifecycle`) over the records of `BackupSystem`.
4. *Left out so far*: restores into another instance, disabled rules, the retention
   form's other fields.
