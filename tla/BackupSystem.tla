---------------------------- MODULE BackupSystem ----------------------------
(***************************************************************************)
(* The backup goroutines, the TUI's deletions and the retention sweeps     *)
(* over one store and one bucket, with the passing of time and the crash   *)
(* of the process.                                                         *)
(***************************************************************************)
EXTENDS RunBackup, Retention

CONSTANT
    Serial         \* environment: an operation starts only when none is
                   \* running, and ends within a tick

ASSUME SerialAssumption == Serial \in BOOLEAN

storeVars == <<records, bucket, now>>
vars == <<records, bucket, now, job, del, sweep>>

Init ==
    /\ StoreInit
    /\ JobInit
    /\ QueryInit
    /\ SweepInit

AllIdle ==
    /\ \A b \in Backups : job[b].pc = "idle"
    /\ \A p \in Deleters : del[p].pc = "idle"
    /\ \A s \in Sweeps : sweep[s].pc = "idle"

MayStart == Serial => AllIdle

Tick ==
    /\ now < MaxClock
    /\ MayStart
    /\ now' = now + 1
    /\ UNCHANGED <<records, bucket, job, del, sweep>>

(* The process dies and is started again: the goroutines are gone, the     *)
(* store and the bucket are as they were.  main looks at no Running record *)
(* when it starts.                                                         *)
Crash ==
    /\ "crash" \in Faults
    /\ ~AllIdle
    /\ job' = [b \in Backups |-> IdleJob]
    /\ del' = [p \in Deleters |-> IdleDel]
    /\ sweep' = [s \in Sweeps |-> IdleSweep]
    /\ UNCHANGED storeVars

Backup(b) ==
    /\ (MayStart /\ BackupBegins(b)) \/ BackupStep(b)
    /\ UNCHANGED <<del, sweep>>

User(u) ==
    /\ (MayStart /\ UserDeletes(u)) \/ DeleteStep(u) \/ UserReturns(u)
    /\ UNCHANGED <<job, sweep>>

Sweep(s) ==
    /\ \/ MayStart /\ SweepBegins(s)
       \/ SweepStep(s)
       \/ DeleteStep(s) /\ UNCHANGED sweep
    /\ UNCHANGED job

Next ==
    \/ Tick
    \/ Crash
    \/ \E b \in Backups : Backup(b)
    \/ \E u \in Users : User(u)
    \/ \E s \in Sweeps : Sweep(s)

Spec == Init /\ [][Next]_vars

(* A goroutine that runs goes on running, and the retention cron entry     *)
(* comes round again for ever.                                             *)
FairSpec ==
    /\ Spec
    /\ WF_vars(Tick)
    /\ \A b \in Backups : WF_vars(BackupStep(b) /\ UNCHANGED <<del, sweep>>)
    /\ \A u \in Users : WF_vars((DeleteStep(u) \/ UserReturns(u)) /\ UNCHANGED <<job, sweep>>)
    /\ \A s \in Sweeps : WF_vars(Sweep(s))

-----------------------------------------------------------------------------
(* The fulls of a database that the golden rule counts: completed, and     *)
(* their object confirmed to be in the bucket.                             *)
Restorable(db) ==
    {i \in CompletedFulls(db) : ObjectExists(records[i].fileName)}

(* Records, locals of the goroutines and keys have their types. *)
TypeOK ==
    /\ StoreTypeOK
    /\ JobTypeOK
    /\ QueryTypeOK
    /\ SweepTypeOK

-----------------------------------------------------------------------------
(* The inductive invariant: what the goroutines' local states know of the  *)
(* records, and stays true whatever the others do meanwhile.               *)

(* The key that only record i can have, when stamps are unique.            *)
OwnKey(i) == <<records[i].db, records[i].type, i>>

FileOf(i, key) == UniqueStamps => key \in {NoKey, OwnKey(i)}

RecordOK(i) ==
    /\ records[i].parent # NoId => ~IsFull(i)
    /\ records[i].status = "completed" => records[i].fileName # NoKey
    /\ FileOf(i, records[i].fileName)

Active(b) == job[b].pc \notin {"idle", "chained"}
HasKey(b) == job[b].pc \in {"uploading", "closing", "discarding", "completing"}

JobOK(b) ==
    /\ job[b].pc = "chained" => job[b].db \in SqlServer
    /\ Active(b) =>
          /\ job[b].id \in DOMAIN records
          /\ records[job[b].id].fileName = NoKey
          /\ records[job[b].id].status # "completed"
          /\ records[job[b].id].db = job[b].db
          /\ records[job[b].id].type = JobType(b)
          /\ \A c \in Backups : Active(c) /\ job[c].id = job[b].id => c = b
    /\ HasKey(b) => job[b].key \in Key /\ FileOf(job[b].id, job[b].key)

Child(k) == k.id \in DOMAIN records /\ ~IsFull(k.id) /\ FileOf(k.id, k.key)

DelOK(p) ==
    /\ del[p].pc # "idle" =>
          /\ del[p].root.id \in DOMAIN records
          /\ FileOf(del[p].root.id, del[p].root.key)
    /\ \A k \in del[p].kids : Child(k)
    /\ del[p].pc = "mark" => del[p].cur = del[p].root \/ Child(del[p].cur)

(* Fulls of db that completed once, whatever became of them.               *)
OnceCompleted(db) ==
    {i \in DOMAIN records :
        records[i].db = db /\ IsFull(i) /\ records[i].fileName # NoKey}

SweepOK(s) ==
    /\ \A i \in sweep[s].expired : i \in DOMAIN records /\ records[i].db \notin SqlServer
    /\ \A i \in sweep[s].snap : \E db \in SqlServer : i \in OnceCompleted(db)
    /\ sweep[s].fulls # {} => \E db \in SqlServer : sweep[s].fulls \subseteq OnceCompleted(db)
    /\ sweep[s].pc \in {"verify", "deleting"} =>
          /\ sweep[s].candidate \in sweep[s].fulls
          /\ \A i \in sweep[s].unchecked \cup sweep[s].verified :
                i \in sweep[s].fulls /\ sweep[s].candidate < i
    /\ sweep[s].pc = "deleting" =>
          /\ AtLeastMinVerified(sweep[s].verified)
          /\ del[s].root.id = sweep[s].candidate
    /\ sweep[s].pc = "expiring" => records[del[s].root.id].db \notin SqlServer
    /\ del[s].pc # "idle" <=> sweep[s].pc \in {"expiring", "deleting"}

Inv ==
    /\ TypeOK
    /\ \A i \in DOMAIN records : RecordOK(i)
    /\ \A b \in Backups : JobOK(b)
    /\ \A p \in Deleters : DelOK(p)
    /\ \A s \in Sweeps : SweepOK(s)

(* A full that completed can be restored, or two newer ones can.  Deletions *)
(* by users break this; retention never does.                              *)
Covered(db, i) ==
    i \in Restorable(db) \/ AtLeastMinVerified({j \in Restorable(db) : i < j})

AllCovered == \A db \in SqlServer : \A i \in OnceCompleted(db) : Covered(db, i)

(* What a deletion has read of its records is their file names, and the    *)
(* object of a backup that was uploaded is not taken away before its       *)
(* record says where it is.                                                *)
KeysRead(p) ==
    /\ del[p].pc # "idle" => del[p].root.key \in {NoKey, records[del[p].root.id].fileName}
    /\ \A k \in del[p].kids : k.key \in {NoKey, records[k.id].fileName}

(* The logs a deletion owes to its full: once completed they stay so until  *)
(* someone expires them, and those it has not passed are still before it.  *)
OwedOK(p) ==
    LET root == del[p].root.id
        left == {j \in del[p].owed : records[j].status = "completed"}
        ahead == {k.id : k \in del[p].kids}
    IN
    /\ \A j \in del[p].owed :
          /\ j \in DOMAIN records
          /\ records[j].parent = root
          /\ records[j].fileName # NoKey
    /\ del[p].pc = "cascade" /\ IsFull(root) => left \subseteq ahead
    /\ del[p].pc = "mark" /\ IsFull(root) =>
          IF del[p].cur.id = root THEN left = {}
                                  ELSE left \subseteq ahead \cup {del[p].cur.id}

(* The object S3 was asked for is the record's, and no one uploads it anew. *)
AskedGone(p) ==
    del[p].pc = "mark" /\ del[p].asked =>
        /\ del[p].cur.key # NoKey
        /\ del[p].cur.key = records[del[p].cur.id].fileName
        /\ del[p].cur.key \notin bucket

Uploaded(b) == job[b].pc \in {"closing", "completing"} => job[b].key \in bucket

RetentionInv ==
    /\ Inv
    /\ DOMAIN records \subseteq 1..MaxRecords
    /\ \A p \in Deleters : KeysRead(p) /\ OwedOK(p)
    /\ UniqueStamps => \A p \in Deleters : AskedGone(p)
    /\ UniqueStamps => \A b \in Backups : Uploaded(b)
    /\ UniqueStamps /\ Users = {} => AllCovered

-----------------------------------------------------------------------------
(* Properties *)

(* A step of sweep s inside a DeleteBackup it called. *)
SweepActs(s) == sweep[s].pc \in {"expiring", "deleting"} /\ del'[s] # del[s]

Lost(db) == Restorable(db) \ Restorable(db)'

(* "A full backup is never deleted if doing so would leave fewer than this *)
(* many verified fulls in the bucket for that database": when a retention  *)
(* sweep takes a full away, two that can be restored remain.               *)
GoldenRuleStep ==
    \A s \in Sweeps, db \in SqlServer :
        SweepActs(s) /\ Lost(db) # {} => AtLeastMinVerified(Restorable(db)')

GoldenRule == [][GoldenRuleStep]_vars

(* Without deletions by users the system implements VerifiedFulls.         *)
Promise == INSTANCE VerifiedFulls
    WITH Dbs <- SqlServer,
         Ids <- 1..MaxRecords,
         fulls <- [db \in SqlServer |-> Restorable(db)]

ImplementsPromise == Promise!Spec

(* Whatever the users delete meanwhile, retention by itself never takes    *)
(* one of the two newest fulls of a database that ever completed.          *)
SparesNewestStep ==
    \A s \in Sweeps, db \in SqlServer :
        SweepActs(s) =>
            \A i \in Lost(db) : AtLeastMinVerified({j \in OnceCompleted(db) : i < j})

SparesNewest == [][SparesNewestStep]_vars

(* "A log without its full is useless, so they're never left orphaned": a  *)
(* log on offer for a restore has its full on offer too.                   *)
NoOrphanLog ==
    \A i \in DOMAIN records :
        ~IsFull(i) /\ records[i].status = "completed"
            => records[records[i].parent].status = "completed"

(* A completed record can be restored, as long as nothing has begun to     *)
(* delete it.                                                              *)
BeingDeleted(i) ==
    \E p \in Deleters : del[p].cur.id = i /\ del[p].pc = "mark"

CompletedHasObject ==
    \A i \in DOMAIN records :
        records[i].status = "completed" /\ ~BeingDeleted(i)
            => ObjectExists(records[i].fileName)

(* Every object in the bucket is the file of a record that is not expired, *)
(* or belongs to a backup in progress: nothing is paid for that no one can *)
(* see.                                                                    *)
NoLeakedObject ==
    \A key \in bucket :
        \/ \E i \in DOMAIN records :
              records[i].fileName = key /\ records[i].status # "expired"
        \/ \E b \in Backups : job[b].key = key

(* Every log that was on offer when a deletion found its full has left the *)
(* offer before the full does: a deletion breaks no chain it could see.    *)
Marks(p, i) == del[p].pc = "mark" /\ del[p].cur.id = i /\ del'[p].pc # "mark"

LogsGoFirstStep ==
    \A p \in Deleters :
        LET root == del[p].root.id IN
        Marks(p, root) /\ IsFull(root) /\ del'[p].pc = "ok" =>
            \A j \in del[p].owed : records[j].status # "completed"

LogsGoFirst == [][LogsGoFirstStep]_vars

(* An object stays in sight, as the file of a record that is not expired   *)
(* or of a backup in progress, unless a deletion did not ask S3 for it, an *)
(* upload or a Discard failed, or the process died.                        *)
Shown(key) ==
    \/ \E i \in DOMAIN records :
          records[i].fileName = key /\ records[i].status # "expired"
    \/ \E b \in Backups : HasKey(b) /\ job[b].key = key

GivesUp(b) ==
    \/ job[b].pc = "uploading"
    \/ job[b].pc = "discarding" /\ "delete" \in Faults

LeftBehind(key) ==
    \/ \E p \in Deleters, i \in DOMAIN records :
          Marks(p, i) /\ ~del[p].asked /\ records[i].fileName = key
    \/ \E b \in Backups : job[b].key = key /\ GivesUp(b) /\ job'[b].pc = "failing"
    \/ "crash" \in Faults /\ ~AllIdle /\ AllIdle'

KeptInSightStep ==
    \A key \in bucket' : Shown(key) => Shown(key)' \/ LeftBehind(key)

KeptInSight == [][KeptInSightStep]_vars

-----------------------------------------------------------------------------
(* A backup that was started ends, whatever fails on its way.              *)
Has(i, status) == i \in DOMAIN records /\ records[i].status = status

BackupsEnd ==
    \A i \in 1..MaxRecords : Has(i, "running") ~> ~Has(i, "running")

(* Retention gets done: a full past the window with two restorable newer   *)
(* ones does not stay.                                                     *)
Prunable(i) ==
    /\ Has(i, "completed")
    /\ IsFull(i)
    /\ records[i].db \in SqlServer
    /\ \A days \in RetainDays : records[i].startedAt < now - days
    /\ AtLeastMinVerified({j \in Restorable(records[i].db) : i < j})

OldFullsPruned ==
    \A i \in 1..MaxRecords : Prunable(i) ~> Has(i, "expired")
=============================================================================
