--------------------------- MODULE BackupRecords ---------------------------
(***************************************************************************)
(* The state every backup goroutine shares: the BackupRecord table of the  *)
(* bbolt store and the objects of the S3 bucket, with the operations of    *)
(* the repository and of the storage adapter on them.  A bbolt transaction *)
(* is atomic, an S3 request is atomic, and nothing makes two of them       *)
(* atomic together: the modules that extend this one take one step per     *)
(* transaction or request.                                                 *)
(*                                                                         *)
(* Records are numbered in the order of their StartedAt, so "the oldest"   *)
(* of a set of records is its least number; StartedAt itself is the value  *)
(* of the clock, whose unit is the resolution of the retention window.     *)
(* A "database" stands for a pair (instance, database name), the group the *)
(* code chains, restores and expires by.                                   *)
(***************************************************************************)
EXTENDS Integers, Sequences, FiniteSets

CONSTANTS
    Databases,     \* the (instance, database) pairs that are backed up
    SqlServer,     \* those whose engine is SQL Server
    RetainDays,    \* the values a retention policy may have
    MaxRecords,    \* bound: backups started in a behaviour
    MaxClock,      \* bound: the last tick of the clock
    Faults         \* the failures the environment may inject

VARIABLES
    records,       \* bucketBackupRecords of the bbolt store
    bucket,        \* the keys of the objects in the S3 bucket
    now            \* the wall clock

FaultKinds == {"dump", "upload", "close", "delete", "list", "config", "crash",
               "extract", "download", "restore"}

ASSUME ConstantsAssumption ==
    /\ SqlServer \subseteq Databases
    /\ RetainDays \subseteq Nat \ {0}
    /\ MaxRecords \in Nat
    /\ MaxClock \in Nat
    /\ Faults \subseteq FaultKinds

-----------------------------------------------------------------------------
(* BackupRecord *)

Type == {"full", "log"}
Status == {"running", "completed", "failed", "expired"}

RecId == Nat \ {0}
NoId == 0                               \* ParentBackupID = ""

(* objectKey: a key is built from the database, the extension and a        *)
(* timestamp.  FileName is "" until the job's Update writes it.            *)
Key == Databases \X Type \X Nat
NoKey == <<>>

NoDb == {}                              \* a local variable not yet set

BackupRecord ==
    [db        : Databases,
     type      : Type,
     parent    : RecId \cup {NoId},
     status    : Status,
     fileName  : Key \cup {NoKey},
     startedAt : Nat,
     expiresAt : Nat]

IsFull(i) == records[i].type # "log"

NewRecord(db, type, parent, days) ==
    [db |-> db, type |-> type, parent |-> parent, status |-> "running",
     fileName |-> NoKey, startedAt |-> now, expiresAt |-> now + days]

-----------------------------------------------------------------------------
(* BackupRecordRepository: each operator is one bbolt transaction. *)

Save(rec) == records' = Append(records, rec)

UpdateStatus(i, status) == records' = [records EXCEPT ![i].status = status]

(* Update writes the job's copy over the stored record.  The only field    *)
(* another goroutine can have changed since Save is the status.            *)
Update(i, status, key) ==
    records' = [records EXCEPT ![i].status = status, ![i].fileName = key]

FindExpired ==
    {i \in DOMAIN records :
        records[i].expiresAt < now /\ records[i].status # "expired"}

FindChildren(i) == {j \in DOMAIN records : records[j].parent = i}

CompletedFulls(db) ==
    {i \in DOMAIN records :
        /\ records[i].db = db
        /\ records[i].status = "completed"
        /\ IsFull(i)}

Oldest(i, S) == i \in S /\ \A j \in S : i <= j
Newest(i, S) == i \in S /\ \A j \in S : j <= i

(* latestCompletedFull *)
LatestCompletedFull(db, i) == Newest(i, CompletedFulls(db))

-----------------------------------------------------------------------------
(* The S3 storage adapter: each operator is one request. *)

PutObject(key) == bucket' = bucket \cup {key}

(* Mistaken variant: asked for another key, S3 succeeds and removes nothing. *)
DeleteObjectMisnamed(key) == bucket' = bucket

DeleteObject(key) == bucket' = bucket \ {key}
ObjectExists(key) == key # NoKey /\ key \in bucket

-----------------------------------------------------------------------------
StoreInit ==
    /\ records = <<>>
    /\ bucket = {}
    /\ now = 0

StoreTypeOK ==
    /\ records \in Seq(BackupRecord)
    /\ bucket \subseteq Key
    /\ now \in Nat
=============================================================================
