--------------------------- MODULE DeletionProofs ---------------------------
(***************************************************************************)
(* Proofs of what deletions, whoever asks for them, may take away and what *)
(* they leave: the golden rule of the SQL Server retention, and then       *)
(* completed records keep their objects, logs go before their full, and an *)
(* object stays in sight but for the failures listed.  For any number of   *)
(* databases, records and goroutines.                                      *)
(***************************************************************************)
EXTENDS BackupSystemProofs

-----------------------------------------------------------------------------
(* Keys *)

(* An object is the file of one record only. *)
LEMMA OwnKeysDiffer ==
    ASSUME NEW i, NEW j, OwnKey(i) = OwnKey(j)
    PROVE  i = j
BY DEF OwnKey

LEMMA RestorableHasOwnKey ==
    ASSUME RecordsOK, UniqueStamps, NEW db, NEW i \in Restorable(db)
    PROVE  /\ i \in DOMAIN records /\ records[i].db = db /\ IsFull(i)
           /\ records[i].status = "completed"
           /\ records[i].fileName # NoKey
           /\ records[i].fileName = OwnKey(i) /\ OwnKey(i) \in bucket
           /\ i \in OnceCompleted(db)
BY DEF Restorable, CompletedFulls, OnceCompleted, ObjectExists, RecordsOK, RecordOK, FileOf

-----------------------------------------------------------------------------
(* Deletions *)

(* A deletion takes no full away but the one it was called for: what else  *)
(* it deletes is a log.                                                    *)
LEMMA DeletionTakes ==
    ASSUME Inv, UniqueStamps, NEW p \in Deleters, DeleteStep(p), NEW db
    PROVE  /\ Restorable(db)' \subseteq Restorable(db)
           /\ Restorable(db) \ Restorable(db)' \subseteq {del[p].root.id}
           /\ OnceCompleted(db)' = OnceCompleted(db)
<1> DEFINE d == del[p]
<1>1. RecordsOK /\ DelOK(p) /\ d \in DelState /\ records \in Seq(BackupRecord)
  BY InvIsSplit DEF RecordsOK, StoreTypeOK, QueryTypeOK
<1>2. OnlyExpires /\ RecordsOK'
  BY DeleteKeeps, InvIsSplit
<1>3. DOMAIN records' = DOMAIN records /\ bucket' \subseteq bucket
  <2>1. CASE DeleteMark(p)
    <3>1. d.cur.id \in DOMAIN records
      BY <1>1, <2>1 DEF DeleteMark, DelOK, Child
    <3> QED
      BY <1>1, <2>1, <3>1, UpdateStatusChangesOne DEF DeleteMark, Status
  <2>2. CASE ~DeleteMark(p)
    BY <2>2 DEF DeleteStep, DeleteFind, DeleteList, DeleteObjectOf, DeleteObjectSkipped,
                DeleteObjectFail, DeleteObject
  <2> QED
    BY <2>1, <2>2
<1>4. OnceCompleted(db)' = OnceCompleted(db)
  BY <1>2, <1>3 DEF OnceCompleted, IsFull, OnlyExpires, Grows
<1>5. Restorable(db)' \subseteq Restorable(db)
  BY <1>2, <1>3 DEF Restorable, CompletedFulls, ObjectExists, IsFull, OnlyExpires, Grows
<1>6. ASSUME NEW i \in Restorable(db), i # d.root.id
      PROVE  i \in Restorable(db)'
  <2>1. /\ i \in DOMAIN records /\ records[i].db = db /\ IsFull(i)
        /\ records[i].status = "completed" /\ records[i].fileName # NoKey
        /\ records[i].fileName = OwnKey(i) /\ OwnKey(i) \in bucket
    BY <1>1, <1>6, RestorableHasOwnKey
  <2>2. ASSUME NEW one, one = d.root \/ Child(one), one = d.root => d.pc # "idle"
        PROVE  one.id # i /\ one.key # OwnKey(i)
    <3>1. one.id # i
      BY <1>6, <2>1, <2>2 DEF Child
    <3>2. one.key \in {NoKey, OwnKey(one.id)}
      BY <1>1, <2>2 DEF Child, DelOK, FileOf
    <3> QED
      BY <2>1, <3>1, <3>2, OwnKeysDiffer
  <2>3. CASE DeleteMark(p)
    <3>1. d.cur.id # i /\ d.cur.id \in DOMAIN records
      BY <1>1, <2>2, <2>3 DEF DeleteMark, DelOK, Child
    <3>2. records'[i] = records[i] /\ bucket' = bucket
      BY <1>1, <2>1, <2>3, <3>1, UpdateStatusChangesOne DEF DeleteMark, Status
    <3> QED
      BY <1>3, <1>6, <2>1, <3>2 DEF Restorable, CompletedFulls, ObjectExists, IsFull
  <2>4. CASE DeleteObjectOf(p) \/ DeleteObjectFail(p)
    <3>1. PICK one \in NextTargets(p) : bucket' = bucket \/ bucket' = bucket \ {one.key}
      BY <2>4 DEF DeleteObjectOf, DeleteObjectFail, DeleteObject
    <3>2. one.key # OwnKey(i)
      BY <1>1, <2>2, <2>4 DEF NextTargets, DelOK, DeleteObjectOf, DeleteObjectFail
    <3>3. UNCHANGED records /\ OwnKey(i) \in bucket'
      BY <2>1, <2>4, <3>1, <3>2 DEF DeleteObjectOf, DeleteObjectFail
    <3> QED
      BY <1>6, <2>1, <3>3 DEF Restorable, CompletedFulls, ObjectExists, IsFull
  <2>5. CASE UNCHANGED <<records, bucket>>
    BY <1>6, <2>5 DEF Restorable, CompletedFulls, ObjectExists, IsFull
  <2> QED
    BY <2>3, <2>4, <2>5 DEF DeleteStep, DeleteFind, DeleteList, DeleteObjectSkipped
<1> QED
  BY <1>4, <1>5, <1>6

(* The full a sweep deletes has two newer fulls that completed.            *)
LEMMA SweepTakes ==
    ASSUME Inv, NEW s \in Sweeps, sweep[s].pc \in {"expiring", "deleting"},
           NEW db \in SqlServer, NEW i \in OnceCompleted(db), i = del[s].root.id
    PROVE  AtLeastMinVerified({j \in OnceCompleted(db) : i < j})
<1>1. SweepOK(s) /\ records[i].db = db
  BY InvIsSplit DEF OnceCompleted
<1>2. sweep[s].pc = "deleting" /\ i = sweep[s].candidate
  BY <1>1 DEF SweepOK
<1>3. PICK d \in SqlServer : sweep[s].fulls \subseteq OnceCompleted(d)
  BY <1>1, <1>2 DEF SweepOK
<1>4. i \in OnceCompleted(d)
  BY <1>1, <1>2, <1>3 DEF SweepOK
<1>5. d = db
  BY <1>1, <1>4 DEF OnceCompleted
<1>6. PICK j, k \in sweep[s].verified : j # k
  BY <1>1, <1>2 DEF SweepOK, AtLeastMinVerified
<1>7. {j, k} \subseteq {m \in OnceCompleted(db) : i < m}
  BY <1>1, <1>2, <1>3, <1>5, <1>6 DEF SweepOK
<1> QED
  BY <1>6, <1>7 DEF AtLeastMinVerified

LEMMA SweepTouchesNothing ==
    ASSUME NEW s \in Sweeps, SweepBegins(s) \/ SweepStep(s)
    PROVE  UNCHANGED <<records, bucket, now>>
BY DEF SweepBegins, SweepStep, SweepExpired, SweepExpiredReturns, SweepSnapshot,
       SweepNoStorage, SweepGroup, SweepReturns, SweepCandidate, SweepGroupDone,
       SweepVerify, SweepVerifyFail, SweepDeletes, SweepGoldenRule, SweepDeleted,
       SweepDeleteFailed

LEMMA RestorableStands ==
    ASSUME UNCHANGED <<records, bucket>>, NEW db
    PROVE  Restorable(db)' = Restorable(db) /\ OnceCompleted(db)' = OnceCompleted(db)
BY DEF Restorable, CompletedFulls, ObjectExists, OnceCompleted, IsFull

(* Of the steps that move the deletion of a sweep, only its own            *)
(* DeleteStep can take a full away.                                        *)
LEMMA SweepLosesBySelf ==
    ASSUME Inv, [Next]_vars, NEW s \in Sweeps, SweepActs(s),
           NEW db, NEW i \in Lost(db)
    PROVE  DeleteStep(s)
<1>1. del'[s] # del[s] /\ s \in Deleters /\ ~UNCHANGED <<records, bucket>>
  BY RestorableStands DEF SweepActs, Lost, Deleters
<1>2. ~UNCHANGED vars /\ ~Tick /\ ~Crash /\ \A b \in Backups : ~Backup(b)
  BY <1>1 DEF vars, Tick, Crash, storeVars, Backup
<1>3. ASSUME NEW u \in Users, User(u) PROVE FALSE
  <2>1. u # s /\ u \in Deleters
    BY DeletersAssumption DEF Deleters
  <2>2. CASE UserDeletes(u) \/ UserReturns(u)
    BY <1>1, <2>1, <2>2, UserKeeps, InvIsSplit
  <2>3. CASE DeleteStep(u)
    BY <1>1, <2>1, <2>3, DeleteKeeps, InvIsSplit
  <2> QED
    BY <1>3, <2>2, <2>3 DEF User
<1>4. PICK t \in Sweeps : Sweep(t)
  BY <1>2, <1>3 DEF Next
<1>5. ~(SweepBegins(t) \/ SweepStep(t))
  BY <1>1, SweepTouchesNothing
<1>6. DeleteStep(t) /\ t \in Deleters
  BY <1>4, <1>5 DEF Sweep, Deleters
<1>7. t = s
  BY <1>1, <1>6, DeleteKeeps, InvIsSplit
<1> QED
  BY <1>6, <1>7

LEMMA SweepSparesNewest ==
    ASSUME UniqueStamps, Inv, [Next]_vars
    PROVE  SparesNewestStep
<1> SUFFICES ASSUME NEW s \in Sweeps, NEW db \in SqlServer, SweepActs(s),
                    NEW i \in Lost(db)
             PROVE  AtLeastMinVerified({j \in OnceCompleted(db) : i < j})
  BY DEF SparesNewestStep
<1>1. DeleteStep(s) /\ s \in Deleters
  BY SweepLosesBySelf DEF Deleters
<1>2. i = del[s].root.id
  BY <1>1, DeletionTakes DEF Lost
<1>3. i \in OnceCompleted(db)
  BY RestorableHasOwnKey, InvIsSplit DEF Lost
<1> QED
  BY <1>2, <1>3, SweepTakes DEF SweepActs

(* Whatever else runs, users' deletions included, and wherever the process *)
(* dies: a sweep takes a full away only when two newer fulls of the        *)
(* database have completed, so never one of the two newest.                *)
THEOREM NewestAreSpared ==
    ASSUME UniqueStamps
    PROVE  Spec => SparesNewest
<1>1. Inv /\ [Next]_vars => SparesNewestStep
  BY SweepSparesNewest
<1> QED
  BY <1>1, InvHolds, PTL DEF Spec, SparesNewest

-----------------------------------------------------------------------------
(* What any step does to the fulls, when users delete nothing: nothing, or *)
(* a full joins the restorable ones, or one with two newer ones leaves.    *)

Others(d) ==
    \A db \in SqlServer : db # d =>
        Restorable(db)' = Restorable(db) /\ OnceCompleted(db)' = OnceCompleted(db)

Same ==
    \A db \in SqlServer :
        Restorable(db)' = Restorable(db) /\ OnceCompleted(db)' = OnceCompleted(db)

Gains(d, n) ==
    /\ Restorable(d)' = Restorable(d) \cup {n}
    /\ OnceCompleted(d)' = OnceCompleted(d) \cup {n}
    /\ Others(d)

Loses(d, c) ==
    /\ AtLeastMinVerified({j \in Restorable(d) : c < j})
    /\ Restorable(d)' = Restorable(d) \ {c}
    /\ OnceCompleted(d)' = OnceCompleted(d)
    /\ Others(d)

Outcome ==
    \/ Same
    \/ \E d \in SqlServer, n \in DOMAIN records' : Gains(d, n)
    \/ \E d \in SqlServer, c \in DOMAIN records : Loses(d, c)

(* The key of a job is no completed record's. *)
LEMMA JobKeyIsItsOwn ==
    ASSUME Inv, UniqueStamps, NEW b \in Backups, HasKey(b)
    PROVE  /\ Active(b) /\ job[b].id \in DOMAIN records
           /\ job[b].key = OwnKey(job[b].id)
           /\ \A db : \A i \in Restorable(db) : i # job[b].id /\ OwnKey(i) # job[b].key
<1>1. Active(b) /\ JobOK(b) /\ RecordsOK
  BY InvIsSplit DEF HasKey, Active, JobsOK
<1>2. /\ job[b].id \in DOMAIN records
      /\ records[job[b].id].fileName = NoKey
      /\ job[b].key \in Key /\ job[b].key \in {NoKey, OwnKey(job[b].id)}
  BY <1>1 DEF JobOK, FileOf
<1>3. NoKey \notin Key
  BY DEF NoKey, Key
<1>4. job[b].key = OwnKey(job[b].id)
  BY <1>2, <1>3
<1>5. ASSUME NEW db, NEW i \in Restorable(db)
      PROVE  i # job[b].id /\ OwnKey(i) # job[b].key
  BY <1>1, <1>2, <1>4, <1>5, RestorableHasOwnKey, OwnKeysDiffer
<1> QED
  BY <1>1, <1>2, <1>4, <1>5

LEMMA BackupOutcome ==
    ASSUME Inv, UniqueStamps, NEW b \in Backups, Uploaded(b), Backup(b)
    PROVE  Outcome
<1> DEFINE i == job[b].id
<1>1. RecordsOK /\ JobOK(b) /\ records \in Seq(BackupRecord)
  BY InvIsSplit DEF JobsOK, RecordsOK, StoreTypeOK
<1>2. CASE UNCHANGED <<records, bucket>>
  BY <1>2, RestorableStands DEF Outcome, Same
<1>3. ASSUME NEW db \in Databases, NEW parent \in RecId \cup {NoId},
             StartRecord(b, db, parent)
      PROVE  Outcome
  <2>1. PICK days \in RetainDays :
            Save(NewRecord(db, IF parent = NoId THEN "full" ELSE "log", parent, days))
    BY <1>3 DEF StartRecord
  <2> DEFINE rec == NewRecord(db, IF parent = NoId THEN "full" ELSE "log", parent, days)
             n == Len(records) + 1
  <2>2. rec \in BackupRecord
    BY <1>1, ConstantsAssumption, InvIsSplit
    DEF NewRecord, BackupRecord, Type, Status, RecordsOK, StoreTypeOK
  <2>3. /\ DOMAIN records' = DOMAIN records \cup {n}
        /\ n \notin DOMAIN records /\ records'[n] = rec
        /\ \A k \in DOMAIN records : records'[k] = records[k]
    BY <1>1, <2>1, <2>2, SaveAppends
  <2>4. records'[n].status # "completed" /\ records'[n].fileName = NoKey /\ bucket' = bucket
    BY <1>3, <2>3 DEF NewRecord, StartRecord
  <2> QED
    BY <2>3, <2>4
    DEF Outcome, Same, Restorable, CompletedFulls, ObjectExists, OnceCompleted, IsFull
<1>4. CASE BeginFull(b)
  BY <1>3, <1>4 DEF BeginFull
<1>5. CASE SaveLog(b)
  <2>1. job[b].db \in Databases /\ job[b].parent \in RecId \cup {NoId}
    BY <1>1, <1>5, ConstantsAssumption, InvIsSplit
    DEF SaveLog, JobOK, JobsOK, JobTypeOK, JobState
  <2> QED
    BY <1>3, <1>5, <2>1 DEF SaveLog
<1>6. CASE Upload(b) \/ UploadFail(b) \/ Discard(b)
  <2>1. HasKey(b) /\ UNCHANGED records
    BY <1>6 DEF Upload, UploadFail, Discard, HasKey
  <2>2. bucket' \cup {job[b].key} = bucket \cup {job[b].key}
    BY <1>6 DEF Upload, UploadFail, Discard, PutObject, DeleteObject
  <2>3. \A k \in DOMAIN records :
            records[k].status = "completed" /\ IsFull(k) =>
               records[k].fileName = OwnKey(k) /\ k # i
    BY <1>1, <2>1 DEF RecordsOK, RecordOK, FileOf, JobOK, HasKey, Active
  <2>4. \A k \in DOMAIN records :
            records[k].status = "completed" /\ IsFull(k) =>
               (ObjectExists(records[k].fileName)' <=> ObjectExists(records[k].fileName))
    BY <2>1, <2>2, <2>3, JobKeyIsItsOwn, OwnKeysDiffer DEF ObjectExists
  <2> QED
    BY <2>1, <2>4
    DEF Outcome, Same, Restorable, CompletedFulls, OnceCompleted, IsFull
<1>7. CASE Fail(b)
  <2>1. /\ i \in DOMAIN records
        /\ records[i].fileName = NoKey /\ records[i].status # "completed"
    BY <1>1, <1>7 DEF Fail, JobOK, Active
  <2>2. /\ DOMAIN records' = DOMAIN records
        /\ records'[i].db = records[i].db /\ records'[i].type = records[i].type
        /\ records'[i].fileName = NoKey /\ records'[i].status # "completed"
        /\ \A j \in DOMAIN records : j # i => records'[j] = records[j]
        /\ bucket' = bucket
    BY <1>1, <1>7, <2>1, UpdateStatusChangesOne DEF Fail, Status
  <2> QED
    BY <2>1, <2>2
    DEF Outcome, Same, Restorable, CompletedFulls, ObjectExists, OnceCompleted, IsFull
<1>8. CASE Complete(b)
  <2>1. HasKey(b) /\ job[b].key \in bucket /\ i \in DOMAIN records
    BY <1>8, JobKeyIsItsOwn DEF Complete, HasKey, Uploaded
  <2>2. /\ records[i].fileName = NoKey /\ records[i].status # "completed"
        /\ job[b].key \in Key /\ NoKey \notin Key
    BY <1>1, <2>1, JobKeyIsItsOwn DEF JobOK, Key, NoKey
  <2>3. /\ DOMAIN records' = DOMAIN records
        /\ records'[i].db = records[i].db /\ records'[i].type = records[i].type
        /\ records'[i].fileName = job[b].key /\ records'[i].status = "completed"
        /\ \A j \in DOMAIN records : j # i => records'[j] = records[j]
        /\ bucket' = bucket
    BY <1>1, <1>8, <2>1, <2>2, UpdateChangesOne DEF Complete, Status
  <2>4. CASE IsFull(i) /\ records[i].db \in SqlServer
    <3>1. PICK d \in SqlServer : d = records[i].db
      BY <2>4
    <3>2. Restorable(d)' = Restorable(d) \cup {i}
      BY <3>1, <2>1, <2>2, <2>3, <2>4 DEF Restorable, CompletedFulls, ObjectExists, IsFull
    <3>3. OnceCompleted(d)' = OnceCompleted(d) \cup {i}
      BY <3>1, <2>1, <2>2, <2>3, <2>4 DEF OnceCompleted, IsFull
    <3>4. Others(d)
      BY <3>1, <2>1, <2>2, <2>3, <2>4
      DEF Others, Restorable, CompletedFulls, ObjectExists, OnceCompleted, IsFull
    <3> QED
      BY <2>1, <2>3, <3>1, <3>2, <3>3, <3>4 DEF Outcome, Gains
  <2>5. CASE ~(IsFull(i) /\ records[i].db \in SqlServer)
    BY <2>1, <2>2, <2>3, <2>5
    DEF Outcome, Same, Restorable, CompletedFulls, ObjectExists, OnceCompleted, IsFull
  <2> QED
    BY <2>4, <2>5
<1> QED
  BY <1>2, <1>4, <1>5, <1>6, <1>7, <1>8
  DEF Backup, BackupBegins, BackupStep, BeginLog, Dump, DumpFail, Close, CloseFail

(* A full with two newer ones that completed has two newer restorable ones: *)
(* where one of the two was retired, two newer still had to be there.       *)
LEMMA TwoNewerRestorable ==
    ASSUME RecordsOK, AllCovered, NEW db \in SqlServer, NEW i \in Nat,
           AtLeastMinVerified({j \in OnceCompleted(db) : i < j})
    PROVE  AtLeastMinVerified({j \in Restorable(db) : i < j})
<1>1. PICK j, k \in OnceCompleted(db) : j # k /\ i < j /\ i < k
  BY DEF AtLeastMinVerified
<1>2. OnceCompleted(db) \subseteq Nat /\ Restorable(db) \subseteq Nat
  BY RecordsHaveTypes
  DEF RecordsOK, StoreTypeOK, OnceCompleted, Restorable, CompletedFulls, RecId
<1>3. CASE j \in Restorable(db) /\ k \in Restorable(db)
  BY <1>1, <1>3 DEF AtLeastMinVerified
<1>4. ASSUME NEW m \in {j, k}, m \notin Restorable(db)
      PROVE  AtLeastMinVerified({n \in Restorable(db) : i < n})
  <2>1. PICK a, b \in Restorable(db) : a # b /\ m < a /\ m < b
    BY <1>1, <1>4 DEF AllCovered, Covered, AtLeastMinVerified
  <2>2. i < m /\ m \in Nat /\ a \in Nat /\ b \in Nat
    BY <1>1, <1>2, <2>1
  <2>3. i < a /\ i < b
    BY <2>1, <2>2
  <2> QED
    BY <2>1, <2>3 DEF AtLeastMinVerified
<1> QED
  BY <1>3, <1>4

LEMMA SweepOutcome ==
    ASSUME Inv, UniqueStamps, AllCovered, NEW s \in Sweeps, DeleteStep(s)
    PROVE  Outcome
<1>1. s \in Deleters /\ RecordsOK /\ RecordsOK' /\ records \in Seq(BackupRecord)
  BY DeleteKeeps, InvIsSplit DEF Deleters, RecordsOK, StoreTypeOK
<1>2. PICK c : c = del[s].root.id
  OBVIOUS
<1>3. \A db : /\ Restorable(db)' \subseteq Restorable(db)
              /\ Restorable(db) \ Restorable(db)' \subseteq {c}
              /\ OnceCompleted(db)' = OnceCompleted(db)
  BY <1>1, <1>2, DeletionTakes
<1>4. CASE \A db \in SqlServer : c \notin Restorable(db) \ Restorable(db)'
  BY <1>3, <1>4 DEF Outcome, Same
<1>5. ASSUME NEW d \in SqlServer, c \in Restorable(d) \ Restorable(d)'
      PROVE  Outcome
  <2>1. /\ c \in OnceCompleted(d) /\ c \in DOMAIN records /\ records[c].db = d
        /\ c \in Nat
    BY <1>1, <1>5, RestorableHasOwnKey, RecordsHaveTypes DEF RecId
  <2>2. sweep[s].pc \in {"expiring", "deleting"}
    BY <1>1, DeleteKeeps, InvIsSplit DEF SweepOK
  <2>3. AtLeastMinVerified({j \in Restorable(d) : c < j})
    BY <1>1, <1>2, <2>1, <2>2, SweepTakes, TwoNewerRestorable
  <2>4. Restorable(d)' = Restorable(d) \ {c}
    BY <1>3, <1>5
  <2>5. Others(d)
    <3> SUFFICES ASSUME NEW db \in SqlServer, db # d
                 PROVE  Restorable(db)' = Restorable(db)
      BY <1>3 DEF Others
    <3>1. c \notin Restorable(db)
      BY <2>1 DEF Restorable, CompletedFulls
    <3> QED
      BY <1>3, <3>1
  <2> QED
    BY <1>3, <2>1, <2>3, <2>4, <2>5 DEF Outcome, Loses
<1> QED
  BY <1>4, <1>5

LEMMA StepOutcome ==
    ASSUME RetentionInv, UniqueStamps, Users = {}, [Next]_vars
    PROVE  Outcome
<1>1. Inv /\ AllCovered /\ \A b \in Backups : Uploaded(b)
  BY DEF RetentionInv
<1>2. CASE UNCHANGED <<records, bucket>>
  BY <1>2, RestorableStands DEF Outcome, Same
<1>3. CASE \E b \in Backups : Backup(b)
  BY <1>1, <1>3, BackupOutcome
<1>4. ASSUME NEW s \in Sweeps, Sweep(s)
      PROVE  Outcome
  <2>1. CASE DeleteStep(s)
    BY <1>1, <2>1, SweepOutcome
  <2>2. CASE SweepBegins(s) \/ SweepStep(s)
    BY <1>2, <2>2, SweepTouchesNothing
  <2> QED
    BY <1>4, <2>1, <2>2 DEF Sweep
<1> QED
  BY <1>2, <1>3, <1>4 DEF Next, vars, Tick, Crash, storeVars

LEMMA OutcomeCovers ==
    ASSUME Inv, Inv', AllCovered, Outcome
    PROVE  AllCovered'
<1> SUFFICES ASSUME NEW db \in SqlServer, NEW i \in OnceCompleted(db)'
             PROVE  Covered(db, i)'
  BY DEF AllCovered
<1>1. /\ OnceCompleted(db) \subseteq Nat /\ Restorable(db) \subseteq Nat
      /\ OnceCompleted(db)' \subseteq Nat
  <2>1. RecordsOK /\ RecordsOK'
    BY InvIsSplit DEF Inv, TypeOK, RecordsOK
  <2>2. DOMAIN records \subseteq Nat /\ DOMAIN records' \subseteq Nat
    BY <2>1, LenProperties DEF RecordsOK, StoreTypeOK
  <2> QED
    BY <2>2 DEF OnceCompleted, Restorable, CompletedFulls
<1>2. Covered(db, i)' <=> i \in Restorable(db)'
                          \/ AtLeastMinVerified({j \in Restorable(db)' : i < j})
  BY DEF Covered, AtLeastMinVerified
<1>3. i \in OnceCompleted(db) => Covered(db, i)
  BY DEF AllCovered
<1>4. CASE Restorable(db)' = Restorable(db) /\ OnceCompleted(db)' = OnceCompleted(db)
  BY <1>2, <1>3, <1>4 DEF Covered
<1>5. ASSUME NEW n, Gains(db, n)
      PROVE  Covered(db, i)'
  BY <1>2, <1>3, <1>5 DEF Covered, Gains, AtLeastMinVerified
<1>6. ASSUME NEW c \in DOMAIN records, Loses(db, c)
      PROVE  Covered(db, i)'
  <2>1. PICK j, k \in Restorable(db)' : j # k /\ c < j /\ c < k
    <3>1. PICK j, k \in Restorable(db) : j # k /\ c < j /\ c < k
      BY <1>6 DEF Loses, AtLeastMinVerified
    <3>2. c \in Nat
      BY RecordsHaveTypes, InvIsSplit DEF RecordsOK, StoreTypeOK, RecId
    <3>3. j # c /\ k # c
      BY <1>1, <3>1, <3>2
    <3> QED
      BY <1>6, <3>1, <3>3 DEF Loses
  <2>2. c \in Nat /\ j \in Nat /\ k \in Nat /\ i \in Nat /\ i \in OnceCompleted(db)
    BY <1>1, <1>6, <2>1, RecordsHaveTypes, InvIsSplit
    DEF Loses, RecordsOK, StoreTypeOK, RecId
  <2>3. CASE i \in Restorable(db) /\ i # c
    BY <1>2, <1>6, <2>3 DEF Loses
  <2>4. CASE i <= c
    <3>1. i < j /\ i < k
      BY <2>1, <2>2, <2>4
    <3> QED
      BY <1>2, <2>1, <3>1 DEF AtLeastMinVerified
  <2>5. CASE i \notin Restorable(db) /\ ~(i <= c)
    <3>1. PICK a, b \in Restorable(db) : a # b /\ i < a /\ i < b
      BY <1>3, <2>2, <2>5 DEF Covered, AtLeastMinVerified
    <3>2. a # c /\ b # c
      BY <1>1, <2>2, <2>5, <3>1
    <3> QED
      BY <1>2, <1>6, <3>1, <3>2 DEF Loses, AtLeastMinVerified
  <2> QED
    BY <2>2, <2>3, <2>4, <2>5
<1> QED
  BY <1>4, <1>5, <1>6 DEF Outcome, Same, Gains, Loses, Others

-----------------------------------------------------------------------------
(* What a step does to the records and to the bucket. *)

(* A backup writes its own record only, which has not completed before,    *)
(* and takes no object away but its own.                                   *)
LEMMA BackupWrites ==
    ASSUME Inv, NEW b \in Backups, Backup(b)
    PROVE  /\ Grows
           /\ \A i \in DOMAIN records :
                 records[i].status = "completed" => records'[i] = records[i]
           /\ \A i \in DOMAIN records :
                 records'[i].status = "expired" => records'[i] = records[i]
           /\ \A i \in DOMAIN records' :
                 \/ i \in DOMAIN records /\ records'[i] = records[i]
                 \/ records'[i].status # "completed"
                 \/ /\ Complete(b)
                    /\ i = job[b].id
                    /\ i \in DOMAIN records
                    /\ records'[i].fileName = job[b].key
           /\ \/ bucket \subseteq bucket'
              \/ HasKey(b) /\ Discard(b) /\ bucket \ {job[b].key} \subseteq bucket'
<1> DEFINE i == job[b].id
<1>1. RecordsOK /\ JobOK(b) /\ records \in Seq(BackupRecord) /\ Grows
  BY BackupKeeps, InvIsSplit DEF Backup, JobsOK, RecordsOK, StoreTypeOK
<1>2. CASE UNCHANGED records
  <2>1. \/ bucket \subseteq bucket'
        \/ HasKey(b) /\ Discard(b) /\ bucket \ {job[b].key} \subseteq bucket'
    <3>1. CASE Discard(b)
      BY <3>1 DEF Discard, DeleteObject, HasKey
    <3>2. CASE ~Discard(b)
      BY <3>2
      DEF Backup, BackupBegins, BackupStep, BeginFull, BeginLog, SaveLog, StartRecord,
          Dump, DumpFail, Upload, UploadFail, PutObject, Close, CloseFail, Fail, Complete
    <3> QED
      BY <3>1, <3>2
  <2> QED
    BY <1>1, <1>2, <2>1
<1>3. ASSUME NEW db \in Databases, NEW parent \in RecId \cup {NoId},
             StartRecord(b, db, parent)
      PROVE  /\ \A k \in DOMAIN records : records'[k] = records[k]
             /\ \A k \in DOMAIN records' :
                   k \in DOMAIN records \/ records'[k].status # "completed"
             /\ bucket' = bucket
  <2>1. PICK days \in RetainDays :
            Save(NewRecord(db, IF parent = NoId THEN "full" ELSE "log", parent, days))
    BY <1>3 DEF StartRecord
  <2> DEFINE rec == NewRecord(db, IF parent = NoId THEN "full" ELSE "log", parent, days)
             n == Len(records) + 1
  <2>2. rec \in BackupRecord
    BY <1>1, ConstantsAssumption, InvIsSplit
    DEF NewRecord, BackupRecord, Type, Status, RecordsOK, StoreTypeOK
  <2>3. /\ DOMAIN records' = DOMAIN records \cup {n}
        /\ records'[n] = rec
        /\ \A k \in DOMAIN records : records'[k] = records[k]
    BY <1>1, <2>1, <2>2, SaveAppends
  <2> QED
    BY <1>3, <2>3 DEF NewRecord, StartRecord
<1>4. CASE BeginFull(b)
  BY <1>1, <1>3, <1>4 DEF BeginFull
<1>5. CASE SaveLog(b)
  <2>1. job[b].db \in Databases /\ job[b].parent \in RecId \cup {NoId}
    BY <1>1, <1>5, ConstantsAssumption, InvIsSplit
    DEF SaveLog, JobOK, JobsOK, JobTypeOK, JobState
  <2> QED
    BY <1>1, <1>3, <1>5, <2>1 DEF SaveLog
<1>6. CASE Fail(b)
  <2>1. i \in DOMAIN records /\ records[i].status # "completed"
    BY <1>1, <1>6 DEF Fail, JobOK, Active
  <2>2. /\ DOMAIN records' = DOMAIN records
        /\ records'[i].status = "failed"
        /\ \A j \in DOMAIN records : j # i => records'[j] = records[j]
        /\ bucket' = bucket
    BY <1>1, <1>6, <2>1, UpdateStatusChangesOne DEF Fail, Status
  <2> QED
    BY <1>1, <2>1, <2>2
<1>7. CASE Complete(b)
  <2>1. /\ i \in DOMAIN records /\ records[i].status # "completed"
        /\ job[b].key \in Key
    BY <1>1, <1>7 DEF Complete, JobOK, Active, HasKey
  <2>2. /\ DOMAIN records' = DOMAIN records
        /\ records'[i].status = "completed" /\ records'[i].fileName = job[b].key
        /\ \A j \in DOMAIN records : j # i => records'[j] = records[j]
        /\ bucket' = bucket
    BY <1>1, <1>7, <2>1, UpdateChangesOne DEF Complete, Status
  <2> QED
    BY <1>1, <1>7, <2>1, <2>2
<1> QED
  BY <1>2, <1>4, <1>5, <1>6, <1>7
  DEF Backup, BackupBegins, BackupStep, BeginLog, Dump, DumpFail, Upload, UploadFail,
      Close, CloseFail, Discard

(* A deletion adds no record, and changes the one it marks only.           *)
LEMMA DeletionWrites ==
    ASSUME Inv, NEW p \in Deleters, DeleteStep(p)
    PROVE  /\ OnlyExpires
           /\ DOMAIN records' = DOMAIN records
           /\ \A i \in DOMAIN records :
                 \/ records'[i] = records[i]
                 \/ DeleteMark(p) /\ i = del[p].cur.id
           /\ DeleteMark(p) =>
                 /\ del[p].cur.id \in DOMAIN records
                 /\ records'[del[p].cur.id].status = "expired"
           /\ bucket' \subseteq bucket
<1>1. DelOK(p) /\ records \in Seq(BackupRecord) /\ OnlyExpires
  BY DeleteKeeps, InvIsSplit DEF RecordsOK, StoreTypeOK
<1>2. CASE DeleteMark(p)
  <2>1. del[p].cur.id \in DOMAIN records
    BY <1>1, <1>2 DEF DeleteMark, DelOK, Child
  <2> QED
    BY <1>1, <1>2, <2>1, UpdateStatusChangesOne DEF DeleteMark, Status
<1>3. CASE ~DeleteMark(p)
  BY <1>1, <1>3 DEF DeleteStep, DeleteFind, DeleteList, DeleteObjectOf,
                    DeleteObjectSkipped, DeleteObjectFail, DeleteObject
<1> QED
  BY <1>2, <1>3

(* No caller of DeleteBackup lets go of it halfway. *)
LEMMA SweepWaits ==
    ASSUME Inv, NEW s \in Sweeps, SweepBegins(s) \/ SweepStep(s),
           del[s].pc \notin {"idle", "ok", "err"}
    PROVE  UNCHANGED del
<1>1. SweepOK(s)
  BY InvIsSplit
<1> QED
  BY <1>1
  DEF SweepOK, SweepBegins, SweepStep, SweepExpired, SweepExpiredReturns, SweepSnapshot,
      SweepNoStorage, SweepGroup, SweepReturns, SweepCandidate, SweepGroupDone, SweepVerify,
      SweepVerifyFail, SweepDeletes, SweepGoldenRule, SweepDeleted, SweepDeleteFailed

-----------------------------------------------------------------------------
(* The inductive invariant behind the golden rule. *)

(* Records are never forgotten, and there are at most MaxRecords. *)
LEMMA StepGrows ==
    ASSUME Inv, [Next]_vars, DOMAIN records \subseteq 1..MaxRecords
    PROVE  Grows /\ DOMAIN records' \subseteq 1..MaxRecords
<1>1. records \in Seq(BackupRecord)
  BY DEF Inv, TypeOK, StoreTypeOK
<1>2. CASE UNCHANGED records
  BY <1>2, UnchangedOnlyExpires DEF OnlyExpires
<1>3. ASSUME NEW b \in Backups, Backup(b)
      PROVE  Grows /\ DOMAIN records' \subseteq 1..MaxRecords
  <2>1. Grows /\ RecordsOK'
    BY <1>3, BackupKeeps, InvIsSplit DEF Backup
  <2>2. CASE Room
    <3>1. DOMAIN records' \subseteq DOMAIN records \cup {Len(records) + 1}
      <4>1. CASE \E rec : Save(rec)
        <5>1. PICK rec : Save(rec)
          BY <4>1
        <5>2. records' = Append(records, rec) /\ records \in Seq(BackupRecord \cup {rec})
          BY <1>1, <5>1, SeqMonotonic DEF Save
        <5> QED
          BY <5>2, AppendProperties, LenProperties
      <4>2. CASE \E status, key : \/ UpdateStatus(job[b].id, status)
                                  \/ Update(job[b].id, status, key)
        BY <4>2 DEF UpdateStatus, Update
      <4>3. CASE UNCHANGED records
        BY <4>3
      <4> QED
        BY <1>3, <4>1, <4>2, <4>3
        DEF Backup, BackupBegins, BackupStep, BeginFull, BeginLog, SaveLog, StartRecord,
            Dump, DumpFail, Upload, UploadFail, Close, CloseFail, Discard, Fail, Complete
    <3>2. Len(records) + 1 \in 1..MaxRecords
      BY <1>1, <2>2, ConstantsAssumption, LenProperties DEF Room
    <3> QED
      BY <2>1, <3>1, <3>2
  <2>3. CASE ~Room
    <3>1. DOMAIN records' = DOMAIN records
      BY <1>3, <2>3
      DEF Backup, BackupBegins, BackupStep, BeginFull, BeginLog, SaveLog, Update,
          UpdateStatus, Dump, DumpFail, Upload, UploadFail, Close, CloseFail, Discard,
          Fail, Complete
    <3> QED
      BY <2>1, <3>1
  <2> QED
    BY <2>2, <2>3
<1>4. ASSUME NEW p \in Deleters, DeleteStep(p)
      PROVE  Grows /\ DOMAIN records' \subseteq 1..MaxRecords
  <2>1. Grows
    BY <1>4, DeleteKeeps, InvIsSplit DEF OnlyExpires
  <2>2. DOMAIN records' = DOMAIN records
    BY <1>4
    DEF DeleteStep, DeleteFind, DeleteList, DeleteObjectOf, DeleteObjectSkipped,
        DeleteObjectFail, DeleteMark, UpdateStatus
  <2> QED
    BY <2>1, <2>2
<1>5. CASE \E u \in Users : User(u)
  BY <1>2, <1>4, <1>5 DEF User, UserDeletes, UserReturns, Deleters
<1>6. CASE \E s \in Sweeps : Sweep(s)
  BY <1>2, <1>4, <1>6, SweepTouchesNothing DEF Sweep, Deleters
<1> QED
  BY <1>2, <1>3, <1>5, <1>6 DEF Next, vars, Tick, Crash, storeVars

LEMMA KeysReadStands ==
    ASSUME Grows, NEW p \in Deleters, DelOK(p), KeysRead(p), del'[p] = del[p]
    PROVE  KeysRead(p)'
<1>1. ASSUME NEW i \in DOMAIN records, NEW key, key \in {NoKey, records[i].fileName}
      PROVE  key \in {NoKey, records'[i].fileName}
  BY <1>1 DEF Grows
<1>2. del[p].pc # "idle" => del[p].root.id \in DOMAIN records
  BY DEF DelOK
<1>3. \A k \in del[p].kids : k.id \in DOMAIN records
  BY DEF DelOK, Child
<1> QED
  BY <1>1, <1>2, <1>3 DEF KeysRead

LEMMA IdleHasReadNothing ==
    ASSUME NEW p \in Deleters,
           del'[p] = IdleDel \/ \E i \in DOMAIN records : del'[p] = CallDelete(i)
    PROVE  KeysRead(p)'
<1>1. CASE del'[p] = IdleDel
  <2>1. del'[p].pc = "idle" /\ del'[p].kids = {}
    BY <1>1 DEF IdleDel
  <2> QED
    BY <2>1 DEF KeysRead
<1>2. CASE \E i \in DOMAIN records : del'[p] = CallDelete(i)
  <2>1. \A i : CallDelete(i).root.key = NoKey /\ CallDelete(i).kids = {}
    BY DEF CallDelete, IdleDel
  <2>2. del'[p].root.key = NoKey /\ del'[p].kids = {}
    BY <1>2, <2>1
  <2> QED
    BY <2>2 DEF KeysRead
<1> QED
  BY <1>1, <1>2

LEMMA DeleteReadsKeys ==
    ASSUME Inv, NEW p \in Deleters, DeleteStep(p), KeysRead(p)
    PROVE  KeysRead(p)'
<1> DEFINE d == del[p]
<1>1. /\ del \in [Deleters -> DelState] /\ d \in DelState /\ DelOK(p)
      /\ records \in Seq(BackupRecord)
  BY InvIsSplit DEF QueryTypeOK, RecordsOK, StoreTypeOK
<1>2. d.pc # "idle" /\ OnlyExpires
  BY DeleteKeeps, InvIsSplit
<1>3. d.root \in Target /\ d.root.id \in DOMAIN records
  BY <1>1, <1>2, RecordsHaveTypes DEF DelOK, DelState, NoTarget, NoId, RecId
<1>4. CASE DeleteFind(p)
  <2>1. /\ del'[p].root.id = d.root.id
        /\ del'[p].root.key = records[d.root.id].fileName
        /\ del'[p].kids = d.kids
        /\ UNCHANGED records
    BY <1>1, <1>3, <1>4 DEF DeleteFind, DelState, Target
  <2> QED
    BY <2>1 DEF KeysRead
<1>5. CASE DeleteList(p)
  <2>1. /\ del'[p].root = d.root
        /\ del'[p].kids = {[id |-> j, key |-> records[j].fileName] :
                              j \in FindChildren(d.root.id)}
        /\ UNCHANGED records
    BY <1>1, <1>5 DEF DeleteList, DelState
  <2>2. \A k \in del'[p].kids : k.key = records[k.id].fileName
    BY <2>1
  <2> QED
    BY <1>2, <2>1, <2>2 DEF KeysRead
<1>6. CASE DeleteObjectOf(p) \/ DeleteObjectSkipped(p) \/ DeleteObjectFail(p) \/ DeleteMark(p)
  <2>1. del'[p].root = d.root /\ del'[p].kids \subseteq d.kids
    <3>1. CASE DeleteObjectOf(p) \/ DeleteObjectSkipped(p)
      <4>1. PICK one, asked :
                del' = [del EXCEPT ![p].pc = "mark", ![p].cur = one,
                                   ![p].kids = @ \ {one}, ![p].asked = asked]
        BY <3>1 DEF DeleteObjectOf, DeleteObjectSkipped
      <4> QED
        BY <1>1, <4>1 DEF DelState
    <3>2. CASE DeleteObjectFail(p) \/ DeleteMark(p)
      BY <1>1, <3>2 DEF DeleteObjectFail, DeleteMark, DelState
    <3> QED
      BY <1>6, <3>1, <3>2
  <2>2. \A i \in DOMAIN records : records'[i].fileName = records[i].fileName
    BY <1>2 DEF OnlyExpires
  <2>3. \A k \in d.kids : k.id \in DOMAIN records
    BY <1>1 DEF DelOK, Child
  <2> QED
    BY <1>2, <1>3, <2>1, <2>2, <2>3 DEF KeysRead
<1> QED
  BY <1>4, <1>5, <1>6 DEF DeleteStep

LEMMA SweepCalls ==
    ASSUME Inv, NEW s \in Sweeps, SweepBegins(s) \/ SweepStep(s)
    PROVE  \/ del'[s] = del[s]
           \/ del'[s] = IdleDel
           \/ \E i \in DOMAIN records : del'[s] = CallDelete(i)
<1>1. del \in [Deleters -> DelState] /\ s \in Deleters /\ SweepOK(s)
  BY InvIsSplit DEF QueryTypeOK, Deleters
<1>2. CASE SweepExpired(s)
  BY <1>1, <1>2 DEF SweepExpired, SweepOK
<1>3. CASE SweepDeletes(s)
  BY <1>1, <1>3 DEF SweepDeletes, SweepOK, OnceCompleted
<1> QED
  BY <1>1, <1>2, <1>3
  DEF SweepBegins, SweepStep, SweepExpiredReturns, SweepSnapshot, SweepNoStorage,
      SweepGroup, SweepReturns, SweepCandidate, SweepGroupDone, SweepVerify,
      SweepVerifyFail, SweepGoldenRule, SweepDeleted, SweepDeleteFailed

(* Every step of the system is a step of a backup, of a deletion, or one   *)
(* that leaves the records and the bucket alone.                           *)
LEMMA StepIsOneOf ==
    ASSUME Inv, [Next]_vars
    PROVE  \/ \E b \in Backups : Backup(b)
           \/ UNCHANGED job /\ \E p \in Deleters : DeleteStep(p)
           \/ /\ UNCHANGED <<records, bucket>>
              /\ \A p \in Deleters :
                    \/ del'[p] = del[p]
                    \/ del'[p] = IdleDel
                    \/ \E i \in DOMAIN records : del'[p] = CallDelete(i)
              /\ UNCHANGED job \/ Crash
<1>1. CASE \E u \in Users : User(u)
  <2>1. PICK u \in Users : User(u)
    BY <1>1
  <2>2. u \in Deleters /\ del \in [Deleters -> DelState]
    BY InvIsSplit DEF Deleters, QueryTypeOK
  <2>3. CASE UserDeletes(u) \/ UserReturns(u)
    <3>1. UNCHANGED <<records, bucket, job>>
      BY <2>1, <2>3 DEF UserDeletes, UserReturns, User
    <3>2. \A q \in Deleters : q # u => del'[q] = del[q]
      BY <2>3, <2>2, UserKeeps, InvIsSplit
    <3>3. del'[u] = IdleDel \/ \E i \in DOMAIN records : del'[u] = CallDelete(i)
      BY <2>2, <2>3 DEF UserDeletes, UserReturns
    <3> QED
      BY <3>1, <3>2, <3>3
  <2> QED
    BY <2>1, <2>2, <2>3 DEF User
<1>2. CASE \E s \in Sweeps : Sweep(s)
  <2>1. PICK s \in Sweeps : Sweep(s)
    BY <1>2
  <2>2. s \in Deleters /\ UNCHANGED job
    BY <2>1 DEF Deleters, Sweep
  <2>3. CASE SweepBegins(s) \/ SweepStep(s)
    <3>1. \A q \in Deleters : q # s => del'[q] = del[q]
      BY <2>2, <2>3, SweepKeeps, InvIsSplit
    <3> QED
      BY <2>2, <2>3, <3>1, SweepTouchesNothing, SweepCalls
  <2> QED
    BY <2>1, <2>2, <2>3 DEF Sweep
<1>3. CASE Crash
  BY <1>3 DEF Crash, storeVars
<1>4. CASE Tick \/ UNCHANGED vars
  BY <1>4 DEF Tick, vars
<1> QED
  BY <1>1, <1>2, <1>3, <1>4 DEF Next

LEMMA StepReadsKeys ==
    ASSUME Inv, [Next]_vars, Grows, NEW p \in Deleters, KeysRead(p)
    PROVE  KeysRead(p)'
<1>1. DelOK(p)
  BY InvIsSplit
<1>2. CASE del'[p] = del[p]
  BY <1>1, <1>2, KeysReadStands
<1>3. CASE Crash
  BY <1>3, IdleHasReadNothing DEF Crash
<1>4. CASE \E u \in Users : User(u)
  <2>1. PICK u \in Users : User(u)
    BY <1>4
  <2>2. u \in Deleters /\ del \in [Deleters -> DelState]
    BY InvIsSplit DEF Deleters, QueryTypeOK
  <2>3. CASE DeleteStep(u)
    BY <1>2, <2>2, <2>3, DeleteKeeps, DeleteReadsKeys, InvIsSplit
  <2>4. CASE UserDeletes(u) \/ UserReturns(u)
    <3>1. CASE u # p
      BY <1>2, <2>2, <2>4, <3>1, UserKeeps, InvIsSplit
    <3>2. CASE u = p
      BY <2>2, <2>4, <3>2, IdleHasReadNothing DEF UserDeletes, UserReturns
    <3> QED
      BY <3>1, <3>2
  <2> QED
    BY <2>1, <2>3, <2>4 DEF User
<1>5. CASE \E s \in Sweeps : Sweep(s)
  <2>1. PICK s \in Sweeps : Sweep(s)
    BY <1>5
  <2>2. s \in Deleters
    BY DEF Deleters
  <2>3. CASE DeleteStep(s)
    BY <1>2, <2>2, <2>3, DeleteKeeps, DeleteReadsKeys, InvIsSplit
  <2>4. CASE SweepBegins(s) \/ SweepStep(s)
    <3>1. CASE s # p
      BY <1>2, <2>2, <2>4, <3>1, SweepKeeps, InvIsSplit
    <3>2. CASE s = p
      BY <1>2, <2>2, <2>4, <3>2, SweepCalls, IdleHasReadNothing
    <3> QED
      BY <3>1, <3>2
  <2> QED
    BY <2>1, <2>3, <2>4 DEF Sweep
<1> QED
  BY <1>2, <1>3, <1>4, <1>5 DEF Next, vars, Tick, Backup

(* A deletion knows the key of a job only after the job is over. *)
LEMMA DeletionSparesUploads ==
    ASSUME Inv, UniqueStamps, NEW p \in Deleters, DeleteStep(p), KeysRead(p),
           NEW b \in Backups, HasKey(b), job[b].key \in bucket
    PROVE  job[b].key \in bucket'
<1>1. /\ job[b].id \in DOMAIN records /\ job[b].key = OwnKey(job[b].id)
      /\ Active(b) /\ DelOK(p)
  BY JobKeyIsItsOwn, InvIsSplit
<1>2. records[job[b].id].fileName = NoKey /\ NoKey # OwnKey(job[b].id)
  BY <1>1, InvIsSplit DEF JobsOK, JobOK, NoKey, OwnKey
<1>3. CASE UNCHANGED bucket
  BY <1>3
<1>4. CASE DeleteObjectOf(p) \/ DeleteObjectFail(p)
  <2>1. PICK one \in NextTargets(p) : bucket' = bucket \/ bucket' = bucket \ {one.key}
    BY <1>4 DEF DeleteObjectOf, DeleteObjectFail, DeleteObject
  <2>2. /\ one.key \in {NoKey, records[one.id].fileName}
        /\ one.key \in {NoKey, OwnKey(one.id)}
    BY <1>1, <1>4
    DEF NextTargets, KeysRead, DelOK, Child, FileOf, DeleteObjectOf, DeleteObjectFail
  <2>3. one.key # OwnKey(job[b].id)
    BY <1>2, <2>2, OwnKeysDiffer
  <2> QED
    BY <1>1, <2>1, <2>3
<1> QED
  BY <1>3, <1>4
  DEF DeleteStep, DeleteFind, DeleteList, DeleteObjectSkipped, DeleteMark

LEMMA StepKeepsUploads ==
    ASSUME RetentionInv, UniqueStamps, [Next]_vars, NEW b \in Backups
    PROVE  Uploaded(b)'
<1> SUFFICES ASSUME job'[b].pc \in {"closing", "completing"}
             PROVE  job'[b].key \in bucket'
  BY DEF Uploaded
<1>1. Inv /\ Uploaded(b) /\ job \in [Backups -> JobState]
  BY InvIsSplit DEF RetentionInv, JobsOK, JobTypeOK
<1>2. CASE job'[b] = job[b] /\ bucket \subseteq bucket'
  BY <1>1, <1>2 DEF Uploaded
<1>3. CASE Crash
  BY <1>3 DEF Crash, IdleJob
<1>4. CASE Backup(b)
  <2>1. CASE Upload(b)
    BY <1>1, <2>1 DEF Upload, PutObject, JobState
  <2>2. CASE Close(b)
    BY <1>1, <2>2 DEF Close, JobState, Uploaded
  <2>3. CASE ~Upload(b) /\ ~Close(b)
    <3>1. CASE BeginFull(b) \/ SaveLog(b)
      BY <1>1, <3>1 DEF BeginFull, SaveLog, StartRecord
    <3>2. CASE ~(BeginFull(b) \/ SaveLog(b))
      <4>1. job[b] \in JobState
        BY <1>1
      <4>2. CASE BeginLog(b)
        BY <1>1, <4>1, <4>2 DEF BeginLog, JobState
      <4>3. CASE Dump(b)
        BY <1>1, <4>1, <4>3 DEF Dump, JobState
      <4>4. CASE DumpFail(b) \/ UploadFail(b) \/ Discard(b) \/ CloseFail(b)
        BY <1>1, <4>1, <4>4 DEF DumpFail, UploadFail, Discard, CloseFail, JobState
      <4>5. CASE Fail(b) \/ Complete(b)
        BY <1>1, <4>5 DEF Fail, Complete, IdleJob
      <4> QED
        BY <1>4, <2>3, <3>2, <4>2, <4>3, <4>4, <4>5 DEF Backup, BackupBegins, BackupStep
    <3> QED
      BY <3>1, <3>2
  <2> QED
    BY <2>1, <2>2, <2>3
<1>5. ASSUME NEW c \in Backups, c # b, Backup(c)
      PROVE  job'[b].key \in bucket'
  <2>1. job'[b] = job[b]
    BY <1>1, <1>5
    DEF Backup, BackupBegins, BackupStep, BeginFull, BeginLog, SaveLog, StartRecord,
        Dump, DumpFail, Upload, UploadFail, Close, CloseFail, Discard, Fail, Complete
  <2>2. CASE Discard(c)
    <3>1. HasKey(b) /\ HasKey(c) /\ job[b].key \in bucket
      BY <1>1, <2>1, <2>2 DEF HasKey, Discard, Uploaded
    <3>2. job[b].id # job[c].id
      BY <1>1, <1>5, <3>1, JobKeyIsItsOwn, InvIsSplit DEF JobsOK, JobOK
    <3>3. job[b].key # job[c].key
      BY <1>1, <3>1, <3>2, JobKeyIsItsOwn, OwnKeysDiffer
    <3> QED
      BY <2>1, <2>2, <3>1, <3>3 DEF Discard, DeleteObject
  <2>3. CASE ~Discard(c)
    <3>1. bucket \subseteq bucket'
      BY <1>5, <2>3
      DEF Backup, BackupBegins, BackupStep, BeginFull, BeginLog, SaveLog, StartRecord,
          Dump, DumpFail, Upload, UploadFail, PutObject, Close, CloseFail, Fail, Complete
    <3> QED
      BY <1>2, <2>1, <3>1
  <2> QED
    BY <2>2, <2>3
<1>6. ASSUME NEW p \in Deleters, DeleteStep(p), UNCHANGED job
      PROVE  job'[b].key \in bucket'
  <2>1. HasKey(b) /\ job[b].key \in bucket /\ KeysRead(p)
    BY <1>1, <1>6 DEF HasKey, Uploaded, RetentionInv
  <2> QED
    BY <1>1, <1>6, <2>1, DeletionSparesUploads
<1>7. CASE \E u \in Users : User(u)
  BY <1>2, <1>6, <1>7 DEF User, UserDeletes, UserReturns, Deleters
<1>8. CASE \E s \in Sweeps : Sweep(s)
  BY <1>2, <1>6, <1>8, SweepTouchesNothing DEF Sweep, Deleters
<1> QED
  BY <1>2, <1>3, <1>4, <1>5, <1>7, <1>8 DEF Next, vars, Tick

(* A log a deletion owes and that is not completed never completes again.  *)
LEMMA OwedStands ==
    ASSUME Inv, NEW p \in Deleters, OwedOK(p), del'[p] = del[p], Grows,
           \A j \in DOMAIN records :
              /\ records[j].fileName # NoKey
              /\ records'[j].status = "completed"
              => records[j].status = "completed"
    PROVE  OwedOK(p)'
<1>1. DelOK(p)
  BY InvIsSplit
<1>2. \A j \in del[p].owed :
          /\ j \in DOMAIN records'
          /\ records'[j].parent = records[j].parent
          /\ records'[j].fileName = records[j].fileName
          /\ records'[j].status = "completed" => records[j].status = "completed"
  BY DEF OwedOK, Grows
<1>3. del[p].pc # "idle" => IsFull(del[p].root.id)' = IsFull(del[p].root.id)
  BY <1>1 DEF DelOK, Grows, IsFull
<1> QED
  BY <1>2, <1>3 DEF OwedOK

LEMMA IdleOwesNothing ==
    ASSUME NEW p \in Deleters,
           del'[p] = IdleDel \/ \E i \in DOMAIN records : del'[p] = CallDelete(i)
    PROVE  OwedOK(p)' /\ AskedGone(p)'
<1>1. /\ IdleDel.owed = {} /\ IdleDel.pc = "idle"
      /\ \A i : CallDelete(i).owed = {} /\ CallDelete(i).pc = "find"
  BY DEF IdleDel, CallDelete
<1>2. del'[p].owed = {} /\ del'[p].pc \in {"idle", "find"}
  BY <1>1
<1> QED
  BY <1>2 DEF OwedOK, AskedGone

LEMMA DeletionOwes ==
    ASSUME Inv, NEW p \in Deleters, DeleteStep(p), OwedOK(p)
    PROVE  OwedOK(p)'
<1> DEFINE d == del[p]
           left == {j \in d.owed : records[j].status = "completed"}
           ahead == {k.id : k \in d.kids}
<1>0. PICK i : i = d.root.id
  OBVIOUS
<1>1. /\ del \in [Deleters -> DelState] /\ d \in DelState /\ DelOK(p)
      /\ d.pc # "idle" /\ i \in DOMAIN records /\ d.root \in Target
  BY <1>0, DeleteKeeps, InvIsSplit, RecordsHaveTypes
  DEF QueryTypeOK, DelOK, DelState, NoTarget, NoId, RecId, RecordsOK, StoreTypeOK
<1>2. \A j \in d.owed :
          j \in DOMAIN records /\ records[j].parent = i /\ records[j].fileName # NoKey
  BY <1>0 DEF OwedOK
<1>3. CASE DeleteFind(p)
  <2>1. /\ del'[p].root.id = i /\ UNCHANGED records
        /\ del'[p].pc = IF IsFull(i) THEN "list" ELSE "cascade"
        /\ del'[p].owed = CompletedChildren(i)
    BY <1>0, <1>1, <1>3 DEF DeleteFind, DelState, Target
  <2>2. \A j \in CompletedChildren(i) :
            j \in DOMAIN records /\ records[j].parent = i /\ records[j].fileName # NoKey
    BY InvIsSplit DEF CompletedChildren, FindChildren, RecordsOK, RecordOK
  <2>3. IsFull(i)' = IsFull(i)
    BY <2>1 DEF IsFull
  <2> QED
    BY <2>1, <2>2, <2>3 DEF OwedOK
<1>4. CASE DeleteList(p)
  <2>1. /\ del'[p].root = d.root /\ del'[p].pc = "cascade" /\ UNCHANGED records
        /\ del'[p].kids = {[id |-> j, key |-> records[j].fileName] : j \in FindChildren(i)}
        /\ del'[p].owed = d.owed
    BY <1>0, <1>1, <1>4 DEF DeleteList, DelState
  <2>2. \A j \in d.owed : j \in {k.id : k \in del'[p].kids}
    <3> SUFFICES ASSUME NEW j \in d.owed
                 PROVE  \E k \in del'[p].kids : j = k.id
      OBVIOUS
    <3>1. [id |-> j, key |-> records[j].fileName] \in del'[p].kids
      BY <1>2, <2>1 DEF FindChildren
    <3> QED
      BY <3>1
  <2> QED
    BY <1>0, <1>2, <2>1, <2>2 DEF OwedOK
<1>5. CASE DeleteObjectOf(p) \/ DeleteObjectSkipped(p)
  <2>1. PICK one \in NextTargets(p), asked \in BOOLEAN :
            del' = [del EXCEPT ![p].pc = "mark", ![p].cur = one, ![p].kids = @ \ {one},
                               ![p].asked = asked]
    BY <1>5 DEF DeleteObjectOf, DeleteObjectSkipped
  <2>2. d.pc = "cascade" /\ UNCHANGED records
    BY <1>5 DEF DeleteObjectOf, DeleteObjectSkipped
  <2>3. /\ del'[p].root = d.root /\ del'[p].pc = "mark" /\ del'[p].cur = one
        /\ del'[p].kids = d.kids \ {one} /\ del'[p].owed = d.owed
    BY <1>1, <2>1 DEF DelState
  <2>4. IsFull(i) => left \subseteq ahead
    BY <1>0, <2>2 DEF OwedOK
  <2>5. ASSUME IsFull(i), one.id = i PROVE left = {}
    <3>1. CASE one \in d.kids
      BY <1>1, <2>5, <3>1 DEF DelOK, Child
    <3>2. CASE d.kids = {}
      BY <2>4, <2>5, <3>2
    <3> QED
      BY <2>1, <3>1, <3>2 DEF NextTargets
  <2>6. IsFull(i) => left \subseteq {k.id : k \in d.kids \ {one}} \cup {one.id}
    BY <2>4
  <2>7. IsFull(i)' = IsFull(i)
    BY <2>2 DEF IsFull
  <2> QED
    BY <1>0, <1>2, <2>2, <2>3, <2>5, <2>6, <2>7 DEF OwedOK
<1>6. CASE DeleteObjectFail(p)
  <2>1. del'[p].pc = "err" /\ del'[p].root = d.root /\ del'[p].owed = d.owed
    BY <1>1, <1>6 DEF DeleteObjectFail, DelState
  <2>2. UNCHANGED records
    BY <1>6 DEF DeleteObjectFail
  <2> QED
    BY <1>0, <1>2, <2>1, <2>2 DEF OwedOK
<1>7. CASE DeleteMark(p)
  <2>1. /\ del'[p].root = d.root /\ del'[p].kids = d.kids /\ d.pc = "mark"
        /\ del'[p].pc = IF d.cur.id = i THEN "ok" ELSE "cascade"
        /\ del'[p].owed = d.owed
    BY <1>0, <1>1, <1>7 DEF DeleteMark, DelState
  <2>2. /\ OnlyExpires /\ DOMAIN records' = DOMAIN records
        /\ records'[d.cur.id].status = "expired"
    BY <1>7, DeletionWrites
  <2>3. \A j \in d.owed : records'[j].parent = i /\ records'[j].fileName # NoKey
    BY <1>2, <2>2 DEF OnlyExpires, Grows
  <2>4. IsFull(i)' = IsFull(i)
    BY <1>1, <2>2 DEF OnlyExpires, Grows, IsFull
  <2>5. ASSUME d.cur.id # i, IsFull(i)
        PROVE  {j \in d.owed : records'[j].status = "completed"} \subseteq ahead
    <3>1. left \subseteq ahead \cup {d.cur.id}
      BY <1>0, <2>1, <2>5 DEF OwedOK
    <3>2. {j \in d.owed : records'[j].status = "completed"} \subseteq left \ {d.cur.id}
      BY <1>2, <2>2 DEF OnlyExpires
    <3> QED
      BY <3>1, <3>2
  <2> QED
    BY <1>0, <1>2, <2>1, <2>2, <2>3, <2>4, <2>5 DEF OwedOK
<1> QED
  BY <1>3, <1>4, <1>5, <1>6, <1>7 DEF DeleteStep

LEMMA StepKeepsOwed ==
    ASSUME Inv, [Next]_vars, NEW p \in Deleters, OwedOK(p)
    PROVE  OwedOK(p)'
<1>1. ASSUME NEW b \in Backups, Backup(b)
      PROVE  OwedOK(p)'
  <2>1. /\ del' = del /\ Grows
        /\ \A j \in DOMAIN records' :
              \/ j \in DOMAIN records /\ records'[j] = records[j]
              \/ records'[j].status # "completed"
              \/ Complete(b) /\ j = job[b].id
    BY <1>1, BackupWrites DEF Backup
  <2>2. Complete(b) => records[job[b].id].fileName = NoKey
    BY InvIsSplit DEF Complete, JobsOK, JobOK, Active
  <2>3. \A j \in DOMAIN records :
            records[j].fileName # NoKey /\ records'[j].status = "completed"
            => records[j].status = "completed"
    BY <2>1, <2>2 DEF Grows
  <2> QED
    BY <2>1, <2>3, OwedStands
<1>2. ASSUME NEW q \in Deleters, DeleteStep(q)
      PROVE  OwedOK(p)'
  <2>1. CASE q = p
    BY <1>2, <2>1, DeletionOwes
  <2>2. CASE q # p
    <3>1. OnlyExpires /\ del'[p] = del[p]
      BY <1>2, <2>2, DeletionWrites, DeleteKeeps, InvIsSplit
    <3> QED
      BY <3>1, OwedStands DEF OnlyExpires
  <2> QED
    BY <2>1, <2>2
<1>3. CASE /\ UNCHANGED <<records, bucket>>
           /\ \/ del'[p] = del[p]
              \/ del'[p] = IdleDel
              \/ \E i \in DOMAIN records : del'[p] = CallDelete(i)
  BY <1>3, UnchangedOnlyExpires, OwedStands, IdleOwesNothing DEF OnlyExpires
<1> QED
  BY <1>1, <1>2, <1>3, StepIsOneOf

(* The key a deletion asked S3 for is the file of its record, and a backup *)
(* in progress uploads under a key of its own.                             *)
LEMMA AskedStands ==
    ASSUME Inv, NEW p \in Deleters, AskedGone(p), del'[p] = del[p], Grows,
           del[p].cur.key \notin bucket => del[p].cur.key \notin bucket'
    PROVE  AskedGone(p)'
<1>1. del[p].pc = "mark" => del[p].cur.id \in DOMAIN records
  BY InvIsSplit DEF DelOK, Child
<1> QED
  BY <1>1 DEF AskedGone, Grows

LEMMA BackupKeepsAsked ==
    ASSUME Inv, UniqueStamps, NEW p \in Deleters, AskedGone(p), NEW b \in Backups, Backup(b)
    PROVE  AskedGone(p)'
<1> SUFFICES ASSUME del[p].pc = "mark", del[p].asked
             PROVE  AskedGone(p)'
  BY DEF AskedGone, Backup
<1>1. Grows /\ del' = del
  BY BackupWrites DEF Backup
<1>2. CASE Upload(b) \/ UploadFail(b)
  <2>1. /\ HasKey(b) /\ Active(b) /\ bucket' \subseteq bucket \cup {job[b].key}
    BY <1>2 DEF Upload, UploadFail, PutObject, HasKey, Active
  <2>2. /\ job[b].key = OwnKey(job[b].id) /\ records[job[b].id].fileName = NoKey
    BY <2>1, JobKeyIsItsOwn, InvIsSplit DEF JobsOK, JobOK
  <2>3. /\ del[p].cur.id \in DOMAIN records
        /\ records[del[p].cur.id].fileName = OwnKey(del[p].cur.id)
        /\ del[p].cur.id # job[b].id
    BY <2>2, InvIsSplit DEF AskedGone, DelOK, Child, RecordsOK, RecordOK, FileOf
  <2>4. del[p].cur.key # job[b].key
    BY <2>2, <2>3, OwnKeysDiffer DEF AskedGone
  <2> QED
    BY <1>1, <2>1, <2>4, AskedStands
<1>3. CASE ~(Upload(b) \/ UploadFail(b))
  <2>1. bucket' \subseteq bucket
    BY <1>3
    DEF Backup, BackupBegins, BackupStep, BeginFull, BeginLog, SaveLog, StartRecord,
        Dump, DumpFail, Close, CloseFail, Discard, DeleteObject, Fail, Complete
  <2> QED
    BY <1>1, <2>1, AskedStands
<1> QED
  BY <1>2, <1>3

LEMMA DeletionAsks ==
    ASSUME Inv, NEW p \in Deleters, KeysRead(p), DeleteStep(p)
    PROVE  AskedGone(p)'
<1>1. del \in [Deleters -> DelState] /\ del[p] \in DelState
  BY InvIsSplit DEF QueryTypeOK
<1>2. CASE DeleteObjectOf(p)
  <2>1. PICK one \in NextTargets(p) :
            /\ bucket' = bucket \ {one.key}
            /\ del' = [del EXCEPT ![p].pc = "mark", ![p].cur = one, ![p].kids = @ \ {one},
                                  ![p].asked = one.key # NoKey]
    BY <1>2 DEF DeleteObjectOf, DeleteObject
  <2>2. one.key \in {NoKey, records[one.id].fileName} /\ UNCHANGED records
    BY <1>2 DEF DeleteObjectOf, NextTargets, KeysRead
  <2>3. del'[p].cur = one /\ (del'[p].asked => one.key # NoKey)
    BY <1>1, <2>1 DEF DelState
  <2> QED
    BY <2>1, <2>2, <2>3 DEF AskedGone
<1>3. CASE DeleteObjectSkipped(p)
  <2>1. PICK one \in NextTargets(p) :
            del' = [del EXCEPT ![p].pc = "mark", ![p].cur = one, ![p].kids = @ \ {one},
                               ![p].asked = FALSE]
    BY <1>3 DEF DeleteObjectSkipped
  <2>2. ~del'[p].asked
    BY <1>1, <2>1 DEF DelState
  <2> QED
    BY <2>2 DEF AskedGone
<1>4. CASE DeleteFind(p) \/ DeleteList(p) \/ DeleteObjectFail(p) \/ DeleteMark(p)
  <2>1. del'[p].pc # "mark"
    BY <1>1, <1>4 DEF DeleteFind, DeleteList, DeleteObjectFail, DeleteMark, DelState
  <2> QED
    BY <2>1 DEF AskedGone
<1> QED
  BY <1>2, <1>3, <1>4 DEF DeleteStep

LEMMA StepKeepsAsked ==
    ASSUME Inv, UniqueStamps, [Next]_vars, NEW p \in Deleters, KeysRead(p), AskedGone(p)
    PROVE  AskedGone(p)'
<1>1. ASSUME NEW q \in Deleters, DeleteStep(q)
      PROVE  AskedGone(p)'
  <2>1. CASE q = p
    BY <1>1, <2>1, DeletionAsks
  <2>2. CASE q # p
    <3>1. OnlyExpires /\ del'[p] = del[p] /\ bucket' \subseteq bucket
      BY <1>1, <2>2, DeletionWrites, DeleteKeeps, InvIsSplit
    <3> QED
      BY <3>1, AskedStands DEF OnlyExpires
  <2> QED
    BY <2>1, <2>2
<1>2. CASE /\ UNCHANGED <<records, bucket>>
           /\ \/ del'[p] = del[p]
              \/ del'[p] = IdleDel
              \/ \E i \in DOMAIN records : del'[p] = CallDelete(i)
  BY <1>2, UnchangedOnlyExpires, AskedStands, IdleOwesNothing DEF OnlyExpires
<1> QED
  BY <1>1, <1>2, BackupKeepsAsked, StepIsOneOf

LEMMA RetentionInductive == RetentionInv /\ [Next]_vars => RetentionInv'
<1> SUFFICES ASSUME RetentionInv, [Next]_vars PROVE RetentionInv'
  OBVIOUS
<1>1. Inv /\ Inv'
  BY InvInductive DEF RetentionInv
<1>2. Grows /\ DOMAIN records' \subseteq 1..MaxRecords
  BY <1>1, StepGrows DEF RetentionInv
<1>3. \A p \in Deleters : KeysRead(p)'
  BY <1>1, <1>2, StepReadsKeys DEF RetentionInv
<1>4. UniqueStamps => \A b \in Backups : Uploaded(b)'
  BY StepKeepsUploads
<1>6. \A p \in Deleters : OwedOK(p)'
  BY <1>1, StepKeepsOwed DEF RetentionInv
<1>7. UniqueStamps => \A p \in Deleters : AskedGone(p)'
  BY <1>1, StepKeepsAsked DEF RetentionInv
<1>5. UniqueStamps /\ Users = {} => AllCovered'
  BY <1>1, StepOutcome, OutcomeCovers DEF RetentionInv
<1> QED
  BY <1>1, <1>2, <1>3, <1>4, <1>5, <1>6, <1>7 DEF RetentionInv

LEMMA InitHasRetentionInv == Init => RetentionInv
<1> SUFFICES ASSUME Init PROVE RetentionInv
  OBVIOUS
<1>1. Inv /\ records = <<>>
  BY InitHasInv DEF Init, StoreInit
<1>2. DOMAIN records = {}
  BY <1>1
<1>3. \A p \in Deleters : KeysRead(p) /\ OwedOK(p) /\ AskedGone(p)
  BY DEF Init, QueryInit, KeysRead, OwedOK, AskedGone, IdleDel
<1>4. \A b \in Backups : Uploaded(b)
  BY DEF Init, JobInit, Uploaded, IdleJob
<1>5. AllCovered
  BY <1>2 DEF AllCovered, OnceCompleted
<1> QED
  BY <1>1, <1>2, <1>3, <1>4, <1>5 DEF RetentionInv

(* What a deletion has read of its records still holds, an uploaded object *)
(* waits for its record to name it, and without deletions by users every   *)
(* full that ever completed can be restored or two newer ones can.         *)
THEOREM RetentionInvHolds == Spec => []RetentionInv
BY InitHasRetentionInv, RetentionInductive, PTL DEF Spec

LEMMA OutcomeKeepsGoldenRule ==
    ASSUME Inv, Outcome
    PROVE  GoldenRuleStep
<1> SUFFICES ASSUME NEW db \in SqlServer, Lost(db) # {}
             PROVE  AtLeastMinVerified(Restorable(db)')
  BY DEF GoldenRuleStep
<1>1. PICK c \in DOMAIN records : Loses(db, c)
  BY DEF Outcome, Same, Gains, Loses, Others, Lost
<1>2. PICK j, k \in Restorable(db) : j # k /\ c < j /\ c < k
  BY <1>1 DEF Loses, AtLeastMinVerified
<1>3. c \in Nat
  BY RecordsHaveTypes, InvIsSplit DEF RecordsOK, StoreTypeOK, RecId
<1>4. j # c /\ k # c
  BY <1>2, <1>3
<1> QED
  BY <1>1, <1>2, <1>4 DEF Loses, AtLeastMinVerified

(* The golden rule, for any number of concurrent sweeps and backups,       *)
(* failures and crashes: when a sweep takes a full away, two that can be   *)
(* restored remain.  It needs the users to delete nothing and no two       *)
(* backups of a database to share a timestamp; without either, TLC shows   *)
(* it broken.                                                              *)
THEOREM GoldenRuleHolds ==
    ASSUME UniqueStamps, Users = {}
    PROVE  Spec => GoldenRule
<1>1. RetentionInv /\ [Next]_vars => GoldenRuleStep
  BY StepOutcome, OutcomeKeepsGoldenRule DEF RetentionInv
<1> QED
  BY <1>1, RetentionInvHolds, PTL DEF Spec, GoldenRule
-----------------------------------------------------------------------------
(* The refinement. *)

LEMMA OutcomeIsAllowed ==
    ASSUME RetentionInv, RetentionInv', Outcome
    PROVE  [Promise!Next]_[db \in SqlServer |-> Restorable(db)]
<1> DEFINE fulls == [db \in SqlServer |-> Restorable(db)]
<1>1. fulls' = [db \in SqlServer |-> Restorable(db)']
  OBVIOUS
<1>2. CASE Same
  BY <1>1, <1>2 DEF Same
<1>3. ASSUME NEW d \in SqlServer, NEW n \in DOMAIN records', Gains(d, n)
      PROVE  Promise!Next
  <2>1. n \in 1..MaxRecords
    BY DEF RetentionInv
  <2>2. fulls' = [fulls EXCEPT ![d] = @ \cup {n}]
    BY <1>1, <1>3 DEF Gains, Others
  <2>3. Promise!Complete(d, n)
    BY <2>2 DEF Promise!Complete
  <2> QED
    BY <2>1, <2>3 DEF Promise!Next
<1>4. ASSUME NEW d \in SqlServer, NEW c \in DOMAIN records, Loses(d, c)
      PROVE  Promise!Next
  <2>1. c \in 1..MaxRecords
    BY DEF RetentionInv
  <2>2. fulls' = [fulls EXCEPT ![d] = @ \ {c}]
    BY <1>1, <1>4 DEF Loses, Others
  <2>3. \E j, k \in fulls[d] : j # k /\ c < j /\ c < k
    BY <1>4 DEF Loses, AtLeastMinVerified
  <2>4. Promise!Retire(d, c)
    BY <2>2, <2>3 DEF Promise!Retire
  <2> QED
    BY <2>1, <2>4 DEF Promise!Next
<1> QED
  BY <1>2, <1>3, <1>4 DEF Outcome

(* Without deletions by users, backups, sweeps, failures and crashes       *)
(* together implement VerifiedFulls: fulls become restorable one at a time *)
(* and leave one at a time, while two newer ones can be restored.          *)
THEOREM PromiseKept ==
    ASSUME UniqueStamps, Users = {}
    PROVE  Spec => ImplementsPromise
<1>1. Init => Promise!Init
  <2> SUFFICES ASSUME Init PROVE \A db \in SqlServer : Restorable(db) = {}
    BY DEF Promise!Init
  <2>1. DOMAIN records = {}
    BY DEF Init, StoreInit
  <2> QED
    BY <2>1 DEF Restorable, CompletedFulls
<1>2. RetentionInv /\ RetentionInv' /\ [Next]_vars
         => [Promise!Next]_[db \in SqlServer |-> Restorable(db)]
  BY StepOutcome, OutcomeIsAllowed
<1> QED
  BY <1>1, <1>2, RetentionInvHolds, PTL DEF Spec, ImplementsPromise, Promise!Spec

-----------------------------------------------------------------------------
(* Completed records keep their objects. *)

LEMMA BackupKeepsObjects ==
    ASSUME Inv, UniqueStamps, NEW b \in Backups, Uploaded(b), Backup(b),
           CompletedHasObject
    PROVE  CompletedHasObject'
<1> SUFFICES ASSUME NEW i \in DOMAIN records', records'[i].status = "completed",
                    ~BeingDeleted(i)'
             PROVE  records'[i].fileName # NoKey /\ records'[i].fileName \in bucket'
  BY DEF CompletedHasObject, ObjectExists
<1>1. ~BeingDeleted(i)
  BY DEF BeingDeleted, Backup
<1>2. CASE i \in DOMAIN records /\ records'[i] = records[i]
  <2>1. records[i].fileName # NoKey /\ records[i].fileName \in bucket
    BY <1>1, <1>2 DEF CompletedHasObject, ObjectExists
  <2>2. records[i].fileName = OwnKey(i)
    BY <1>2, <2>1, InvIsSplit DEF RecordsOK, RecordOK, FileOf
  <2>3. CASE bucket \subseteq bucket'
    BY <1>2, <2>1, <2>3
  <2>4. CASE HasKey(b) /\ bucket \ {job[b].key} \subseteq bucket'
    <3>1. Active(b) /\ JobOK(b) /\ job[b].key = OwnKey(job[b].id)
      BY <2>4, JobKeyIsItsOwn, InvIsSplit DEF JobsOK
    <3>2. i # job[b].id
      BY <1>2, <3>1 DEF JobOK
    <3> QED
      BY <1>2, <2>1, <2>2, <2>4, <3>1, <3>2, OwnKeysDiffer
  <2> QED
    BY <2>3, <2>4, BackupWrites
<1>3. CASE Complete(b) /\ records'[i].fileName = job[b].key
  <2>1. job[b].key \in bucket /\ bucket' = bucket
    BY <1>3 DEF Complete, Uploaded
  <2>2. job[b].key = OwnKey(job[b].id)
    BY <1>3, JobKeyIsItsOwn DEF HasKey, Complete
  <2> QED
    BY <1>3, <2>1, <2>2 DEF OwnKey, NoKey
<1> QED
  BY <1>2, <1>3, BackupWrites

LEMMA DeletionKeepsObjects ==
    ASSUME Inv, UniqueStamps, "delete" \notin Faults,
           NEW p \in Deleters, DeleteStep(p), CompletedHasObject
    PROVE  CompletedHasObject'
<1> SUFFICES ASSUME NEW i \in DOMAIN records', records'[i].status = "completed",
                    ~BeingDeleted(i)'
             PROVE  records'[i].fileName # NoKey /\ records'[i].fileName \in bucket'
  BY DEF CompletedHasObject, ObjectExists
<1>1. /\ i \in DOMAIN records /\ records[i].status = "completed"
      /\ records'[i].fileName = records[i].fileName
  BY DeletionWrites DEF OnlyExpires
<1>2. DelOK(p) /\ del \in [Deleters -> DelState]
  BY InvIsSplit DEF QueryTypeOK
<1>3. \A q \in Deleters : q # p => del'[q] = del[q]
  BY DeleteKeeps, InvIsSplit
<1>4. ASSUME BeingDeleted(i) PROVE FALSE
  <2>1. del[p].cur.id = i /\ del[p].pc = "mark"
    BY <1>3, <1>4 DEF BeingDeleted
  <2>2. DeleteMark(p)
    BY <2>1 DEF DeleteStep, DeleteFind, DeleteList, DeleteObjectOf, DeleteObjectSkipped,
                DeleteObjectFail
  <2> QED
    BY <2>1, <2>2, DeletionWrites
<1>5. records[i].fileName \in bucket /\ records[i].fileName # NoKey
  BY <1>1, <1>4 DEF CompletedHasObject, ObjectExists
<1>6. records[i].fileName = OwnKey(i)
  BY <1>1, <1>5, InvIsSplit DEF RecordsOK, RecordOK, FileOf
<1>7. CASE DeleteObjectOf(p)
  <2>1. PICK one \in NextTargets(p) :
            /\ bucket' = bucket \ {one.key}
            /\ del' = [del EXCEPT ![p].pc = "mark", ![p].cur = one, ![p].kids = @ \ {one},
                                  ![p].asked = one.key # NoKey]
    BY <1>7 DEF DeleteObjectOf, DeleteObject
  <2>2. one.key \in {NoKey, OwnKey(one.id)}
    BY <1>2, <1>7 DEF NextTargets, DelOK, Child, FileOf, DeleteObjectOf
  <2>3. del'[p].pc = "mark" /\ del'[p].cur = one
    BY <1>2, <2>1 DEF DelState
  <2>4. one.id # i
    BY <2>3 DEF BeingDeleted
  <2> QED
    BY <1>1, <1>5, <1>6, <2>1, <2>2, <2>4, OwnKeysDiffer
<1>8. CASE UNCHANGED bucket
  BY <1>1, <1>5, <1>8
<1> QED
  BY <1>7, <1>8
  DEF DeleteStep, DeleteFind, DeleteList, DeleteObjectSkipped, DeleteObjectFail, DeleteMark

LEMMA StandingKeepsObjects ==
    ASSUME UNCHANGED <<records, bucket>>, CompletedHasObject,
           \A p \in Deleters : del[p].pc = "mark" => del'[p] = del[p]
    PROVE  CompletedHasObject'
BY DEF CompletedHasObject, ObjectExists, BeingDeleted

LEMMA StepKeepsObjects ==
    ASSUME UniqueStamps, Faults \cap {"crash", "delete"} = {},
           RetentionInv, CompletedHasObject, [Next]_vars
    PROVE  CompletedHasObject'
<1>1. Inv /\ \A b \in Backups : Uploaded(b)
  BY DEF RetentionInv
<1>2. CASE \E b \in Backups : Backup(b)
  BY <1>1, <1>2, BackupKeepsObjects
<1>3. CASE \E u \in Users : User(u)
  <2>1. PICK u \in Users : User(u)
    BY <1>3
  <2>2. u \in Deleters
    BY DEF Deleters
  <2>3. CASE DeleteStep(u)
    BY <1>1, <2>2, <2>3, DeletionKeepsObjects
  <2>4. CASE UserDeletes(u) \/ UserReturns(u)
    <3>1. UNCHANGED <<records, bucket>> /\ del[u].pc # "mark"
      BY <2>4 DEF UserDeletes, UserReturns
    <3>2. \A q \in Deleters : q # u => del'[q] = del[q]
      BY <1>1, <2>4, UserKeeps, InvIsSplit, <2>2
    <3> QED
      BY <3>1, <3>2, StandingKeepsObjects
  <2> QED
    BY <2>1, <2>3, <2>4 DEF User
<1>4. CASE \E s \in Sweeps : Sweep(s)
  <2>1. PICK s \in Sweeps : Sweep(s)
    BY <1>4
  <2>2. s \in Deleters
    BY DEF Deleters
  <2>3. CASE DeleteStep(s)
    BY <1>1, <2>2, <2>3, DeletionKeepsObjects
  <2>4. CASE SweepBegins(s) \/ SweepStep(s)
    <3>1. \A q \in Deleters : q # s => del'[q] = del[q]
      BY <1>1, <2>2, <2>4, SweepKeeps, InvIsSplit
    <3>2. del[s].pc = "mark" => del'[s] = del[s]
      BY <1>1, <2>4, SweepWaits
    <3> QED
      BY <2>4, <3>1, <3>2, SweepTouchesNothing, StandingKeepsObjects
  <2> QED
    BY <2>1, <2>3, <2>4 DEF Sweep
<1>5. CASE UNCHANGED vars \/ Tick
  BY <1>5, StandingKeepsObjects DEF vars, Tick
<1> QED
  BY <1>2, <1>3, <1>4, <1>5 DEF Next, Crash

(* A completed record has its object in the bucket until the deletion that *)
(* will mark it expired has taken the object: whatever backups, sweeps and *)
(* users do at the same time.  A crash between the two, or an error of S3  *)
(* after it removed the object, leaves a completed record without one.     *)
THEOREM CompletedHasObjectHolds ==
    ASSUME UniqueStamps, Faults \cap {"crash", "delete"} = {}
    PROVE  Spec => []CompletedHasObject
<1>1. Init => CompletedHasObject
  <2> SUFFICES ASSUME Init PROVE DOMAIN records = {}
    BY DEF CompletedHasObject
  <2> QED
    BY DEF Init, StoreInit
<1>2. RetentionInv /\ CompletedHasObject /\ [Next]_vars => CompletedHasObject'
  BY StepKeepsObjects
<1> QED
  BY <1>1, <1>2, RetentionInvHolds, PTL DEF Spec
-----------------------------------------------------------------------------
(* A deletion takes the logs before their full. *)

(* Whatever else runs, fails or crashes: a deletion marks a full only when *)
(* none of the logs that were completed when it found the full is still on *)
(* offer.  Of a log that completes later it knows nothing.                 *)
THEOREM LogsGoFirstHolds == Spec => LogsGoFirst
<1>1. RetentionInv /\ [Next]_vars => LogsGoFirstStep
  BY DEF RetentionInv, OwedOK, LogsGoFirstStep, Marks
<1> QED
  BY <1>1, RetentionInvHolds, PTL DEF Spec, LogsGoFirst

-----------------------------------------------------------------------------
(* Objects stay in sight. *)

LEMMA BackupKeepsShown ==
    ASSUME Inv, NEW b \in Backups, Backup(b)
    PROVE  KeptInSightStep
<1> SUFFICES ASSUME NEW key \in bucket', Shown(key)
             PROVE  Shown(key)' \/ LeftBehind(key)
  BY DEF KeptInSightStep
<1>1. /\ job \in [Backups -> JobState] /\ job[b] \in JobState /\ JobOK(b)
      /\ records \in Seq(BackupRecord) /\ bucket \subseteq Key /\ NoKey \notin Key
  BY InvIsSplit DEF JobsOK, JobTypeOK, RecordsOK, StoreTypeOK, Key, NoKey
<1>2. /\ Grows
      /\ \A i \in DOMAIN records :
            records'[i].status = "expired" => records'[i] = records[i]
  BY BackupWrites
<1>3. \A c \in Backups : c # b => job'[c] = job[c]
  BY <1>1 DEF Backup, BackupBegins, BackupStep, BeginFull, BeginLog, SaveLog, StartRecord,
              Dump, DumpFail, Upload, UploadFail, Close, CloseFail, Discard, Fail, Complete
<1>0. key # NoKey
  BY <1>1, BackupKeeps, InvIsSplit DEF Backup, RecordsOK, StoreTypeOK
<1>4. ASSUME ~(HasKey(b) /\ job[b].key = key)
      PROVE  Shown(key)'
  <2>1. CASE \E i \in DOMAIN records :
                records[i].fileName = key /\ records[i].status # "expired"
    <3>1. PICK i \in DOMAIN records :
              records[i].fileName = key /\ records[i].status # "expired"
      BY <2>1
    <3>2. /\ i \in DOMAIN records' /\ records'[i].fileName = key
          /\ records'[i].status # "expired"
      BY <1>0, <1>2, <3>1 DEF Grows
    <3> QED
      BY <3>2 DEF Shown
  <2>2. CASE \E c \in Backups : HasKey(c) /\ job[c].key = key
    <3>1. PICK c \in Backups : HasKey(c) /\ job[c].key = key
      BY <2>2
    <3>2. job'[c] = job[c]
      BY <1>3, <1>4, <3>1
    <3> QED
      BY <3>1, <3>2 DEF Shown, HasKey
  <2> QED
    BY <1>4, <2>1, <2>2 DEF Shown
<1>5. CASE Complete(b)
  <2>1. /\ job[b].id \in DOMAIN records /\ job[b].key \in Key
    BY <1>1, <1>5 DEF Complete, JobOK, Active, HasKey
  <2>2. /\ job[b].id \in DOMAIN records'
        /\ records'[job[b].id].status = "completed"
        /\ records'[job[b].id].fileName = job[b].key
        /\ bucket' = bucket
    BY <1>1, <1>5, <2>1, UpdateChangesOne DEF Complete, Status
  <2> QED
    BY <1>4, <2>2 DEF Shown
<1>6. CASE Discard(b)
  <2>1. CASE key # job[b].key
    BY <1>4, <2>1
  <2>2. CASE key = job[b].key
    <3>1. "delete" \in Faults
      BY <1>6, <2>2 DEF Discard, DeleteObject
    <3>2. job[b].pc = "discarding" /\ job'[b].pc = "failing"
      BY <1>1, <1>6 DEF Discard, JobState
    <3> QED
      BY <2>2, <3>1, <3>2 DEF LeftBehind, GivesUp
  <2> QED
    BY <2>1, <2>2
<1>7. CASE Upload(b) \/ Close(b) \/ CloseFail(b)
  <2>1. PICK pc \in {"closing", "completing", "discarding"} :
            job' = [job EXCEPT ![b].pc = pc]
    BY <1>7 DEF Upload, Close, CloseFail
  <2>2. job'[b].pc = pc /\ job'[b].key = job[b].key
    BY <1>1, <2>1 DEF JobState
  <2> QED
    BY <1>4, <2>2 DEF Shown, HasKey
<1>8. CASE BeginFull(b) \/ BeginLog(b) \/ SaveLog(b) \/ Dump(b) \/ DumpFail(b) \/ Fail(b)
  <2>1. ~HasKey(b)
    BY <1>8 DEF BeginFull, BeginLog, SaveLog, StartRecord, Dump, DumpFail, Fail, HasKey
  <2> QED
    BY <1>4, <2>1
<1>9. CASE UploadFail(b)
  <2>1. job[b].pc = "uploading" /\ job'[b].pc = "failing"
    BY <1>1, <1>9 DEF UploadFail, JobState
  <2> QED
    BY <1>4, <2>1 DEF LeftBehind, GivesUp
<1> QED
  BY <1>5, <1>6, <1>7, <1>8, <1>9 DEF Backup, BackupBegins, BackupStep

LEMMA DeletionKeepsShown ==
    ASSUME Inv, NEW p \in Deleters, DeleteStep(p), AskedGone(p), UNCHANGED job
    PROVE  KeptInSightStep
<1> SUFFICES ASSUME NEW key \in bucket', Shown(key)
             PROVE  Shown(key)' \/ LeftBehind(key)
  BY DEF KeptInSightStep
<1>1. key \in bucket
  BY DeletionWrites
<1>2. CASE \E i \in DOMAIN records :
              records[i].fileName = key /\ records[i].status # "expired"
  <2>1. PICK i \in DOMAIN records :
            records[i].fileName = key /\ records[i].status # "expired"
    BY <1>2
  <2>2. CASE DeleteMark(p) /\ i = del[p].cur.id
    <3>1. ~del[p].asked
      BY <1>1, <2>1, <2>2 DEF AskedGone, DeleteMark
    <3>2. Marks(p, i)
      <4>1. del \in [Deleters -> DelState] /\ del[p] \in DelState
        BY InvIsSplit DEF QueryTypeOK
      <4> QED
        BY <2>2, <4>1 DEF Marks, DeleteMark, DelState
    <3> QED
      BY <2>1, <3>1, <3>2 DEF LeftBehind
  <2>3. CASE ~(DeleteMark(p) /\ i = del[p].cur.id)
    <3>1. records'[i] = records[i] /\ i \in DOMAIN records'
      BY <2>3, DeletionWrites
    <3> QED
      BY <2>1, <3>1 DEF Shown
  <2> QED
    BY <2>2, <2>3
<1>3. CASE \E b \in Backups : HasKey(b) /\ job[b].key = key
  BY <1>3 DEF Shown, HasKey
<1> QED
  BY <1>2, <1>3 DEF Shown

(* Whatever else runs or fails: an object no record shows any more, and no *)
(* backup in progress, was left by a deletion that did not ask S3 for it,  *)
(* by an upload or a Discard that failed, or by the death of the process.  *)
(* A deletion does not ask when it read its record before the record named *)
(* a file, or when the S3 configuration could not be read.                 *)
THEOREM KeptInSightHolds ==
    ASSUME UniqueStamps
    PROVE  Spec => KeptInSight
<1>1. RetentionInv /\ [Next]_vars => KeptInSightStep
  <2> SUFFICES ASSUME RetentionInv, [Next]_vars PROVE KeptInSightStep
    OBVIOUS
  <2>1. Inv /\ \A p \in Deleters : AskedGone(p)
    BY DEF RetentionInv
  <2>2. CASE \E b \in Backups : Backup(b)
    BY <2>1, <2>2, BackupKeepsShown
  <2>3. CASE UNCHANGED job /\ \E p \in Deleters : DeleteStep(p)
    BY <2>1, <2>3, DeletionKeepsShown
  <2>4. CASE UNCHANGED <<records, bucket, job>>
    BY <2>4 DEF KeptInSightStep, Shown, HasKey
  <2>5. CASE Crash
    BY <2>5 DEF Crash, AllIdle, KeptInSightStep, LeftBehind, IdleJob, IdleDel, IdleSweep
  <2> QED
    BY <2>1, <2>2, <2>3, <2>4, <2>5, StepIsOneOf
<1> QED
  BY <1>1, RetentionInvHolds, PTL DEF Spec, KeptInSight
=============================================================================
