------------------------- MODULE BackupSystemProofs -------------------------
(***************************************************************************)
(* Proofs about BackupSystem, for any number of databases, records and     *)
(* goroutines of every kind.                                               *)
(***************************************************************************)
EXTENDS BackupSystem, TLAPS, SequenceTheorems

-----------------------------------------------------------------------------
(* What one transaction on the records does to the others. *)

LEMMA SaveAppends ==
    ASSUME records \in Seq(BackupRecord), NEW rec \in BackupRecord, Save(rec)
    PROVE  /\ records' \in Seq(BackupRecord)
           /\ Len(records) + 1 \in RecId
           /\ Len(records) + 1 \notin DOMAIN records
           /\ DOMAIN records' = DOMAIN records \cup {Len(records) + 1}
           /\ records'[Len(records) + 1] = rec
           /\ \A i \in DOMAIN records : records'[i] = records[i]
BY AppendProperties, LenProperties DEF Save, RecId

LEMMA UpdateChangesOne ==
    ASSUME records \in Seq(BackupRecord), NEW i \in DOMAIN records,
           NEW status \in Status, NEW key \in Key \cup {NoKey},
           Update(i, status, key)
    PROVE  /\ records' \in Seq(BackupRecord)
           /\ DOMAIN records' = DOMAIN records
           /\ records'[i].db = records[i].db
           /\ records'[i].type = records[i].type
           /\ records'[i].parent = records[i].parent
           /\ records'[i].status = status
           /\ records'[i].fileName = key
           /\ \A j \in DOMAIN records : j # i => records'[j] = records[j]
<1> DEFINE new == [records[i] EXCEPT !.status = status, !.fileName = key]
<1>1. records[i] \in BackupRecord
  BY ElementOfSeq, LenProperties
<1>2. new \in BackupRecord
  BY <1>1 DEF BackupRecord
<1>3. records' = [records EXCEPT ![i] = new]
  BY <1>1 DEF Update, BackupRecord
<1>4. /\ records' \in Seq(BackupRecord)
      /\ DOMAIN records' = DOMAIN records
      /\ records'[i] = new
      /\ \A j \in DOMAIN records : j # i => records'[j] = records[j]
  BY <1>2, <1>3, ExceptSeq, LenProperties
<1>5. QED
  BY <1>1, <1>4 DEF BackupRecord

LEMMA UpdateStatusChangesOne ==
    ASSUME records \in Seq(BackupRecord), NEW i \in DOMAIN records,
           NEW status \in Status, UpdateStatus(i, status)
    PROVE  /\ records' \in Seq(BackupRecord)
           /\ DOMAIN records' = DOMAIN records
           /\ records'[i].db = records[i].db
           /\ records'[i].type = records[i].type
           /\ records'[i].parent = records[i].parent
           /\ records'[i].status = status
           /\ records'[i].fileName = records[i].fileName
           /\ \A j \in DOMAIN records : j # i => records'[j] = records[j]
<1> DEFINE new == [records[i] EXCEPT !.status = status]
<1>1. records[i] \in BackupRecord
  BY ElementOfSeq, LenProperties
<1>2. new \in BackupRecord
  BY <1>1 DEF BackupRecord
<1>3. records' = [records EXCEPT ![i] = new]
  BY <1>1 DEF UpdateStatus, BackupRecord
<1>4. /\ records' \in Seq(BackupRecord)
      /\ DOMAIN records' = DOMAIN records
      /\ records'[i] = new
      /\ \A j \in DOMAIN records : j # i => records'[j] = records[j]
  BY <1>2, <1>3, ExceptSeq, LenProperties
<1>5. QED
  BY <1>1, <1>4 DEF BackupRecord
(* Records are only ever added, and what identifies one never changes.     *)
Grows ==
    /\ DOMAIN records \subseteq DOMAIN records'
    /\ \A i \in DOMAIN records :
          /\ records'[i].db = records[i].db
          /\ records'[i].type = records[i].type
          /\ records'[i].parent = records[i].parent
          /\ records[i].fileName # NoKey => records'[i].fileName = records[i].fileName

LEMMA RecordsHaveTypes ==
    ASSUME records \in Seq(BackupRecord)
    PROVE  /\ DOMAIN records \subseteq RecId
           /\ \A i \in DOMAIN records : records[i] \in BackupRecord
BY LenProperties, ElementOfSeq DEF RecId

-----------------------------------------------------------------------------
(* The goroutines that do not move keep what they know. *)

LEMMA JobsStand ==
    ASSUME \A b \in Backups : JobOK(b), job' = job, Grows,
           \A i \in DOMAIN records :
              /\ records'[i].fileName = records[i].fileName
              /\ records'[i].status = "completed" => records[i].status = "completed"
    PROVE  \A b \in Backups : JobOK(b)'
<1> SUFFICES ASSUME NEW b \in Backups PROVE JobOK(b)'
  OBVIOUS
<1>1. JobOK(b)
  OBVIOUS
<1>2. Active(b)' = Active(b) /\ HasKey(b)' = HasKey(b) /\ JobType(b)' = JobType(b)
  BY DEF Active, HasKey, JobType
<1>3. \A c \in Backups : Active(c)' = Active(c)
  BY DEF Active
<1>4. HasKey(b) => Active(b)
  BY DEF HasKey, Active
<1>5. Active(b) => FileOf(job[b].id, job[b].key)' = FileOf(job[b].id, job[b].key)
  BY <1>1 DEF JobOK, FileOf, OwnKey, Grows
<1> QED
  BY <1>1, <1>2, <1>3, <1>4, <1>5 DEF JobOK, Grows

LEMMA ChildStays ==
    ASSUME Grows, NEW k, Child(k)
    PROVE  Child(k)'
BY DEF Child, IsFull, FileOf, OwnKey, Grows

LEMMA DeleteStands ==
    ASSUME NEW p \in Deleters, DelOK(p), Grows, del'[p] = del[p]
    PROVE  DelOK(p)'
<1>1. del[p].pc # "idle" => FileOf(del[p].root.id, del[p].root.key)'
  BY DEF DelOK, FileOf, OwnKey, Grows
<1>2. \A k \in del[p].kids : Child(k)'
  BY ChildStays DEF DelOK
<1>3. del[p].pc = "mark" => del[p].cur = del[p].root \/ Child(del[p].cur)'
  BY ChildStays DEF DelOK
<1> QED
  BY <1>1, <1>2, <1>3 DEF DelOK, Grows

LEMMA OnceCompletedGrows ==
    ASSUME Grows, NEW db
    PROVE  OnceCompleted(db) \subseteq OnceCompleted(db)'
BY DEF OnceCompleted, IsFull, Grows

LEMMA SweepStands ==
    ASSUME NEW s \in Sweeps, DelOK(s), SweepOK(s), Grows,
           sweep'[s] = sweep[s], del'[s].root.id = del[s].root.id,
           del'[s].pc = "idle" <=> del[s].pc = "idle"
    PROVE  SweepOK(s)'
<1>1. \A i \in sweep[s].expired :
          i \in DOMAIN records' /\ records'[i].db \notin SqlServer
  BY DEF SweepOK, Grows
<1>2. \A i \in sweep[s].snap : \E db \in SqlServer : i \in OnceCompleted(db)'
  BY OnceCompletedGrows DEF SweepOK
<1>3. sweep[s].fulls # {} =>
          \E db \in SqlServer : sweep[s].fulls \subseteq OnceCompleted(db)'
  BY OnceCompletedGrows DEF SweepOK
<1>4. sweep[s].pc = "expiring" => records'[del[s].root.id].db \notin SqlServer
  BY DEF SweepOK, DelOK, Grows
<1> QED
  BY <1>1, <1>2, <1>3, <1>4 DEF SweepOK
-----------------------------------------------------------------------------
(* Backups *)

RecordsOK ==
    /\ StoreTypeOK
    /\ \A i \in DOMAIN records : RecordOK(i)

JobsOK ==
    /\ JobTypeOK
    /\ \A b \in Backups : JobOK(b)

(* A new Running record disturbs no other job. *)
LEMMA StartRecordKeeps ==
    ASSUME RecordsOK, JobsOK, NEW b \in Backups, ~Active(b), NEW db \in Databases,
           NEW parent \in RecId \cup {NoId}, parent # NoId => db \in SqlServer,
           StartRecord(b, db, parent)
    PROVE  RecordsOK' /\ JobsOK' /\ Grows
<1> DEFINE n == Len(records) + 1
           type == IF parent = NoId THEN "full" ELSE "log"
<1>1. PICK days \in RetainDays : Save(NewRecord(db, type, parent, days))
  BY DEF StartRecord
<1>2. NewRecord(db, type, parent, days) \in BackupRecord
  BY ConstantsAssumption
  DEF NewRecord, BackupRecord, Type, Status, RecordsOK, StoreTypeOK
<1>3. /\ records' \in Seq(BackupRecord)
      /\ n \in RecId
      /\ n \notin DOMAIN records
      /\ DOMAIN records' = DOMAIN records \cup {n}
      /\ records'[n] = NewRecord(db, type, parent, days)
      /\ \A i \in DOMAIN records : records'[i] = records[i]
  BY <1>1, <1>2, SaveAppends DEF RecordsOK, StoreTypeOK
<1>4. Grows
  BY <1>3 DEF Grows
<1>5. \A i \in DOMAIN records' : RecordOK(i)'
  BY <1>3 DEF RecordsOK, RecordOK, IsFull, FileOf, OwnKey, NewRecord, NoId
<1>6. RecordsOK'
  BY <1>3, <1>5 DEF RecordsOK, StoreTypeOK, StartRecord
<1>7. /\ job' = [job EXCEPT ![b] = [pc |-> "dumping", id |-> n, db |-> db,
                                    parent |-> parent, key |-> NoKey]]
      /\ job \in [Backups -> JobState]
  BY DEF StartRecord, JobsOK, JobTypeOK
<1>8. JobTypeOK'
  BY <1>3, <1>7 DEF JobTypeOK, JobState, JobPc
<1>9. ASSUME NEW c \in Backups PROVE JobOK(c)'
  <2>1. CASE c = b
    <3>1. \A a \in Backups : Active(a)' /\ job'[a].id = n => a = b
      BY <1>3, <1>7 DEF JobsOK, JobOK, Active
    <3> QED
      BY <2>1, <1>3, <1>7, <3>1 DEF JobOK, Active, HasKey, JobType, NewRecord
  <2>2. CASE c # b
    <3>1. job'[c] = job[c] /\ JobOK(c)
      BY <1>7, <2>2 DEF JobsOK
    <3>2. Active(c) => job[c].id # n
      BY <1>3, <3>1 DEF JobOK
    <3>3. \A a \in Backups : a # b => job'[a] = job[a]
      BY <1>7
    <3>4. job'[b].id = n
      BY <1>7
    <3>5. Active(c)' = Active(c) /\ HasKey(c)' = HasKey(c) /\ JobType(c)' = JobType(c)
      BY <3>1 DEF Active, HasKey, JobType
    <3>6. HasKey(c) => Active(c)
      BY DEF HasKey, Active
    <3>7. Active(c) => FileOf(job[c].id, job[c].key)' = FileOf(job[c].id, job[c].key)
      BY <3>1, <1>3 DEF JobOK, FileOf, OwnKey
    <3>8. Active(c) => \A a \in Backups : Active(a)' /\ job'[a].id = job'[c].id => a = c
      BY <3>1, <3>2, <3>3, <3>4 DEF JobOK, Active
    <3> QED
      BY <3>1, <3>5, <3>6, <3>7, <3>8, <1>3 DEF JobOK
  <2> QED
    BY <2>1, <2>2
<1> QED
  BY <1>4, <1>6, <1>8, <1>9 DEF JobsOK

(* A step of b that changes no record. *)
LEMMA JobMoves ==
    ASSUME RecordsOK, JobsOK, NEW b \in Backups, UNCHANGED <<records, now>>,
           bucket' \subseteq Key,
           NEW j \in JobState, job' = [job EXCEPT ![b] = j],
           j.pc \in {"idle", "chained"} \/ (Active(b) /\ j.id = job[b].id),
           j.pc = "chained" => j.db \in SqlServer,
           Active(b) /\ j.pc \notin {"idle", "chained"}
              => j.db = job[b].db /\ j.parent = job[b].parent,
           HasKey(b)' => j.key \in Key /\ FileOf(j.id, j.key)
    PROVE  RecordsOK' /\ JobsOK' /\ Grows
<1>1. job \in [Backups -> JobState] /\ job' \in [Backups -> JobState]
  BY DEF JobsOK, JobTypeOK
<1>2. Grows
  BY DEF Grows
<1>3. RecordsOK'
  BY DEF RecordsOK, StoreTypeOK, RecordOK, IsFull, FileOf, OwnKey
<1>4. ASSUME NEW c \in Backups PROVE JobOK(c)'
  <2>1. \A a \in Backups : Active(a)' => Active(a) /\ job'[a].id = job[a].id
    BY <1>1 DEF Active
  <2>2. CASE c = b
    BY <1>1, <2>1, <2>2 DEF JobsOK, JobOK, Active, HasKey, JobType, FileOf, OwnKey
  <2>3. CASE c # b
    BY <1>1, <2>1, <2>3 DEF JobsOK, JobOK, Active, HasKey, JobType, FileOf, OwnKey
  <2> QED
    BY <2>2, <2>3
<1> QED
  BY <1>1, <1>2, <1>3, <1>4 DEF JobsOK, JobTypeOK
LEMMA BackupKeeps ==
    ASSUME RecordsOK, JobsOK, NEW b \in Backups,
           BackupBegins(b) \/ BackupStep(b)
    PROVE  RecordsOK' /\ JobsOK' /\ Grows
<1> DEFINE j == job[b]
<1>1. job \in [Backups -> JobState] /\ JobOK(b) /\ j \in JobState
  BY DEF JobsOK, JobTypeOK
<1>2. records \in Seq(BackupRecord) /\ bucket \subseteq Key /\ now \in Nat
  BY DEF RecordsOK, StoreTypeOK
<1>3. CASE BeginFull(b)
  BY <1>3, StartRecordKeeps DEF BeginFull, Active, NoId
<1>4. CASE SaveLog(b)
  <2>1. ~Active(b) /\ j.db \in SqlServer /\ j.parent \in RecId \cup {NoId}
    BY <1>1, <1>4 DEF SaveLog, Active, JobOK, JobState
  <2> QED
    BY <1>4, <2>1, StartRecordKeeps, ConstantsAssumption DEF SaveLog
<1>5. CASE BeginLog(b)
  <2>1. PICK db \in SqlServer, full \in DOMAIN records :
            job' = [job EXCEPT ![b].pc = "chained", ![b].db = db, ![b].parent = full]
    BY <1>5 DEF BeginLog
  <2> DEFINE k == [j EXCEPT !.pc = "chained", !.db = db, !.parent = full]
  <2>2. job' = [job EXCEPT ![b] = k]
    BY <1>1, <2>1 DEF JobState
  <2>3. k \in JobState
    BY <1>1, <1>2, RecordsHaveTypes, ConstantsAssumption DEF JobState, JobPc
  <2>4. ~HasKey(b)'
    BY <1>1, <2>2 DEF HasKey, JobState
  <2> QED
    BY <1>1, <1>2, <1>5, <2>2, <2>3, <2>4, JobMoves DEF BeginLog, Active, JobState
<1>6. CASE Dump(b)
  <2> DEFINE key == <<j.db, JobType(b), Stamp(b)>>
             k == [j EXCEPT !.pc = "uploading", !.key = key]
  <2>1. job' = [job EXCEPT ![b] = k]
    BY <1>1, <1>6 DEF Dump, JobState
  <2>2. Active(b)
    BY <1>6 DEF Dump, Active
  <2>3. j.id \in DOMAIN records /\ records[j.id].db = j.db /\ records[j.id].type = JobType(b)
    BY <1>1, <2>2 DEF JobOK
  <2>4. key \in Key
    BY <1>2, <2>3, RecordsHaveTypes, UniqueStampsAssumption
    DEF Key, Stamp, RecId, BackupRecord
  <2>5. FileOf(j.id, key)
    BY <2>3 DEF FileOf, OwnKey, Stamp
  <2>6. k \in JobState
    BY <1>1, <2>4 DEF JobState, JobPc
  <2> QED
    BY <1>1, <1>2, <1>6, <2>1, <2>2, <2>4, <2>5, <2>6, JobMoves DEF Dump, JobState
<1>7. ASSUME NEW pc \in {"failing", "closing", "completing", "discarding"},
             job' = [job EXCEPT ![b].pc = pc], Active(b),
             pc = "failing" \/ HasKey(b),
             UNCHANGED <<records, now>>,
             bucket' \subseteq bucket \cup {j.key}, bucket' \subseteq Key
      PROVE  RecordsOK' /\ JobsOK' /\ Grows
  <2> DEFINE k == [j EXCEPT !.pc = pc]
  <2>1. job' = [job EXCEPT ![b] = k]
    BY <1>1, <1>7 DEF JobState
  <2>2. k \in JobState
    BY <1>1 DEF JobState, JobPc
  <2>3. HasKey(b)' => k.key \in Key /\ FileOf(k.id, k.key)
    BY <1>1, <1>7, <2>1 DEF JobOK, HasKey, JobState
  <2> QED
    BY <1>1, <1>7, <2>1, <2>2, <2>3, JobMoves DEF JobState
<1>8. CASE DumpFail(b)
  BY <1>2, <1>7, <1>8 DEF DumpFail, Active
<1>9. HasKey(b) => Active(b) /\ j.key \in Key
  BY <1>1 DEF HasKey, Active, JobOK
<1>10. CASE Upload(b)
  BY <1>2, <1>7, <1>9, <1>10 DEF Upload, HasKey, PutObject
<1>11. CASE UploadFail(b)
  BY <1>2, <1>7, <1>9, <1>11 DEF UploadFail, HasKey, PutObject
<1>12. CASE Close(b)
  BY <1>2, <1>7, <1>9, <1>12 DEF Close, HasKey
<1>13. CASE CloseFail(b)
  BY <1>2, <1>7, <1>9, <1>13 DEF CloseFail, HasKey
<1>14. CASE Discard(b)
  BY <1>2, <1>7, <1>9, <1>14 DEF Discard, HasKey, DeleteObject
<1>15. ASSUME Fail(b) \/ Complete(b)
       PROVE  RecordsOK' /\ JobsOK' /\ Grows
  <2>1. Active(b) /\ j.id \in DOMAIN records
    BY <1>1, <1>15 DEF Fail, Complete, Active, JobOK
  <2>2. /\ records[j.id] \in BackupRecord
        /\ records[j.id].fileName = NoKey
        /\ RecordOK(j.id)
    BY <1>1, <1>2, <2>1, RecordsHaveTypes DEF JobOK, RecordsOK
  <2>3. /\ records' \in Seq(BackupRecord)
        /\ DOMAIN records' = DOMAIN records
        /\ \A i \in DOMAIN records : i # j.id => records'[i] = records[i]
        /\ records'[j.id].db = records[j.id].db
        /\ records'[j.id].type = records[j.id].type
        /\ records'[j.id].parent = records[j.id].parent
        /\ \/ records'[j.id].status # "completed" /\ records'[j.id].fileName = NoKey
           \/ HasKey(b) /\ records'[j.id].fileName = j.key
    <3>1. CASE Fail(b)
      <4>1. UpdateStatus(j.id, "failed") /\ "failed" \in Status
        BY <3>1 DEF Fail, Status
      <4> QED
        BY <1>2, <2>1, <2>2, <4>1, UpdateStatusChangesOne DEF BackupRecord
    <3>2. CASE Complete(b)
      <4>1. Update(j.id, "completed", j.key) /\ "completed" \in Status /\ HasKey(b)
        BY <3>2 DEF Complete, Status, HasKey
      <4> QED
        BY <1>2, <1>9, <2>1, <2>2, <4>1, UpdateChangesOne DEF BackupRecord
    <3> QED
      BY <1>15, <3>1, <3>2
  <2>4. Grows
    BY <2>2, <2>3 DEF Grows
  <2>5. NoKey \notin Key
    BY DEF NoKey, Key
  <2>6. ASSUME NEW i \in DOMAIN records, i = j.id PROVE RecordOK(i)'
    BY <1>1, <1>9, <2>1, <2>2, <2>3, <2>5, <2>6 DEF RecordOK, IsFull, FileOf, OwnKey, JobOK
  <2>7. RecordsOK'
    BY <1>2, <1>15, <2>3, <2>6
    DEF RecordsOK, StoreTypeOK, RecordOK, IsFull, FileOf, OwnKey, Fail, Complete
  <2>8. job' = [job EXCEPT ![b] = IdleJob] /\ ~Active(b)' /\ ~HasKey(b)'
    BY <1>1, <1>15 DEF Fail, Complete, IdleJob, Active, HasKey
  <2>9. JobTypeOK'
    BY <1>1, <2>8 DEF JobTypeOK, JobState, JobPc, IdleJob
  <2>10. ASSUME NEW c \in Backups PROVE JobOK(c)'
    <3>1. CASE c = b
      BY <1>1, <2>8, <3>1 DEF JobOK, IdleJob
    <3>2. CASE c # b
      <4>1. job'[c] = job[c] /\ JobOK(c) /\ (Active(c) => job[c].id # j.id)
        BY <1>1, <2>1, <2>8, <3>2 DEF JobsOK, JobOK
      <4>2. \A a \in Backups : Active(a)' => Active(a) /\ job'[a].id = job[a].id
        BY <1>1, <2>8 DEF Active
      <4>3. Active(c)' = Active(c) /\ HasKey(c)' = HasKey(c) /\ JobType(c)' = JobType(c)
        BY <4>1 DEF Active, HasKey, JobType
      <4>4. HasKey(c) => Active(c)
        BY DEF HasKey, Active
      <4>5. Active(c) => FileOf(job[c].id, job[c].key)' = FileOf(job[c].id, job[c].key)
        BY <2>3, <4>1 DEF JobOK, FileOf, OwnKey
      <4> QED
        BY <2>3, <4>1, <4>2, <4>3, <4>4, <4>5 DEF JobOK
    <3> QED
      BY <3>1, <3>2
  <2> QED
    BY <2>4, <2>7, <2>9, <2>10 DEF JobsOK
<1> QED
  BY <1>3, <1>4, <1>5, <1>6, <1>8, <1>10, <1>11, <1>12, <1>13, <1>14, <1>15
  DEF BackupBegins, BackupStep
-----------------------------------------------------------------------------
(* Deletions *)

(* What a step of the others than the backups does to the records. *)
OnlyExpires ==
    /\ Grows
    /\ \A i \in DOMAIN records :
          /\ records'[i].fileName = records[i].fileName
          /\ records'[i].status = "completed" => records[i].status = "completed"

LEMMA UnchangedOnlyExpires ==
    ASSUME UNCHANGED records
    PROVE  OnlyExpires
BY DEF OnlyExpires, Grows

LEMMA RecordsStand ==
    ASSUME RecordsOK, UNCHANGED records, bucket' \subseteq Key, now' \in Nat
    PROVE  RecordsOK'
BY DEF RecordsOK, StoreTypeOK, RecordOK, IsFull, FileOf, OwnKey

LEMMA DeleteKeeps ==
    ASSUME RecordsOK, QueryTypeOK, NEW p \in Deleters, DelOK(p), DeleteStep(p)
    PROVE  /\ RecordsOK'
           /\ OnlyExpires
           /\ QueryTypeOK'
           /\ DelOK(p)'
           /\ \A q \in Deleters : q # p => del'[q] = del[q]
           /\ del'[p].root.id = del[p].root.id
           /\ del[p].pc # "idle" /\ del'[p].pc # "idle"
<1> DEFINE d == del[p]
<1>1. del \in [Deleters -> DelState] /\ d \in DelState
  BY DEF QueryTypeOK
<1>2. records \in Seq(BackupRecord) /\ bucket \subseteq Key /\ now \in Nat
  BY DEF RecordsOK, StoreTypeOK
<1>3. d.pc # "idle"
  BY DEF DeleteStep, DeleteFind, DeleteList, DeleteObjectOf, DeleteObjectSkipped,
         DeleteObjectFail, DeleteMark
<1>4. d.root \in Target /\ d.root.id \in DOMAIN records /\ FileOf(d.root.id, d.root.key)
  BY <1>1, <1>2, <1>3, RecordsHaveTypes DEF DelOK, DelState, NoTarget, NoId, RecId
<1>5. \A k \in d.kids : k \in Target /\ Child(k)
  BY <1>1 DEF DelOK, DelState
<1>6. ASSUME UNCHANGED <<records, now>>, bucket' \subseteq bucket,
             NEW e \in DelState, del' = [del EXCEPT ![p] = e],
             e.pc # "idle", e.root.id = d.root.id, FileOf(e.root.id, e.root.key),
             \A k \in e.kids : Child(k),
             e.pc = "mark" => e.cur = e.root \/ Child(e.cur)
      PROVE  /\ RecordsOK'
             /\ OnlyExpires
             /\ QueryTypeOK'
             /\ DelOK(p)'
             /\ \A q \in Deleters : q # p => del'[q] = del[q]
             /\ del'[p].root.id = del[p].root.id
             /\ del'[p].pc # "idle"
  <2>1. del'[p] = e
    BY <1>1, <1>6
  <2>2. RecordsOK' /\ OnlyExpires
    BY <1>2, <1>6, RecordsStand, UnchangedOnlyExpires
  <2>3. QueryTypeOK'
    BY <1>1, <1>6 DEF QueryTypeOK
  <2>4. DelOK(p)'
    BY <1>4, <1>6, <2>1 DEF DelOK, Child, FileOf, OwnKey, IsFull
  <2> QED
    BY <1>1, <1>6, <2>1, <2>2, <2>3, <2>4
<1>7. CASE DeleteFind(p)
  <2> DEFINE pc == IF IsFull(d.root.id) THEN "list" ELSE "cascade"
             owed == CompletedChildren(d.root.id)
             e == [d EXCEPT !.root.key = records[d.root.id].fileName, !.owed = owed,
                            !.pc = pc]
  <2>1. del' = [del EXCEPT ![p] = e]
    BY <1>1, <1>7 DEF DeleteFind, DelState
  <2>2. records[d.root.id] \in BackupRecord /\ RecordOK(d.root.id)
    BY <1>2, <1>4, RecordsHaveTypes DEF RecordsOK
  <2>3. /\ e.root = [id |-> d.root.id, key |-> records[d.root.id].fileName]
        /\ e.pc = pc /\ e.kids = d.kids /\ e.cur = d.cur
        /\ e.owed = owed /\ e.asked = d.asked
    BY <1>1, <1>4 DEF DelState, Target
  <2>4. e.root \in Target
    BY <1>4, <2>2, <2>3 DEF Target, BackupRecord
  <2>5. e \in DelState
    <3>1. owed \in SUBSET RecId
      BY <1>2, RecordsHaveTypes DEF RecordsOK, CompletedChildren, FindChildren
    <3> QED
      BY <1>1, <2>3, <2>4, <3>1 DEF DelState, DelPc
  <2>6. FileOf(e.root.id, e.root.key)
    BY <2>2, <2>3 DEF RecordOK
  <2>7. e.pc # "idle" /\ e.pc # "mark" /\ e.root.id = d.root.id /\ e.kids = d.kids
    BY <2>3
  <2>8. UNCHANGED <<records, now>> /\ bucket' \subseteq bucket
    BY <1>7 DEF DeleteFind
  <2> HIDE DEF e, pc
  <2> QED
    BY <1>3, <1>5, <1>6, <2>1, <2>5, <2>6, <2>7, <2>8
<1>8. CASE DeleteList(p)
  <2> DEFINE kids == {[id |-> j, key |-> records[j].fileName] :
                         j \in FindChildren(d.root.id)}
             e == [d EXCEPT !.kids = kids, !.pc = "cascade"]
  <2>1. del' = [del EXCEPT ![p] = e]
    BY <1>1, <1>8 DEF DeleteList, DelState
  <2>2. \A j \in FindChildren(d.root.id) :
            j \in RecId /\ records[j] \in BackupRecord /\ RecordOK(j) /\ ~IsFull(j)
    BY <1>2, <1>4, RecordsHaveTypes DEF FindChildren, RecordsOK, RecordOK, Target, RecId, NoId
  <2>3. \A k \in kids : k \in Target /\ Child(k)
    BY <2>2 DEF Target, BackupRecord, Child, RecordOK, FindChildren
  <2>4. /\ e.root = d.root /\ e.pc = "cascade" /\ e.kids = kids /\ e \in DelState
    BY <1>1, <2>3 DEF DelState, DelPc
  <2> QED
    BY <1>3, <1>4, <1>6, <1>8, <2>1, <2>3, <2>4 DEF DeleteList
<1>9. ASSUME NEW one \in NextTargets(p), NEW asked \in BOOLEAN,
             UNCHANGED <<records, now>>, bucket' \subseteq bucket,
             del' = [del EXCEPT ![p].pc = "mark", ![p].cur = one, ![p].kids = @ \ {one},
                                ![p].asked = asked]
      PROVE  /\ RecordsOK'
             /\ OnlyExpires
             /\ QueryTypeOK'
             /\ DelOK(p)'
             /\ \A q \in Deleters : q # p => del'[q] = del[q]
             /\ del'[p].root.id = del[p].root.id
             /\ del'[p].pc # "idle"
  <2> DEFINE e == [d EXCEPT !.pc = "mark", !.cur = one, !.kids = @ \ {one},
                            !.asked = asked]
  <2>1. del' = [del EXCEPT ![p] = e]
    BY <1>1, <1>9 DEF DelState
  <2>2. one \in Target /\ (one = d.root \/ Child(one))
    BY <1>4, <1>5 DEF NextTargets
  <2>3. /\ e.root = d.root /\ e.pc = "mark" /\ e.kids = d.kids \ {one} /\ e.cur = one
        /\ e \in DelState
    BY <1>1, <2>2 DEF DelState, DelPc
  <2> QED
    BY <1>4, <1>5, <1>6, <1>9, <2>1, <2>2, <2>3
<1>10. CASE DeleteObjectOf(p)
  BY <1>3, <1>9, <1>10 DEF DeleteObjectOf, DeleteObject
<1>11. CASE DeleteObjectSkipped(p)
  BY <1>3, <1>9, <1>11 DEF DeleteObjectSkipped
<1>12. CASE DeleteObjectFail(p)
  <2> DEFINE e == [d EXCEPT !.pc = "err"]
  <2>1. del' = [del EXCEPT ![p] = e] /\ bucket' \subseteq bucket
    BY <1>1, <1>12 DEF DeleteObjectFail, DeleteObject, DelState
  <2>2. e.root = d.root /\ e.pc = "err" /\ e.kids = d.kids /\ e \in DelState
    BY <1>1 DEF DelState, DelPc
  <2> QED
    BY <1>3, <1>4, <1>5, <1>6, <1>12, <2>1, <2>2 DEF DeleteObjectFail
<1>13. CASE DeleteMark(p)
  <2> DEFINE i == d.cur.id
             pc == IF i = d.root.id THEN "ok" ELSE "cascade"
             e == [d EXCEPT !.pc = pc]
  <2>1. del' = [del EXCEPT ![p] = e]
    BY <1>1, <1>13 DEF DeleteMark, DelState
  <2>2. i \in DOMAIN records
    BY <1>4, <1>13 DEF DeleteMark, DelOK, Child
  <2>3. UpdateStatus(i, "expired") /\ "expired" \in Status
    BY <1>13 DEF DeleteMark, Status
  <2>4. /\ records' \in Seq(BackupRecord)
        /\ DOMAIN records' = DOMAIN records
        /\ \A k \in DOMAIN records : k # i => records'[k] = records[k]
        /\ records'[i].db = records[i].db
        /\ records'[i].type = records[i].type
        /\ records'[i].parent = records[i].parent
        /\ records'[i].status = "expired"
        /\ records'[i].fileName = records[i].fileName
    BY <1>2, <2>2, <2>3, UpdateStatusChangesOne
  <2>5. OnlyExpires
    BY <2>4 DEF OnlyExpires, Grows
  <2>6. \A k \in DOMAIN records : RecordOK(k)'
    BY <2>4 DEF RecordsOK, RecordOK, IsFull, FileOf, OwnKey
  <2>7. RecordsOK'
    BY <1>2, <1>13, <2>4, <2>6 DEF RecordsOK, StoreTypeOK, DeleteMark
  <2>8. e \in DelState /\ e.root = d.root /\ e.kids = d.kids /\ e.pc = pc /\ del'[p] = e
    BY <1>1, <2>1 DEF DelState, DelPc
  <2>9. QueryTypeOK'
    BY <1>1, <2>1, <2>8 DEF QueryTypeOK
  <2>10. FileOf(d.root.id, d.root.key) =>
            \A k, key : k = d.root.id /\ key = d.root.key => FileOf(k, key)'
    BY <1>4, <2>4 DEF FileOf, OwnKey
  <2>11. \A k \in d.kids : Child(k)'
    BY <1>5, <2>5, ChildStays DEF OnlyExpires
  <2>12. DelOK(p)'
    BY <1>4, <2>4, <2>8, <2>10, <2>11 DEF DelOK
  <2> QED
    BY <1>1, <1>3, <2>1, <2>5, <2>7, <2>8, <2>9, <2>12
<1> QED
  BY <1>7, <1>8, <1>10, <1>11, <1>12, <1>13 DEF DeleteStep
LEMMA CalledDelete ==
    ASSUME records \in Seq(BackupRecord), NEW i \in DOMAIN records
    PROVE  /\ CallDelete(i) \in DelState
           /\ CallDelete(i).pc = "find"
           /\ CallDelete(i).root.id = i
           /\ CallDelete(i).root.key = NoKey
           /\ CallDelete(i).kids = {}
BY RecordsHaveTypes DEF CallDelete, IdleDel, DelState, DelPc, Target, NoTarget

LEMMA IdleDelHasType ==
    /\ IdleDel \in DelState
    /\ IdleDel.pc = "idle"
    /\ IdleDel.kids = {}
BY DEF IdleDel, DelState, DelPc

LEMMA IdleSweepHasType == IdleSweep \in SweepState
BY DEF IdleSweep, SweepState, SweepPc

LEMMA UserKeeps ==
    ASSUME RecordsOK, QueryTypeOK, NEW u \in Users, DelOK(u),
           UserDeletes(u) \/ UserReturns(u)
    PROVE  /\ UNCHANGED records
           /\ RecordsOK'
           /\ QueryTypeOK'
           /\ DelOK(u)'
           /\ \A q \in Deleters : q # u => del'[q] = del[q]
<1>1. records \in Seq(BackupRecord) /\ bucket \subseteq Key /\ now \in Nat
  BY DEF RecordsOK, StoreTypeOK
<1>2. UNCHANGED <<records, bucket, now>>
  BY DEF UserDeletes, UserReturns
<1>3. RecordsOK'
  BY <1>1, <1>2, RecordsStand
<1>4. PICK e : /\ del' = [del EXCEPT ![u] = e]
               /\ e = IdleDel \/ \E i \in DOMAIN records : e = CallDelete(i)
  BY DEF UserDeletes, UserReturns
<1>5. del \in [Deleters -> DelState] /\ u \in Deleters
  BY DEF QueryTypeOK, Deleters
<1>6. e \in DelState
  BY <1>1, <1>4, CalledDelete, IdleDelHasType
<1>7. QueryTypeOK'
  BY <1>4, <1>5, <1>6 DEF QueryTypeOK
<1>8. CASE e = IdleDel
  BY <1>2, <1>3, <1>4, <1>5, <1>7, <1>8, IdleDelHasType DEF DelOK
<1>9. CASE \E i \in DOMAIN records : e = CallDelete(i)
  <2>1. PICK i \in DOMAIN records : e = CallDelete(i)
    BY <1>9
  <2>2. /\ del'[u].pc = "find" /\ del'[u].kids = {}
        /\ del'[u].root.id = i /\ del'[u].root.key = NoKey
    BY <1>1, <1>4, <1>5, <2>1, CalledDelete
  <2> QED
    BY <1>2, <1>3, <1>4, <1>5, <1>7, <2>2 DEF DelOK, FileOf
<1> QED
  BY <1>4, <1>8, <1>9

-----------------------------------------------------------------------------
(* Sweeps *)

LEMMA SweepKeeps ==
    ASSUME RecordsOK, QueryTypeOK, SweepTypeOK, NEW s \in Sweeps, DelOK(s), SweepOK(s),
           SweepBegins(s) \/ SweepStep(s)
    PROVE  /\ UNCHANGED records
           /\ RecordsOK'
           /\ QueryTypeOK'
           /\ SweepTypeOK'
           /\ DelOK(s)'
           /\ SweepOK(s)'
           /\ \A q \in Deleters : q # s => del'[q] = del[q]
           /\ \A t \in Sweeps : t # s => sweep'[t] = sweep[t]
<1> DEFINE w == sweep[s]
           d == del[s]
           IsDelete(f) == f = d \/ f = IdleDel \/ \E i \in DOMAIN records : f = CallDelete(i)
           Good(e, f) ==
              /\ \A i \in e.expired : i \in DOMAIN records /\ records[i].db \notin SqlServer
              /\ \A i \in e.snap : \E db \in SqlServer : i \in OnceCompleted(db)
              /\ e.fulls # {} => \E db \in SqlServer : e.fulls \subseteq OnceCompleted(db)
              /\ e.pc \in {"verify", "deleting"} =>
                    /\ e.candidate \in e.fulls
                    /\ \A i \in e.unchecked \cup e.verified : i \in e.fulls /\ e.candidate < i
              /\ e.pc = "deleting" =>
                    AtLeastMinVerified(e.verified) /\ f.root.id = e.candidate
              /\ e.pc = "expiring" => records[f.root.id].db \notin SqlServer
              /\ f.pc # "idle" <=> e.pc \in {"expiring", "deleting"}
<1>1. records \in Seq(BackupRecord) /\ bucket \subseteq Key /\ now \in Nat
  BY DEF RecordsOK, StoreTypeOK
<1>2. UNCHANGED <<records, bucket, now>>
  BY DEF SweepBegins, SweepStep, SweepExpired, SweepExpiredReturns, SweepSnapshot,
         SweepNoStorage, SweepGroup, SweepReturns, SweepCandidate, SweepGroupDone,
         SweepVerify, SweepVerifyFail, SweepDeletes, SweepGoldenRule, SweepDeleted,
         SweepDeleteFailed
<1>3. /\ del \in [Deleters -> DelState] /\ sweep \in [Sweeps -> SweepState]
      /\ s \in Deleters /\ w \in SweepState /\ d \in DelState
  BY DEF QueryTypeOK, SweepTypeOK, Deleters
<1>4. Good(w, d)
  BY DEF SweepOK
<1>5. RecordsOK'
  BY <1>1, <1>2, RecordsStand
<1>6. ASSUME NEW e \in SweepState, NEW f, IsDelete(f), Good(e, f),
             sweep' = [sweep EXCEPT ![s] = e], del' = [del EXCEPT ![s] = f]
      PROVE  /\ QueryTypeOK'
             /\ SweepTypeOK'
             /\ DelOK(s)'
             /\ SweepOK(s)'
             /\ \A q \in Deleters : q # s => del'[q] = del[q]
             /\ \A t \in Sweeps : t # s => sweep'[t] = sweep[t]
  <2>1. f \in DelState
    BY <1>1, <1>3, <1>6, CalledDelete, IdleDelHasType
  <2>2. QueryTypeOK' /\ SweepTypeOK'
    BY <1>3, <1>6, <2>1 DEF QueryTypeOK, SweepTypeOK
  <2>3. sweep'[s] = e /\ del'[s] = f
    BY <1>3, <1>6
  <2>4. DelOK(s)'
    <3>1. CASE f = d
      BY <1>2, <2>3, <3>1 DEF DelOK, Child, FileOf, OwnKey, IsFull
    <3>2. CASE f = IdleDel
      BY <2>3, <3>2, IdleDelHasType DEF DelOK
    <3>3. CASE \E i \in DOMAIN records : f = CallDelete(i)
      <4>1. PICK i \in DOMAIN records : f = CallDelete(i)
        BY <3>3
      <4>2. /\ del'[s].pc = "find" /\ del'[s].kids = {}
            /\ del'[s].root.id = i /\ del'[s].root.key = NoKey
        BY <1>1, <2>3, <4>1, CalledDelete
      <4> QED
        BY <1>2, <4>2 DEF DelOK, FileOf
    <3> QED
      BY <1>6, <3>1, <3>2, <3>3
  <2>5. SweepOK(s)'
    BY <1>2, <1>6, <2>3 DEF SweepOK, OnceCompleted, IsFull
  <2> QED
    BY <1>3, <1>6, <2>2, <2>4, <2>5
<1>7. CASE SweepBegins(s)
  <2> DEFINE e == [w EXCEPT !.pc = "expired",
                            !.expired = {i \in FindExpired : records[i].db \notin SqlServer}]
  <2>1. sweep' = [sweep EXCEPT ![s] = e] /\ del' = [del EXCEPT ![s] = d]
    BY <1>3, <1>7 DEF SweepBegins, SweepState
  <2>2. e \in SweepState
    BY <1>1, <1>3, RecordsHaveTypes DEF SweepState, SweepPc, FindExpired
  <2>3. Good(e, d)
    BY <1>3, <1>4, <1>7 DEF SweepBegins, SweepState, FindExpired
  <2> QED
    BY <1>2, <1>5, <1>6, <2>1, <2>2, <2>3
<1>8. CASE SweepExpired(s)
  <2>1. PICK i \in w.expired :
            /\ sweep' = [sweep EXCEPT ![s].pc = "expiring", ![s].expired = @ \ {i}]
            /\ del' = [del EXCEPT ![s] = CallDelete(i)]
    BY <1>8 DEF SweepExpired
  <2> DEFINE e == [w EXCEPT !.pc = "expiring", !.expired = @ \ {i}]
  <2>2. sweep' = [sweep EXCEPT ![s] = e] /\ e \in SweepState
    BY <1>3, <2>1 DEF SweepState, SweepPc
  <2>3. i \in DOMAIN records /\ records[i].db \notin SqlServer
    BY <1>4
  <2>4. CallDelete(i).pc = "find" /\ CallDelete(i).root.id = i
    BY <1>1, <2>3, CalledDelete
  <2>5. Good(e, CallDelete(i))
    BY <1>3, <1>4, <1>8, <2>3, <2>4 DEF SweepExpired, SweepState
  <2> QED
    BY <1>2, <1>5, <1>6, <2>1, <2>2, <2>3, <2>5
<1>9. CASE SweepExpiredReturns(s)
  <2> DEFINE e == [w EXCEPT !.pc = "expired"]
  <2>1. sweep' = [sweep EXCEPT ![s] = e] /\ del' = [del EXCEPT ![s] = IdleDel]
    BY <1>3, <1>9 DEF SweepExpiredReturns, SweepState
  <2>2. e \in SweepState
    BY <1>3 DEF SweepState, SweepPc
  <2>3. Good(e, IdleDel)
    BY <1>3, <1>4, <1>9, IdleDelHasType DEF SweepExpiredReturns, SweepState
  <2> QED
    BY <1>2, <1>5, <1>6, <2>1, <2>2, <2>3
<1>10. CASE SweepSnapshot(s)
  <2> DEFINE snap == UNION {CompletedFulls(db) : db \in SqlServer}
             e == [w EXCEPT !.pc = "groups", !.snap = snap]
  <2>1. sweep' = [sweep EXCEPT ![s] = e] /\ del' = [del EXCEPT ![s] = d]
    BY <1>3, <1>10 DEF SweepSnapshot, SweepState
  <2>2. \A i \in snap : i \in RecId /\ \E db \in SqlServer : i \in OnceCompleted(db)
    BY <1>1, RecordsHaveTypes DEF CompletedFulls, OnceCompleted, RecordsOK, RecordOK
  <2>3. e \in SweepState
    BY <1>3, <2>2 DEF SweepState, SweepPc
  <2>4. Good(e, d)
    BY <1>3, <1>4, <1>10, <2>2 DEF SweepSnapshot, SweepState
  <2> QED
    BY <1>2, <1>5, <1>6, <2>1, <2>3, <2>4
<1>11. /\ IdleSweep \in SweepState
       /\ [IdleSweep EXCEPT !.pc = "groups", !.snap = w.snap] \in SweepState
  <2>1. IdleSweep \in SweepState
    BY DEF IdleSweep, SweepState, SweepPc
  <2>2. w.snap \in SUBSET RecId
    BY <1>3 DEF SweepState
  <2> QED
    BY <2>1, <2>2 DEF SweepState, SweepPc
<1>12. CASE SweepNoStorage(s) \/ SweepReturns(s)
  <2>1. /\ sweep' = [sweep EXCEPT ![s] = IdleSweep]
        /\ del' = [del EXCEPT ![s] = d]
        /\ w.pc \in {"expired", "groups"}
    BY <1>3, <1>12 DEF SweepNoStorage, SweepReturns
  <2>2. Good(IdleSweep, d)
    BY <1>4, <2>1 DEF IdleSweep
  <2> QED
    BY <1>2, <1>5, <1>6, <1>11, <2>1, <2>2
<1>13. CASE SweepGroup(s)
  <2>1. PICK i \in w.snap, days \in RetainDays :
            sweep' = [sweep EXCEPT ![s].pc = "candidate",
                         ![s].snap = @ \ {j \in w.snap : records[j].db = records[i].db},
                         ![s].fulls = {j \in w.snap : records[j].db = records[i].db},
                         ![s].deleted = {},
                         ![s].cutoff = now - days]
    BY <1>13 DEF SweepGroup
  <2> DEFINE group == {j \in w.snap : records[j].db = records[i].db}
             e == [w EXCEPT !.pc = "candidate", !.snap = @ \ group, !.fulls = group,
                            !.deleted = {}, !.cutoff = now - days]
  <2>2. sweep' = [sweep EXCEPT ![s] = e] /\ del' = [del EXCEPT ![s] = d]
    BY <1>3, <1>13, <2>1 DEF SweepGroup, SweepState
  <2>3. now - days \in Int
    BY <1>1, ConstantsAssumption
  <2>4. e \in SweepState
    BY <1>3, <2>3 DEF SweepState, SweepPc
  <2>5. PICK db \in SqlServer : i \in OnceCompleted(db)
    BY <1>4
  <2>6. group \subseteq OnceCompleted(db)
    BY <1>4, <2>5 DEF OnceCompleted
  <2>7. Good(e, d)
    BY <1>3, <1>4, <1>13, <2>6 DEF SweepGroup, SweepState
  <2> QED
    BY <1>2, <1>5, <1>6, <2>2, <2>4, <2>7
<1>14. CASE SweepCandidate(s)
  <2>1. PICK c \in Remaining(s) :
            /\ Oldest(c, Remaining(s))
            /\ sweep' = [sweep EXCEPT ![s].pc = "verify",
                                      ![s].candidate = c,
                                      ![s].unchecked = Remaining(s) \ {c},
                                      ![s].verified = {}]
    BY <1>14 DEF SweepCandidate
  <2> DEFINE e == [w EXCEPT !.pc = "verify", !.candidate = c,
                            !.unchecked = Remaining(s) \ {c}, !.verified = {}]
  <2>2. sweep' = [sweep EXCEPT ![s] = e] /\ del' = [del EXCEPT ![s] = d]
    BY <1>3, <1>14, <2>1 DEF SweepCandidate, SweepState
  <2>3. Remaining(s) \subseteq w.fulls /\ w.fulls \subseteq RecId
    BY <1>3 DEF Remaining, SweepState
  <2>4. e \in SweepState
    BY <1>3, <2>3 DEF SweepState, SweepPc
  <2>5. \A i \in Remaining(s) \ {c} : i \in w.fulls /\ c < i
    BY <2>1, <2>3 DEF Oldest, RecId
  <2>6. Good(e, d)
    BY <1>3, <1>4, <1>14, <2>3, <2>5 DEF SweepCandidate, SweepState
  <2> QED
    BY <1>2, <1>5, <1>6, <2>2, <2>4, <2>6
<1>15. CASE SweepGroupDone(s) \/ SweepGoldenRule(s) \/ SweepDeleteFailed(s)
  <2> DEFINE e == [IdleSweep EXCEPT !.pc = "groups", !.snap = w.snap]
             f == IF w.pc = "deleting" THEN IdleDel ELSE d
  <2>1. /\ sweep' = [sweep EXCEPT ![s] = e] /\ del' = [del EXCEPT ![s] = f]
        /\ w.pc \in {"candidate", "verify", "deleting"}
    BY <1>3, <1>15 DEF SweepGroupDone, SweepGoldenRule, SweepDeleteFailed, NextGroup
  <2>2. e.pc = "groups" /\ e.snap = w.snap /\ e.fulls = {} /\ e.expired = {}
    BY DEF IdleSweep
  <2>3. f.pc = "idle"
    BY <1>4, <2>1, IdleDelHasType
  <2>4. Good(e, f)
    BY <1>4, <2>2, <2>3
  <2> QED
    BY <1>2, <1>5, <1>6, <1>11, <2>1, <2>4
<1>16. CASE SweepVerify(s) \/ SweepVerifyFail(s)
  <2>1. PICK i \in w.unchecked, v \in SUBSET RecId :
            /\ v \subseteq w.verified \cup {i}
            /\ sweep' = [sweep EXCEPT ![s].unchecked = @ \ {i}, ![s].verified = v]
    <3>1. CASE SweepVerify(s)
      <4>1. PICK i \in w.unchecked :
                sweep' = [sweep EXCEPT
                            ![s].unchecked = @ \ {i},
                            ![s].verified = IF ObjectExists(records[i].fileName)
                                            THEN @ \cup {i} ELSE @]
        BY <3>1 DEF SweepVerify
      <4> DEFINE v == IF ObjectExists(records[i].fileName)
                      THEN w.verified \cup {i} ELSE w.verified
      <4>2. sweep' = [sweep EXCEPT ![s].unchecked = @ \ {i}, ![s].verified = v]
        BY <1>3, <4>1 DEF SweepState
      <4>3. v \in SUBSET RecId /\ v \subseteq w.verified \cup {i}
        BY <1>3 DEF SweepState
      <4> QED
        BY <4>2, <4>3
    <3>2. CASE SweepVerifyFail(s)
      <4>1. PICK i \in w.unchecked : sweep' = [sweep EXCEPT ![s].unchecked = @ \ {i}]
        BY <3>2 DEF SweepVerifyFail
      <4>2. sweep' = [sweep EXCEPT ![s].unchecked = @ \ {i}, ![s].verified = w.verified]
        BY <1>3, <4>1 DEF SweepState
      <4> QED
        BY <1>3, <4>2 DEF SweepState
    <3> QED
      BY <1>16, <3>1, <3>2
  <2> DEFINE e == [w EXCEPT !.unchecked = @ \ {i}, !.verified = v]
  <2>2. sweep' = [sweep EXCEPT ![s] = e] /\ del' = [del EXCEPT ![s] = d] /\ w.pc = "verify"
    BY <1>3, <1>16, <2>1 DEF SweepVerify, SweepVerifyFail, SweepState
  <2>3. e \in SweepState
    BY <1>3 DEF SweepState
  <2>4. /\ e.pc = w.pc /\ e.expired = w.expired /\ e.snap = w.snap /\ e.fulls = w.fulls
        /\ e.candidate = w.candidate
        /\ e.unchecked = w.unchecked \ {i} /\ e.verified = v
    BY <1>3 DEF SweepState
  <2>5. \A k \in e.unchecked \cup e.verified : k \in w.unchecked \cup w.verified
    BY <2>1, <2>4
  <2>6. Good(e, d)
    BY <1>4, <2>2, <2>4, <2>5
  <2> QED
    BY <1>2, <1>5, <1>6, <2>2, <2>3, <2>6
<1>17. CASE SweepDeletes(s)
  <2> DEFINE e == [w EXCEPT !.pc = "deleting"]
  <2>1. sweep' = [sweep EXCEPT ![s] = e] /\ del' = [del EXCEPT ![s] = CallDelete(w.candidate)]
    BY <1>3, <1>17 DEF SweepDeletes, SweepState
  <2>2. e \in SweepState
    BY <1>3 DEF SweepState, SweepPc
  <2>3. w.candidate \in DOMAIN records
    BY <1>4, <1>17 DEF SweepDeletes, OnceCompleted
  <2>4. CallDelete(w.candidate).pc = "find" /\ CallDelete(w.candidate).root.id = w.candidate
    BY <1>1, <2>3, CalledDelete
  <2>5. Good(e, CallDelete(w.candidate))
    BY <1>3, <1>4, <1>17, <2>4 DEF SweepDeletes, SweepState
  <2> QED
    BY <1>2, <1>5, <1>6, <2>1, <2>2, <2>3, <2>5
<1>18. CASE SweepDeleted(s)
  <2> DEFINE e == [w EXCEPT !.pc = "candidate", !.deleted = @ \cup {w.candidate},
                            !.candidate = NoId, !.verified = {}]
  <2>1. sweep' = [sweep EXCEPT ![s] = e] /\ del' = [del EXCEPT ![s] = IdleDel]
    BY <1>3, <1>18 DEF SweepDeleted, SweepState
  <2>2. w.candidate \in RecId
    BY <1>3, <1>4, <1>18 DEF SweepDeleted, SweepState
  <2>3. e \in SweepState
    BY <1>3, <2>2 DEF SweepState, SweepPc
  <2>4. Good(e, IdleDel)
    BY <1>3, <1>4, <1>18, IdleDelHasType DEF SweepDeleted, SweepState
  <2> QED
    BY <1>2, <1>5, <1>6, <2>1, <2>3, <2>4
<1> QED
  BY <1>7, <1>8, <1>9, <1>10, <1>12, <1>13, <1>14, <1>15, <1>16, <1>17, <1>18 DEF SweepStep

-----------------------------------------------------------------------------
(* The inductive invariant. *)

LEMMA InvIsSplit ==
    Inv <=> /\ RecordsOK
            /\ JobsOK
            /\ QueryTypeOK
            /\ SweepTypeOK
            /\ \A p \in Deleters : DelOK(p)
            /\ \A s \in Sweeps : SweepOK(s)
BY DEF Inv, TypeOK, RecordsOK, JobsOK

LEMMA InitHasInv == Init => Inv
<1> SUFFICES ASSUME Init PROVE Inv
  OBVIOUS
<1>1. records = <<>> /\ DOMAIN records = {} /\ bucket = {} /\ now = 0
  BY DEF Init, StoreInit
<1>2. StoreTypeOK
  BY <1>1, EmptySeq DEF StoreTypeOK
<1>3. JobTypeOK /\ \A b \in Backups : JobOK(b)
  BY DEF Init, JobInit, JobTypeOK, IdleJob, JobState, JobPc, JobOK, Active, HasKey
<1>4. QueryTypeOK /\ \A p \in Deleters : DelOK(p) /\ del[p].pc = "idle"
  BY IdleDelHasType DEF Init, QueryInit, QueryTypeOK, DelOK
<1>5. SweepTypeOK /\ \A s \in Sweeps : sweep[s] = IdleSweep
  BY IdleSweepHasType DEF Init, SweepInit, SweepTypeOK
<1>6. \A s \in Sweeps : SweepOK(s)
  BY <1>4, <1>5 DEF SweepOK, IdleSweep, Deleters
<1> QED
  BY <1>1, <1>2, <1>3, <1>4, <1>5, <1>6 DEF Inv, TypeOK

LEMMA BackupPreserves ==
    ASSUME Inv, NEW b \in Backups, Backup(b)
    PROVE  Inv'
<1>1. RecordsOK' /\ JobsOK' /\ Grows /\ UNCHANGED <<del, sweep>>
  BY BackupKeeps, InvIsSplit DEF Backup
<1>2. QueryTypeOK' /\ SweepTypeOK'
  BY <1>1, InvIsSplit DEF QueryTypeOK, SweepTypeOK
<1>3. \A p \in Deleters : DelOK(p)'
  BY <1>1, DeleteStands, InvIsSplit
<1>4. \A s \in Sweeps : SweepOK(s)'
  BY <1>1, SweepStands, InvIsSplit DEF Deleters
<1> QED
  BY <1>1, <1>2, <1>3, <1>4 DEF Inv, TypeOK, RecordsOK, JobsOK

(* What the steps of the deleters have in common: p moves, and the others  *)
(* and every job stand.                                                    *)
LEMMA DeleterPreserves ==
    ASSUME Inv, NEW p \in Deleters, RecordsOK', OnlyExpires, UNCHANGED job,
           QueryTypeOK', SweepTypeOK', DelOK(p)', p \in Sweeps => SweepOK(p)',
           \A q \in Deleters : q # p => del'[q] = del[q],
           \A s \in Sweeps : s # p => sweep'[s] = sweep[s]
    PROVE  Inv'
<1>1. Grows
  BY DEF OnlyExpires
<1>2. JobTypeOK' /\ \A b \in Backups : JobOK(b)'
  BY <1>1, JobsStand, InvIsSplit DEF JobsOK, JobTypeOK, OnlyExpires
<1>3. \A q \in Deleters : DelOK(q)'
  BY <1>1, DeleteStands, InvIsSplit
<1>4. \A s \in Sweeps : SweepOK(s)'
  BY <1>1, SweepStands, InvIsSplit DEF Deleters
<1> QED
  BY <1>2, <1>3, <1>4 DEF Inv, TypeOK, RecordsOK

LEMMA StandsWhole ==
    ASSUME Inv, RecordsOK', OnlyExpires, UNCHANGED <<job, del, sweep>>
    PROVE  Inv'
<1>1. Grows
  BY DEF OnlyExpires
<1>2. JobTypeOK' /\ \A b \in Backups : JobOK(b)'
  BY <1>1, JobsStand, InvIsSplit DEF JobsOK, JobTypeOK, OnlyExpires
<1>3. QueryTypeOK' /\ SweepTypeOK'
  BY InvIsSplit DEF QueryTypeOK, SweepTypeOK
<1>4. \A q \in Deleters : DelOK(q)'
  BY <1>1, DeleteStands, InvIsSplit
<1>5. \A s \in Sweeps : SweepOK(s)'
  BY <1>1, SweepStands, InvIsSplit DEF Deleters
<1> QED
  BY <1>2, <1>3, <1>4, <1>5 DEF Inv, TypeOK, RecordsOK

LEMMA UserPreserves ==
    ASSUME Inv, NEW u \in Users, User(u)
    PROVE  Inv'
<1>1. u \in Deleters /\ u \notin Sweeps /\ UNCHANGED <<job, sweep>>
  BY DeletersAssumption DEF Deleters, User
<1>2. SweepTypeOK'
  BY <1>1, InvIsSplit DEF SweepTypeOK
<1>3. CASE UserDeletes(u) \/ UserReturns(u)
  BY <1>1, <1>2, <1>3, UserKeeps, UnchangedOnlyExpires, DeleterPreserves, InvIsSplit
<1>4. CASE DeleteStep(u)
  BY <1>1, <1>2, <1>4, DeleteKeeps, DeleterPreserves, InvIsSplit
<1> QED
  BY <1>3, <1>4 DEF User

LEMMA SweepPreserves ==
    ASSUME Inv, NEW s \in Sweeps, Sweep(s)
    PROVE  Inv'
<1>1. s \in Deleters /\ UNCHANGED job
  BY DEF Deleters, Sweep
<1>2. CASE SweepBegins(s) \/ SweepStep(s)
  BY <1>1, <1>2, SweepKeeps, UnchangedOnlyExpires, DeleterPreserves, InvIsSplit
<1>3. CASE DeleteStep(s) /\ UNCHANGED sweep
  <2>1. SweepTypeOK'
    BY <1>3, InvIsSplit DEF SweepTypeOK
  <2>2. SweepOK(s)'
    BY <1>1, <1>3, DeleteKeeps, SweepStands, InvIsSplit DEF OnlyExpires
  <2> QED
    BY <1>1, <1>3, <2>1, <2>2, DeleteKeeps, DeleterPreserves, InvIsSplit
<1> QED
  BY <1>2, <1>3 DEF Sweep

LEMMA TickPreserves == Inv /\ Tick => Inv'
<1> SUFFICES ASSUME Inv, Tick PROVE Inv'
  OBVIOUS
<1>1. UNCHANGED <<records, bucket, job, del, sweep>> /\ now' \in Nat
  BY DEF Tick, Inv, TypeOK, StoreTypeOK
<1>2. RecordsOK' /\ OnlyExpires
  BY <1>1, RecordsStand, UnchangedOnlyExpires, InvIsSplit DEF RecordsOK, StoreTypeOK
<1> QED
  BY <1>1, <1>2, StandsWhole

LEMMA CrashPreserves == Inv /\ Crash => Inv'
<1> SUFFICES ASSUME Inv, Crash PROVE Inv'
  OBVIOUS
<1>1. UNCHANGED <<records, bucket, now>>
  BY DEF Crash, storeVars
<1>2. RecordsOK'
  BY <1>1, RecordsStand, InvIsSplit DEF RecordsOK, StoreTypeOK
<1>3. JobTypeOK' /\ \A b \in Backups : JobOK(b)'
  BY DEF Crash, JobTypeOK, IdleJob, JobState, JobPc, JobOK, Active, HasKey
<1>4. QueryTypeOK' /\ \A p \in Deleters : DelOK(p)' /\ del'[p].pc = "idle"
  BY IdleDelHasType DEF Crash, QueryTypeOK, DelOK
<1>5. SweepTypeOK' /\ \A s \in Sweeps : sweep'[s] = IdleSweep
  BY IdleSweepHasType DEF Crash, SweepTypeOK
<1>6. \A s \in Sweeps : SweepOK(s)'
  BY <1>4, <1>5 DEF SweepOK, IdleSweep, Deleters
<1> QED
  BY <1>2, <1>3, <1>4, <1>5, <1>6 DEF Inv, TypeOK, RecordsOK

LEMMA InvInductive == Inv /\ [Next]_vars => Inv'
<1> SUFFICES ASSUME Inv, [Next]_vars PROVE Inv'
  OBVIOUS
<1>1. CASE UNCHANGED vars
  <2>1. UNCHANGED <<records, bucket, now, job, del, sweep>>
    BY <1>1 DEF vars
  <2>2. RecordsOK' /\ OnlyExpires
    BY <2>1, RecordsStand, UnchangedOnlyExpires, InvIsSplit DEF RecordsOK, StoreTypeOK
  <2> QED
    BY <2>1, <2>2, StandsWhole
<1> QED
  BY <1>1, TickPreserves, CrashPreserves, BackupPreserves, UserPreserves, SweepPreserves
  DEF Next

(* Whatever the goroutines do and wherever the process dies, the jobs, the *)
(* deletions and the sweeps know what Inv says of the records: no two jobs *)
(* share a record, a key that a job or a deletion holds is no other        *)
(* record's, a sweep only ever deletes a full that two newer fulls, found  *)
(* in the bucket, followed.                                                *)
THEOREM InvHolds == Spec => []Inv
BY InitHasInv, InvInductive, PTL DEF Spec

(* Records, keys and the locals of the goroutines have their types.        *)
THEOREM TypeCorrect == Spec => []TypeOK
<1>1. Inv => TypeOK
  BY DEF Inv
<1> QED
  BY <1>1, InvHolds, PTL
=============================================================================
