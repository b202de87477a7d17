------------------------ MODULE RestoreSystemProofs ------------------------
(***************************************************************************)
(* Proofs about RestoreSystem, for any number of databases, backups,       *)
(* commits and restores.                                                   *)
(***************************************************************************)
EXTENDS RestoreSystem, FiniteSetTheorems, SequenceTheorems, TLAPS

-----------------------------------------------------------------------------
(* Sequences in order *)

(* A set of numbers can be put in order: by how many lesser ones it has.   *)
LEMMA OrderExists ==
    ASSUME NEW S \in SUBSET Nat, IsFiniteSet(S)
    PROVE  /\ Cardinality(S) \in Nat
           /\ \E seq \in [1..Cardinality(S) -> S] :
                 \A m, n \in 1..Cardinality(S) : m < n => seq[m] < seq[n]
<1> DEFINE size == Cardinality(S)
           Below(x) == {y \in S : y < x}
           place == [x \in S |-> Cardinality(Below(x)) + 1]
<1>1. size \in Nat
  BY FS_CardinalityType
<1>2. ASSUME NEW x \in S
      PROVE  /\ IsFiniteSet(Below(x))
             /\ Cardinality(Below(x)) \in Nat
             /\ Cardinality(Below(x)) <= size - 1
  <2>1. IsFiniteSet(S \ {x}) /\ Cardinality(S \ {x}) = size - 1
    BY FS_RemoveElement
  <2>2. Below(x) \in SUBSET (S \ {x})
    OBVIOUS
  <2>3. IsFiniteSet(Below(x)) /\ Cardinality(Below(x)) <= Cardinality(S \ {x})
    BY <2>1, <2>2, FS_Subset
  <2> QED
    BY <2>1, <2>3, FS_CardinalityType
<1>3. ASSUME NEW x \in S, NEW y \in S, x < y
      PROVE  Cardinality(Below(x)) < Cardinality(Below(y))
  <2>1. IsFiniteSet(Below(y) \ {x}) /\ Cardinality(Below(y) \ {x}) = Cardinality(Below(y)) - 1
    BY <1>2, <1>3, FS_RemoveElement
  <2>2. Below(x) \in SUBSET (Below(y) \ {x})
    <3> SUFFICES ASSUME NEW z \in S, z < x
                 PROVE  z < y /\ z # x
      OBVIOUS
    <3>1. x \in Nat /\ y \in Nat /\ z \in Nat
      OBVIOUS
    <3> QED
      BY <1>3, <3>1
  <2>3. Cardinality(Below(x)) <= Cardinality(Below(y) \ {x})
    BY <2>1, <2>2, FS_Subset
  <2>4. Cardinality(Below(x)) \in Nat /\ Cardinality(Below(y)) \in Nat
    BY <1>2
  <2> HIDE DEF Below
  <2> QED
    BY <2>1, <2>3, <2>4
<1>4. \A x \in S : place[x] = Cardinality(Below(x)) + 1
  OBVIOUS
<1>5. place \in [S -> 1..size]
  <2> HIDE DEF Below, size
  <2> QED
    BY <1>1, <1>2
<1>6. \A x, y \in S : x < y => place[x] < place[y]
  <2> SUFFICES ASSUME NEW x \in S, NEW y \in S, x < y
               PROVE  place[x] < place[y]
    OBVIOUS
  <2>1. Cardinality(Below(x)) \in Nat /\ Cardinality(Below(y)) \in Nat
    BY <1>2
  <2> HIDE DEF Below, place
  <2> QED
    BY <1>3, <1>4, <2>1
<1> HIDE DEF place, size, Below
<1>7. \A x, y \in S : x # y => place[x] # place[y]
  <2> SUFFICES ASSUME NEW x \in S, NEW y \in S, x # y
               PROVE  place[x] # place[y]
    OBVIOUS
  <2>1. (x < y \/ y < x) /\ place[x] \in Nat /\ place[y] \in Nat
    BY <1>5
  <2> QED
    BY <1>6, <2>1
<1>8. place \in Surjection(S, 1..size)
  <2>1. place \in Injection(S, 1..size)
    BY <1>5, <1>7 DEF Injection, IsInjective
  <2>2. IsFiniteSet(1..size) /\ Cardinality(1..size) = size
    BY <1>1, FS_Interval
  <2> QED
    BY <2>1, <2>2, FS_Injection DEF size
<1> DEFINE seq == [m \in 1..size |-> CHOOSE x \in S : place[x] = m]
<1>9. ASSUME NEW m \in 1..size
      PROVE  seq[m] \in S /\ place[seq[m]] = m
  BY <1>8 DEF Surjection
<1>10. seq \in [1..size -> S]
  BY <1>9
<1>11. \A m, n \in 1..size : m < n => seq[m] < seq[n]
  <2> SUFFICES ASSUME NEW m \in 1..size, NEW n \in 1..size, m < n
               PROVE  seq[m] < seq[n]
    OBVIOUS
  <2>1. PICK x \in S, y \in S : x = seq[m] /\ y = seq[n] /\ place[x] = m /\ place[y] = n
    BY <1>9
  <2>2. x \in Nat /\ y \in Nat /\ ~(y < x) /\ x # y
    <3>1. m \in Nat /\ n \in Nat
      BY <1>1
    <3>2. y < x => n < m
      BY <1>6, <2>1
    <3>3. x # y
      BY <2>1, <3>1
    <3> QED
      BY <3>1, <3>2, <3>3
  <2> QED
    BY <2>1, <2>2
<1> HIDE DEF seq
<1> QED
  BY <1>1, <1>10, <1>11 DEF size

LEMMA InOrderIsSorted ==
    ASSUME NEW S \in SUBSET Nat, IsFiniteSet(S)
    PROVE  /\ InOrder(S) \in Seq(S)
           /\ Len(InOrder(S)) = Cardinality(S)
           /\ \A m, n \in 1..Cardinality(S) : m < n => InOrder(S)[m] < InOrder(S)[n]
<1>1. /\ Cardinality(S) \in Nat
      /\ InOrder(S) \in [1..Cardinality(S) -> S]
      /\ \A m, n \in 1..Cardinality(S) : m < n => InOrder(S)[m] < InOrder(S)[n]
  BY OrderExists DEF InOrder
<1>2. InOrder(S) \in Seq(S)
  BY <1>1
<1> QED
  BY <1>1, <1>2, LenProperties

-----------------------------------------------------------------------------
(* The records *)

StoreOK == StoreTypeOK /\ RecordsLinked
JobsOK == JobTypeOK /\ JobsKnown
DelsOK == QueryTypeOK /\ DeletesKnown
RestsOK == RestoreTypeOK /\ RestoresKnown

(* Records are only ever added, and what identifies one never changes.     *)
Grows ==
    /\ DOMAIN records \subseteq DOMAIN records'
    /\ \A i \in DOMAIN records :
          /\ records'[i].db = records[i].db
          /\ records'[i].parent = records[i].parent

(* A log that was started goes on. *)
LogsStay == LogsStarted \subseteq LogsStarted'

LEMMA RecordsHaveTypes ==
    ASSUME StoreOK
    PROVE  /\ records \in Seq(BackupRecord)
           /\ DOMAIN records \subseteq RecId
           /\ \A i \in DOMAIN records : records[i] \in BackupRecord
BY LenProperties, ElementOfSeq DEF RecId, StoreOK, StoreTypeOK

LEMMA LinkStands ==
    ASSUME NEW i \in DOMAIN records, RecordLinked(i), LogsStay,
           DOMAIN records \subseteq DOMAIN records', records'[i] = records[i]
    PROVE  RecordLinked(i)'
BY DEF RecordLinked, IsFull, LogsStay

LEMMA RecordsStand ==
    ASSUME StoreOK, UNCHANGED <<records, now>>, bucket' \subseteq Key, LogsStay
    PROVE  StoreOK' /\ Grows
<1>1. StoreTypeOK' /\ Grows
  BY DEF StoreOK, StoreTypeOK, Grows
<1>2. RecordsLinked'
  BY LinkStands DEF StoreOK, RecordsLinked
<1> QED
  BY <1>1, <1>2 DEF StoreOK

(* A record takes a status, and may get the name of its object.            *)
LEMMA RecordChanges ==
    ASSUME StoreOK, UNCHANGED <<bucket, now>>, LogsStay, NEW i \in DOMAIN records,
           NEW status \in Status, NEW key \in Key \cup {NoKey},
           Update(i, status, key),
           status = "completed" /\ records[i].db \in SqlServer => records[i].db \in LogsStarted,
           key # NoKey => key[1] = records[i].db
    PROVE  StoreOK' /\ Grows
<1> DEFINE rec == records[i]
           new == [rec EXCEPT !.status = status, !.fileName = key]
<1>1. records \in Seq(BackupRecord) /\ rec \in BackupRecord
  BY RecordsHaveTypes
<1>2. new \in BackupRecord
  BY <1>1 DEF BackupRecord
<1>3. /\ new.db = rec.db /\ new.type = rec.type /\ new.parent = rec.parent
      /\ new.status = status /\ new.fileName = key
  BY <1>1 DEF BackupRecord
<1>4. records' = [records EXCEPT ![i] = new]
  BY <1>1 DEF Update, BackupRecord
<1> HIDE DEF new
<1>5. /\ records' \in Seq(BackupRecord)
      /\ DOMAIN records' = DOMAIN records
      /\ records'[i] = new
      /\ \A j \in DOMAIN records : j # i => records'[j] = records[j]
  BY <1>1, <1>2, <1>4, ExceptSeq, LenProperties
<1>6. StoreTypeOK' /\ Grows
  BY <1>3, <1>5 DEF StoreOK, StoreTypeOK, Grows
<1>7. RecordLinked(i)'
  BY <1>3, <1>5 DEF StoreOK, RecordsLinked, RecordLinked, IsFull, LogsStay
<1>8. RecordsLinked'
  BY <1>5, <1>7, LinkStands DEF StoreOK, RecordsLinked
<1> QED
  BY <1>6, <1>8 DEF StoreOK

LEMMA StatusChanges ==
    ASSUME StoreOK, UNCHANGED <<bucket, now>>, LogsStay, NEW i \in DOMAIN records,
           NEW status \in Status \ {"completed"}, UpdateStatus(i, status)
    PROVE  StoreOK' /\ Grows
<1>1. records[i] \in BackupRecord
  BY RecordsHaveTypes
<1>2. PICK key \in Key \cup {NoKey} : key = records[i].fileName
  BY <1>1 DEF BackupRecord
<1>3. Update(i, status, key)
  BY <1>1, <1>2 DEF UpdateStatus, Update, BackupRecord
<1>4. key # NoKey => key[1] = records[i].db
  BY <1>2 DEF StoreOK, RecordsLinked, RecordLinked
<1> QED
  BY <1>3, <1>4, RecordChanges

LEMMA RecordIsNew ==
    ASSUME StoreOK, UNCHANGED <<bucket, now>>, LogsStay, NEW db \in Databases,
           NEW parent \in DOMAIN records \cup {NoId}, NEW days \in RetainDays,
           parent # NoId => db \in LogsStarted,
           Save(NewRecord(db, IF parent = NoId THEN "full" ELSE "log", parent, days))
    PROVE  /\ StoreOK' /\ Grows
           /\ Len(records) + 1 \in DOMAIN records' /\ Len(records) + 1 \in RecId
           /\ records'[Len(records) + 1].db = db
<1> DEFINE type == IF parent = NoId THEN "full" ELSE "log"
<1>0. PICK n : n = Len(records) + 1
  OBVIOUS
<1>1. PICK rec : rec = NewRecord(db, type, parent, days)
  OBVIOUS
<1>2. /\ rec \in BackupRecord /\ rec.db = db /\ rec.type = type /\ rec.parent = parent
      /\ rec.status = "running" /\ rec.fileName = NoKey
  BY <1>1, RecordsHaveTypes, ConstantsAssumption
  DEF NewRecord, BackupRecord, Type, Status, StoreOK, StoreTypeOK
<1>3. /\ records' \in Seq(BackupRecord)
      /\ n \in RecId
      /\ n \notin DOMAIN records
      /\ DOMAIN records' = DOMAIN records \cup {n}
      /\ records'[n] = rec
      /\ \A i \in DOMAIN records : records'[i] = records[i]
  BY <1>0, <1>1, <1>2, RecordsHaveTypes, AppendProperties, LenProperties DEF Save, RecId
<1>4. StoreTypeOK' /\ Grows
  BY <1>3 DEF StoreOK, StoreTypeOK, Grows
<1>5. RecordLinked(n)'
  BY <1>2, <1>3, RecordsHaveTypes DEF RecordLinked, IsFull, LogsStay, NoId, RecId
<1>6. RecordsLinked'
  BY <1>3, <1>5, LinkStands DEF StoreOK, RecordsLinked
<1> QED
  BY <1>0, <1>2, <1>3, <1>4, <1>6 DEF StoreOK

-----------------------------------------------------------------------------
(* Those that do not move keep what they know. *)

LEMMA JobStands ==
    ASSUME NEW b \in Backups, JobKnown(b), job'[b] = job[b], Grows, LogsStay
    PROVE  JobKnown(b)'
BY DEF JobKnown, Grows, LogsStay

LEMMA JobsStand ==
    ASSUME JobsOK, UNCHANGED job, Grows, LogsStay
    PROVE  JobsOK'
BY JobStands DEF JobsOK, JobTypeOK, JobsKnown

LEMMA DelsStand ==
    ASSUME DelsOK, UNCHANGED del, Grows
    PROVE  DelsOK'
BY DEF DelsOK, QueryTypeOK, DeletesKnown, Grows

LEMMA RestsStand ==
    ASSUME RestsOK, UNCHANGED <<restores, restore>>, Grows
    PROVE  RestsOK'
<1>1. RestoreTypeOK'
  BY DEF RestsOK, RestoreTypeOK
<1>2. RestoresKnown'
  BY DEF RestsOK, RestoresKnown, Grows, Busy, Position
<1> QED
  BY <1>1, <1>2 DEF RestsOK

(* What goes on without a dump keeps the data. *)
LEMMA DataKept ==
    ASSUME AdapterTypeOK, KeepData, bucket' \subseteq bucket
    PROVE  AdapterTypeOK' /\ LogsStay
<1>1. /\ UNCHANGED <<commits, history, online, logStart, tmp>>
      /\ contents' = [key \in bucket' |-> contents[key]]
      /\ contents \in [bucket -> Data \cup {NoData}]
  BY DEF KeepData, KeepContents, AdapterTypeOK
<1>2. contents' \in [bucket' -> Data \cup {NoData}]
  BY <1>1
<1> QED
  BY <1>1, <1>2 DEF AdapterTypeOK, LogsStay, LogsStarted

-----------------------------------------------------------------------------
(* Backups *)

LEMMA JobMoves ==
    ASSUME JobsOK, NEW b \in Backups, NEW j \in JobState, job' = [job EXCEPT ![b] = j],
           Grows, LogsStay, JobKnown(b)'
    PROVE  JobsOK'
<1>1. job' \in [Backups -> JobState] /\ \A c \in Backups : c # b => job'[c] = job[c]
  BY DEF JobsOK, JobTypeOK
<1> QED
  BY <1>1, JobStands DEF JobsOK, JobTypeOK, JobsKnown

LEMMA JobGoesOn ==
    ASSUME JobsOK, NEW b \in Backups, NEW pc \in JobPc \ {"idle", "chained"},
           job' = [job EXCEPT ![b].pc = pc], job[b].pc \notin {"idle", "chained"},
           pc \in Dumped => job[b].pc \in Dumped, Grows, LogsStay
    PROVE  JobsOK'
<1> DEFINE j == [job[b] EXCEPT !.pc = pc]
<1>1. job[b] \in JobState /\ job \in [Backups -> JobState] /\ JobKnown(b)
  BY DEF JobsOK, JobTypeOK, JobsKnown
<1>2. /\ j \in JobState /\ j.pc = pc /\ j.id = job[b].id /\ j.db = job[b].db
      /\ j.parent = job[b].parent /\ j.key = job[b].key
  BY <1>1 DEF JobState
<1>3. job' = [job EXCEPT ![b] = j]
  BY <1>1 DEF JobState
<1> HIDE DEF j
<1>4. job'[b] = j
  BY <1>1, <1>3
<1>5. JobKnown(b)'
  BY <1>1, <1>2, <1>4 DEF JobKnown, Grows, LogsStay
<1> QED
  BY <1>2, <1>3, <1>5, JobMoves

LEMMA JobReturns ==
    ASSUME JobsOK, NEW b \in Backups, job' = [job EXCEPT ![b] = IdleJob], Grows, LogsStay
    PROVE  JobsOK'
<1>1. IdleJob \in JobState /\ IdleJob.pc = "idle" /\ IdleJob.parent = NoId
  BY DEF IdleJob, JobState, JobPc
<1>2. job'[b] = IdleJob
  BY DEF JobsOK, JobTypeOK
<1>3. JobKnown(b)'
  BY <1>1, <1>2 DEF JobKnown, Dumped
<1> QED
  BY <1>1, <1>3, JobMoves

LEMMA StartRecordKeeps ==
    ASSUME StoreOK, JobsOK, NEW b \in Backups, NEW db \in Databases,
           NEW parent \in DOMAIN records \cup {NoId}, parent # NoId => db \in LogsStarted,
           StartRecord(b, db, parent), LogsStay
    PROVE  StoreOK' /\ JobsOK' /\ Grows
<1>1. PICK days \in RetainDays :
          Save(NewRecord(db, IF parent = NoId THEN "full" ELSE "log", parent, days))
  BY DEF StartRecord
<1>2. PICK n : n = Len(records) + 1
  OBVIOUS
<1>3. /\ StoreOK' /\ Grows /\ n \in DOMAIN records' /\ n \in RecId
      /\ records'[n].db = db
  BY <1>1, <1>2, RecordIsNew DEF StartRecord
<1> DEFINE j == [pc |-> "dumping", id |-> n, db |-> db, parent |-> parent, key |-> NoKey]
<1>4. job' = [job EXCEPT ![b] = j] /\ job'[b] = j
  BY <1>2 DEF StartRecord, JobsOK, JobTypeOK
<1>5. j \in JobState
  BY <1>3, RecordsHaveTypes DEF JobState, JobPc
<1>6. JobKnown(b)'
  BY <1>3, <1>4 DEF JobKnown, Dumped, Grows, LogsStay
<1> QED
  BY <1>3, <1>4, <1>5, <1>6, JobMoves

(* A dump begins where the log was begun, or at the beginning.             *)
LEMMA DumpHasData ==
    ASSUME JobsOK, AdapterTypeOK, NEW b \in Backups, job[b].pc # "idle"
    PROVE  /\ DumpOf(b) \in Data
           /\ DumpOf(b).db = job[b].db
           /\ JobType(b) \in Type
<1>1. /\ job[b].db \in Databases
      /\ job[b].parent # NoId => job[b].db \in LogsStarted
  BY DEF JobsOK, JobsKnown, JobKnown
<1>2. history[job[b].db] \in Transactions
  BY <1>1 DEF AdapterTypeOK
<1>3. JobType(b) = "log" => logStart[job[b].db] \in Transactions
  BY <1>1 DEF JobType, LogsStarted, AdapterTypeOK
<1>4. <<>> \in Transactions
  BY DEF Transactions
<1> QED
  BY <1>1, <1>2, <1>3, <1>4 DEF DumpOf, Data, JobType, Type

LEMMA AdvanceStarts ==
    ASSUME JobsOK, AdapterTypeOK, NEW b \in Backups, job[b].pc # "idle", AdvanceLog(b)
    PROVE  /\ logStart' \in [SqlServer -> Transactions \cup {NoLog}]
           /\ LogsStay
           /\ job[b].db \in SqlServer => job[b].db \in LogsStarted'
<1>1. PICK db \in Databases : db = job[b].db
  BY DEF JobsOK, JobsKnown, JobKnown
<1>2. history[db] \in Transactions /\ NoLog \notin Transactions
  BY <1>1 DEF AdapterTypeOK, Transactions, NoLog
<1>3. logStart \in [SqlServer -> Transactions \cup {NoLog}]
  BY DEF AdapterTypeOK
<1>4. CASE logStart' = [logStart EXCEPT ![db] = history[db]]
  BY <1>1, <1>2, <1>3, <1>4 DEF LogsStay, LogsStarted
<1>5. CASE UNCHANGED logStart /\ ~(db \in SqlServer /\ logStart[db] = NoLog)
  BY <1>1, <1>3, <1>5 DEF LogsStay, LogsStarted
<1> QED
  BY <1>1, <1>4, <1>5 DEF AdvanceLog

LEMMA StreamHasData ==
    ASSUME JobsOK, AdapterTypeOK, NEW b \in Backups, job[b].pc # "idle"
    PROVE  Stream(b) \subseteq Data \cup {NoData}
<1>1. DumpOf(b) \in Data /\ JobType(b) \in TmpFile
  BY DumpHasData DEF TmpFile
<1>2. tmp[JobType(b)] \in Data \cup {NoData}
  BY <1>1 DEF AdapterTypeOK
<1> QED
  BY <1>1, <1>2 DEF Stream

LEMMA TmpRemoved ==
    ASSUME AdapterTypeOK, NEW b \in Backups, RemoveTmp(b)
    PROVE  tmp' \in [TmpFile -> Data \cup {NoData}]
BY DEF AdapterTypeOK, RemoveTmp

(* What is uploaded stands under its key beside the rest. *)
LEMMA StoredHasData ==
    ASSUME JobsOK, AdapterTypeOK, NEW b \in Backups, job[b].pc # "idle", Stored(b),
           bucket' = bucket \cup {job[b].key}
    PROVE  contents' \in [bucket' -> Data \cup {NoData}]
<1>1. PICK data \in Stream(b) :
          contents' = [key \in bucket' |-> IF key = job[b].key THEN data ELSE contents[key]]
  BY DEF Stored
<1>2. data \in Data \cup {NoData} /\ contents \in [bucket -> Data \cup {NoData}]
  BY StreamHasData DEF AdapterTypeOK
<1> QED
  BY <1>1, <1>2

LEMMA BackupBeginsKeeps ==
    ASSUME StoreOK, JobsOK, NEW b \in Backups, BeginFull(b) \/ BeginLog(b) \/ SaveLog(b),
           LogsStay
    PROVE  StoreOK' /\ JobsOK' /\ Grows
<1>1. job[b] \in JobState /\ job \in [Backups -> JobState] /\ JobKnown(b)
  BY DEF JobsOK, JobTypeOK, JobsKnown
<1>2. CASE BeginFull(b)
  <2>1. PICK db \in Databases : StartRecord(b, db, NoId)
    BY <1>2 DEF BeginFull
  <2> QED
    BY <2>1, StartRecordKeeps
<1>3. CASE SaveLog(b)
  <2>1. /\ job[b].db \in Databases /\ StartRecord(b, job[b].db, job[b].parent)
        /\ job[b].parent \in DOMAIN records \cup {NoId}
        /\ job[b].parent # NoId => job[b].db \in LogsStarted
    BY <1>1, <1>3 DEF SaveLog, JobKnown
  <2> QED
    BY <2>1, StartRecordKeeps
<1>4. CASE BeginLog(b)
  <2>1. PICK db \in SqlServer, full \in DOMAIN records :
            /\ LatestCompletedFull(db, full)
            /\ job' = [job EXCEPT ![b].pc = "chained", ![b].db = db, ![b].parent = full]
            /\ UNCHANGED <<records, bucket, now>>
    BY <1>4 DEF BeginLog
  <2>2. StoreOK' /\ Grows
    BY <2>1, RecordsStand DEF StoreOK, StoreTypeOK
  <2>3. db \in LogsStarted
    BY <2>1 DEF LatestCompletedFull, Newest, CompletedFulls, StoreOK, RecordsLinked, RecordLinked
  <2> DEFINE j == [job[b] EXCEPT !.pc = "chained", !.db = db, !.parent = full]
  <2>4. /\ j \in JobState /\ j.pc = "chained" /\ j.db = db /\ j.parent = full
    BY <1>1, RecordsHaveTypes, ConstantsAssumption DEF JobState, JobPc
  <2>5. job' = [job EXCEPT ![b] = j]
    BY <1>1, <2>1 DEF JobState
  <2> HIDE DEF j
  <2>6. job'[b] = j /\ db \in Databases
    BY <1>1, <2>5, ConstantsAssumption
  <2>7. JobKnown(b)'
    BY <2>1, <2>3, <2>4, <2>6 DEF JobKnown, Dumped, LogsStay
  <2> QED
    BY <2>2, <2>4, <2>5, <2>7, JobMoves
<1> QED
  BY <1>2, <1>3, <1>4

LEMMA DumpKeeps ==
    ASSUME StoreOK, JobsOK, NEW b \in Backups, Dump(b), LogsStay,
           job[b].db \in SqlServer => job[b].db \in LogsStarted'
    PROVE  StoreOK' /\ JobsOK' /\ Grows
<1>1. job[b] \in JobState /\ job \in [Backups -> JobState] /\ JobKnown(b)
  BY DEF JobsOK, JobTypeOK, JobsKnown
<1>2. StoreOK' /\ Grows /\ now \in Nat
  BY RecordsStand DEF Dump, StoreOK, StoreTypeOK
<1>3. PICK key : key = <<job[b].db, JobType(b), Stamp(b)>>
  OBVIOUS
<1>4. key \in Key /\ key[1] = job[b].db
  <2>1. job[b].db \in Databases /\ job[b].id \in Nat
    BY <1>1, RecordsHaveTypes DEF Dump, JobKnown, RecId
  <2>2. Stamp(b) \in Nat /\ JobType(b) \in Type
    BY <1>2, <2>1 DEF Stamp, JobType, Type
  <2> QED
    BY <1>3, <2>1, <2>2 DEF Key
<1> DEFINE j == [job[b] EXCEPT !.pc = "uploading", !.key = key]
<1>5. /\ j \in JobState /\ j.pc = "uploading" /\ j.key = key /\ j.id = job[b].id
      /\ j.db = job[b].db /\ j.parent = job[b].parent
  BY <1>1, <1>4 DEF JobState, JobPc
<1>6. job' = [job EXCEPT ![b] = j]
  BY <1>1, <1>3 DEF Dump, JobState
<1> HIDE DEF j
<1>7. job'[b] = j
  BY <1>1, <1>6
<1>8. JobKnown(b)'
  BY <1>1, <1>2, <1>4, <1>5, <1>7 DEF JobKnown, Grows, LogsStay, Dump
<1> QED
  BY <1>2, <1>5, <1>6, <1>8, JobMoves

(* The rest of a backup, its data aside. *)
LEMMA BackupEndsKeeps ==
    ASSUME StoreOK, JobsOK, NEW b \in Backups, LogsStay,
           \/ job[b].pc = "dumping" /\ job' = [job EXCEPT ![b].pc = "failing"]
                /\ UNCHANGED <<records, bucket, now>>
           \/ Upload(b) \/ UploadFail(b) \/ Close(b) \/ CloseFail(b)
           \/ Discard(b) \/ Fail(b) \/ Complete(b)
    PROVE  StoreOK' /\ JobsOK' /\ Grows
<1>1. job[b] \in JobState /\ job \in [Backups -> JobState] /\ JobKnown(b)
  BY DEF JobsOK, JobTypeOK, JobsKnown
<1>2. ASSUME NEW pc \in {"failing", "closing", "completing", "discarding"},
             job' = [job EXCEPT ![b].pc = pc], job[b].pc \notin {"idle", "chained"},
             pc # "failing" => job[b].pc \in Dumped,
             UNCHANGED <<records, now>>, bucket' \subseteq Key
      PROVE  StoreOK' /\ JobsOK' /\ Grows
  <2>1. StoreOK' /\ Grows
    BY <1>2, RecordsStand
  <2>2. pc \in JobPc \ {"idle", "chained"} /\ (pc \in Dumped => job[b].pc \in Dumped)
    BY <1>2 DEF JobPc, Dumped
  <2> QED
    BY <1>2, <2>1, <2>2, JobGoesOn
<1>3. bucket \subseteq Key /\ (job[b].pc \in Dumped => job[b].key \in Key)
  BY <1>1 DEF StoreOK, StoreTypeOK, JobKnown
<1>4. CASE job[b].pc = "dumping" /\ job' = [job EXCEPT ![b].pc = "failing"]
              /\ UNCHANGED <<records, bucket, now>>
  BY <1>2, <1>3, <1>4
<1>5. CASE Upload(b) \/ UploadFail(b)
  BY <1>2, <1>3, <1>5 DEF Upload, UploadFail, PutObject, Dumped
<1>6. CASE Close(b) \/ CloseFail(b)
  BY <1>2, <1>3, <1>6 DEF Close, CloseFail, Dumped
<1>7. CASE Discard(b)
  BY <1>2, <1>3, <1>7 DEF Discard, DeleteObject, Dumped
<1>8. CASE Fail(b)
  <2>1. job[b].id \in DOMAIN records /\ UpdateStatus(job[b].id, "failed")
    BY <1>1, <1>8 DEF Fail, JobKnown
  <2>2. PICK i \in DOMAIN records : i = job[b].id
    BY <2>1
  <2>3. StoreOK' /\ Grows
    BY <1>8, <2>1, <2>2, StatusChanges DEF Fail, Status
  <2> QED
    BY <1>8, <2>3, JobReturns DEF Fail
<1>9. CASE Complete(b)
  <2>1. /\ job[b].id \in DOMAIN records /\ Update(job[b].id, "completed", job[b].key)
        /\ job[b].key \in Key /\ job[b].key[1] = job[b].db
        /\ records[job[b].id].db = job[b].db
        /\ job[b].db \in SqlServer => job[b].db \in LogsStarted
    BY <1>1, <1>9 DEF Complete, JobKnown, Dumped
  <2>2. PICK i \in DOMAIN records, key \in Key : i = job[b].id /\ key = job[b].key
    BY <2>1
  <2>3. StoreOK' /\ Grows
    BY <1>9, <2>1, <2>2, RecordChanges DEF Complete, Status
  <2> QED
    BY <1>9, <2>3, JobReturns DEF Complete
<1> QED
  BY <1>4, <1>5, <1>6, <1>7, <1>8, <1>9

LEMMA BackupKeeps ==
    ASSUME StoreOK, JobsOK, AdapterTypeOK, NEW b \in Backups, BackupRuns(b)
    PROVE  StoreOK' /\ JobsOK' /\ AdapterTypeOK' /\ Grows
<1> USE DEF BackupRuns, AdapterStep
<1>1. CASE (BeginFull(b) \/ BeginLog(b) \/ SaveLog(b)) /\ KeepData
  <2>1. bucket' = bucket
    BY <1>1 DEF BeginFull, BeginLog, SaveLog, StartRecord
  <2> QED
    BY <1>1, <2>1, DataKept, BackupBeginsKeeps
<1>2. CASE BackupRefused(b) \/ BackupFails(b)
  <2>1. /\ job[b].pc = "dumping" /\ job' = [job EXCEPT ![b].pc = "failing"]
        /\ UNCHANGED <<records, bucket, now>> /\ KeepData
    BY <1>2 DEF BackupRefused, BackupFails, DumpFail
  <2> QED
    BY <2>1, DataKept, BackupEndsKeeps
<1>3. CASE (Discard(b) \/ Fail(b) \/ Complete(b)) /\ KeepData
  <2>1. bucket' \subseteq bucket
    BY <1>3 DEF Discard, Fail, Complete, DeleteObject
  <2> QED
    BY <1>3, <2>1, DataKept, BackupEndsKeeps
<1>4. CASE BackupToDisk(b)
  <2>1. job[b].pc # "idle" /\ UNCHANGED bucket
    BY <1>4 DEF BackupToDisk, Dump
  <2>2. /\ logStart' \in [SqlServer -> Transactions \cup {NoLog}]
        /\ LogsStay /\ (job[b].db \in SqlServer => job[b].db \in LogsStarted')
    BY <1>4, <2>1, AdvanceStarts DEF BackupToDisk
  <2>3. tmp' \in [TmpFile -> Data \cup {NoData}]
    BY <1>4, <2>1, DumpHasData DEF BackupToDisk, AdapterTypeOK
  <2>4. AdapterTypeOK'
    BY <1>4, <2>1, <2>2, <2>3 DEF BackupToDisk, AdapterTypeOK
  <2> QED
    BY <1>4, <2>2, <2>4, DumpKeeps DEF BackupToDisk
<1>5. CASE UploadStream(b) \/ UploadStreamFails(b)
  <2>1. job[b].pc # "idle" /\ UNCHANGED dbVars
    BY <1>5 DEF UploadStream, UploadStreamFails, Upload, UploadFail
  <2>2. tmp' \in [TmpFile -> Data \cup {NoData}]
    BY <1>5, TmpRemoved DEF UploadStream, UploadStreamFails, AdapterTypeOK
  <2>3. contents' \in [bucket' -> Data \cup {NoData}]
    <3>1. CASE UNCHANGED <<contents, bucket>>
      BY <3>1 DEF AdapterTypeOK
    <3>2. CASE Stored(b) /\ bucket' = bucket \cup {job[b].key}
      BY <2>1, <3>2, StoredHasData
    <3> QED
      BY <1>5, <3>1, <3>2
      DEF UploadStream, UploadStreamFails, Upload, UploadFail, PutObject
  <2>4. AdapterTypeOK' /\ LogsStay
    BY <2>1, <2>2, <2>3 DEF AdapterTypeOK, dbVars, LogsStay, LogsStarted
  <2> QED
    BY <1>5, <2>4, BackupEndsKeeps DEF UploadStream, UploadStreamFails
<1>6. CASE CloseReader(b)
  <2>1. UNCHANGED <<dbVars, contents, bucket>> /\ (Close(b) \/ CloseFail(b))
    BY <1>6 DEF CloseReader, Close, CloseFail
  <2>2. tmp' \in [TmpFile -> Data \cup {NoData}]
    BY <1>6, TmpRemoved DEF CloseReader
  <2>3. AdapterTypeOK' /\ LogsStay
    BY <2>1, <2>2 DEF AdapterTypeOK, dbVars, LogsStay, LogsStarted
  <2> QED
    BY <2>1, <2>3, BackupEndsKeeps
<1> QED
  BY <1>1, <1>2, <1>3, <1>4, <1>5, <1>6

-----------------------------------------------------------------------------
(* The applications, and the users who delete *)

LEMMA CommitKeeps ==
    ASSUME AdapterTypeOK, NEW db \in Databases, Application(db)
    PROVE  AdapterTypeOK' /\ LogsStay
<1> USE DEF AdapterTypeOK, Application, Commit
<1>1. history[db] \in Transactions /\ commits \in 0..MaxCommits /\ commits < MaxCommits
  OBVIOUS
<1>2. MaxCommits \in Nat
  BY AdapterAssumption
<1>3. commits + 1 \in 1..MaxCommits /\ commits' \in 0..MaxCommits
  BY <1>1, <1>2
<1>4. Append(history[db], commits + 1) \in Transactions
  BY <1>1, <1>3 DEF Transactions
<1>5. history' \in [Databases -> Transactions]
  BY <1>4
<1>6. LogsStay
  BY DEF LogsStay, LogsStarted
<1> QED
  BY <1>3, <1>5, <1>6

LEMMA DelMoves ==
    ASSUME DelsOK, NEW p \in Deleters, NEW d \in DelState, del' = [del EXCEPT ![p] = d],
           Grows,
           d.pc # "idle" => d.root.id \in DOMAIN records,
           \A kid \in d.kids : kid.id \in DOMAIN records,
           d.pc = "mark" => d.cur.id \in DOMAIN records
    PROVE  DelsOK'
<1>1. /\ del' \in [Deleters -> DelState] /\ del'[p] = d
      /\ \A q \in Deleters : q # p => del'[q] = del[q]
  BY DEF DelsOK, QueryTypeOK
<1> QED
  BY <1>1 DEF DelsOK, QueryTypeOK, DeletesKnown, Grows

LEMMA UserKeeps ==
    ASSUME StoreOK, DelsOK, NEW u \in Users, LogsStay,
           UserDeletes(u) \/ DeleteStep(u) \/ UserReturns(u)
    PROVE  StoreOK' /\ DelsOK' /\ Grows /\ bucket' \subseteq bucket
<1>1. u \in Deleters /\ del \in [Deleters -> DelState] /\ del[u] \in DelState
  BY DEF Deleters, DelsOK, QueryTypeOK
<1>2. /\ del[u].pc # "idle" => del[u].root.id \in DOMAIN records
      /\ \A kid \in del[u].kids : kid.id \in DOMAIN records
      /\ del[u].pc = "mark" => del[u].cur.id \in DOMAIN records
  BY <1>1 DEF DelsOK, DeletesKnown
<1>3. del[u].pc # "idle" => del[u].root \in Target
  BY <1>1, <1>2, RecordsHaveTypes DEF DelState, NoTarget, RecId, NoId
<1>4. UNCHANGED <<records, now>> /\ bucket' \subseteq bucket => StoreOK' /\ Grows
  BY RecordsStand DEF StoreOK, StoreTypeOK
<1>5. CASE UserDeletes(u)
  <2>1. PICK i \in DOMAIN records : del' = [del EXCEPT ![u] = CallDelete(i)]
    BY <1>5 DEF UserDeletes
  <2>2. i \in RecId /\ [id |-> i, key |-> NoKey] \in Target
    BY RecordsHaveTypes DEF Target
  <2>3. CallDelete(i) \in DelState
    BY <2>2 DEF CallDelete, IdleDel, DelState, DelPc
  <2>4. CallDelete(i).pc = "find" /\ CallDelete(i).root.id = i /\ CallDelete(i).kids = {}
    BY DEF CallDelete, IdleDel
  <2> QED
    BY <1>1, <1>4, <1>5, <2>1, <2>3, <2>4, DelMoves DEF UserDeletes
<1>6. CASE UserReturns(u)
  <2>1. IdleDel \in DelState /\ IdleDel.pc = "idle" /\ IdleDel.kids = {}
    BY DEF IdleDel, DelState, DelPc
  <2> QED
    BY <1>1, <1>4, <1>6, <2>1, DelMoves DEF UserReturns
<1>7. CASE DeleteFind(u)
  <2>1. PICK i \in DOMAIN records : i = del[u].root.id
    BY <1>2, <1>7 DEF DeleteFind
  <2>2. PICK key \in Key \cup {NoKey} : key = records[i].fileName
    BY RecordsHaveTypes DEF BackupRecord
  <2>3. PICK pc \in {"list", "cascade"}, owed \in SUBSET RecId :
            del' = [del EXCEPT ![u].root.key = key, ![u].owed = owed, ![u].pc = pc]
    <3>1. CompletedChildren(i) \in SUBSET RecId
      BY RecordsHaveTypes DEF CompletedChildren, FindChildren
    <3> QED
      BY <1>7, <2>1, <2>2, <3>1 DEF DeleteFind
  <2> DEFINE d == [del[u] EXCEPT !.root.key = key, !.owed = owed, !.pc = pc]
  <2>4. del[u].root \in Target
    BY <1>3, <1>7 DEF DeleteFind
  <2>5. /\ d \in DelState /\ d.pc = pc /\ d.root.id = i /\ d.kids = del[u].kids
    BY <1>1, <2>1, <2>4 DEF DelState, DelPc, Target
  <2>6. del' = [del EXCEPT ![u] = d]
    BY <1>1, <2>3 DEF DelState
  <2> HIDE DEF d
  <2>7. StoreOK' /\ Grows /\ bucket' \subseteq bucket
    BY <1>4, <1>7 DEF DeleteFind
  <2> QED
    BY <1>1, <1>2, <2>1, <2>5, <2>6, <2>7, DelMoves
<1>8. CASE DeleteList(u)
  <2>1. PICK kids : kids = {[id |-> j, key |-> records[j].fileName] :
                               j \in FindChildren(del[u].root.id)}
    OBVIOUS
  <2>2. \A kid \in kids : kid \in Target /\ kid.id \in DOMAIN records
    BY <2>1, RecordsHaveTypes DEF FindChildren, Target, BackupRecord
  <2> DEFINE d == [del[u] EXCEPT !.kids = kids, !.pc = "cascade"]
  <2>3. d \in DelState /\ d.pc = "cascade" /\ d.root = del[u].root /\ d.kids = kids
    BY <1>1, <2>2 DEF DelState, DelPc
  <2>4. del' = [del EXCEPT ![u] = d]
    BY <1>1, <1>8, <2>1 DEF DeleteList, DelState
  <2> HIDE DEF d
  <2>5. StoreOK' /\ Grows /\ bucket' \subseteq bucket /\ del[u].pc # "idle"
    BY <1>4, <1>8 DEF DeleteList
  <2> QED
    BY <1>1, <1>2, <2>2, <2>3, <2>4, <2>5, DelMoves
<1>9. CASE DeleteObjectOf(u) \/ DeleteObjectSkipped(u)
  <2>0. del[u].pc = "cascade"
    BY <1>9 DEF DeleteObjectOf, DeleteObjectSkipped
  <2>1. PICK one \in NextTargets(u), asked \in BOOLEAN :
            del' = [del EXCEPT ![u].pc = "mark", ![u].cur = one, ![u].kids = @ \ {one},
                               ![u].asked = asked]
    BY <1>9 DEF DeleteObjectOf, DeleteObjectSkipped
  <2>2. one \in Target /\ one.id \in DOMAIN records
    BY <1>1, <1>2, <1>3, <2>0 DEF NextTargets, DelState
  <2> DEFINE d == [del[u] EXCEPT !.pc = "mark", !.cur = one, !.kids = @ \ {one},
                                 !.asked = asked]
  <2>3. /\ d \in DelState /\ d.pc = "mark" /\ d.root = del[u].root
        /\ d.cur = one /\ d.kids \subseteq del[u].kids
    BY <1>1, <2>2 DEF DelState, DelPc
  <2>4. del' = [del EXCEPT ![u] = d]
    BY <1>1, <2>1 DEF DelState
  <2> HIDE DEF d
  <2>5. StoreOK' /\ Grows /\ bucket' \subseteq bucket
    BY <1>4, <1>9 DEF DeleteObjectOf, DeleteObjectSkipped, DeleteObject
  <2> QED
    BY <1>1, <1>2, <2>0, <2>2, <2>3, <2>4, <2>5, DelMoves
<1>10. ASSUME NEW pc \in {"err", "ok", "cascade"}, del' = [del EXCEPT ![u].pc = pc],
              del[u].pc # "idle", Grows
       PROVE  DelsOK'
  <2> DEFINE d == [del[u] EXCEPT !.pc = pc]
  <2>1. d \in DelState /\ d.pc = pc /\ d.root = del[u].root /\ d.kids = del[u].kids
    BY <1>1 DEF DelState, DelPc
  <2>2. del' = [del EXCEPT ![u] = d]
    BY <1>1, <1>10 DEF DelState
  <2> HIDE DEF d
  <2> QED
    BY <1>1, <1>2, <1>10, <2>1, <2>2, DelMoves
<1>11. CASE DeleteObjectFail(u)
  <2>1. StoreOK' /\ Grows /\ bucket' \subseteq bucket
    BY <1>4, <1>11 DEF DeleteObjectFail, DeleteObject
  <2> QED
    BY <1>10, <1>11, <2>1 DEF DeleteObjectFail
<1>12. CASE DeleteMark(u)
  <2>1. del[u].cur.id \in DOMAIN records /\ UNCHANGED <<bucket, now>>
    BY <1>2, <1>12 DEF DeleteMark
  <2>2. PICK i \in DOMAIN records : i = del[u].cur.id
    BY <2>1
  <2>3. StoreOK' /\ Grows
    BY <1>12, <2>1, <2>2, StatusChanges DEF DeleteMark, Status
  <2> QED
    BY <1>10, <1>12, <2>1, <2>3 DEF DeleteMark
<1> QED
  BY <1>5, <1>6, <1>7, <1>8, <1>9, <1>11, <1>12 DEF DeleteStep

-----------------------------------------------------------------------------
(* Restores *)

(* A chain is one link or more, each a record with its object.             *)
LEMMA ChainHasLinks ==
    ASSUME StoreOK, NEW i \in DOMAIN records, NEW key \in Key \cup {NoKey}
    PROVE  BuildChain(i, key) \in Seq(Link) /\ Len(BuildChain(i, key)) >= 1
<1>1. /\ DOMAIN records \subseteq RecId /\ IsFiniteSet(DOMAIN records)
      /\ \A j \in DOMAIN records : records[j] \in BackupRecord
  <2>1. DOMAIN records = 1..Len(records) /\ Len(records) \in Nat
    BY RecordsHaveTypes, LenProperties DEF StoreOK, StoreTypeOK
  <2>2. IsFiniteSet(1..Len(records))
    BY <2>1, FS_Interval
  <2> QED
    BY <2>1, <2>2, RecordsHaveTypes
<1>2. CASE IsFull(i) \/ records[i].db \notin SqlServer
  <2>1. BuildChain(i, key) = << [id |-> i, key |-> key] >>
    BY <1>2 DEF BuildChain
  <2>2. [id |-> i, key |-> key] \in Link
    BY <1>1 DEF Link
  <2> QED
    BY <2>1, <2>2
<1>3. CASE ~(IsFull(i) \/ records[i].db \notin SqlServer)
  <2>1. PICK full \in DOMAIN records : full = records[i].parent
    BY <1>3 DEF StoreOK, RecordsLinked, RecordLinked
  <2>2. PICK S : S = {j \in LogsOf(full) : j <= i}
    OBVIOUS
  <2>3. S \in SUBSET DOMAIN records /\ S \in SUBSET Nat /\ IsFiniteSet(S)
    <3>1. S \in SUBSET DOMAIN records
      BY <2>2 DEF LogsOf, FindChildren
    <3> QED
      BY <1>1, <3>1, FS_Subset DEF RecId
  <2>4. LogsUpTo(full, i) \in Seq(S)
    BY <2>2, <2>3, InOrderIsSorted DEF LogsUpTo
  <2>5. PICK ids : ids = <<full>> \o LogsUpTo(full, i)
    OBVIOUS
  <2>6. ids \in Seq(DOMAIN records) /\ Len(ids) >= 1
    <3>1. LogsUpTo(full, i) \in Seq(DOMAIN records)
      BY <2>3, <2>4
    <3>2. <<full>> \in Seq(DOMAIN records) /\ Len(<<full>>) = 1
      OBVIOUS
    <3> QED
      BY <2>5, <3>1, <3>2, ConcatProperties, LenProperties
  <2>7. BuildChain(i, key) =
            [n \in DOMAIN ids |-> [id |-> ids[n], key |-> records[ids[n]].fileName]]
    BY <1>3, <2>1, <2>5 DEF BuildChain
  <2>8. \A n \in DOMAIN ids :
            ids[n] \in RecId /\ records[ids[n]].fileName \in Key \cup {NoKey}
    BY <1>1, <2>6, ElementOfSeq, LenProperties DEF BackupRecord
  <2>9. BuildChain(i, key) \in [1..Len(ids) -> Link]
    BY <2>6, <2>7, <2>8, LenProperties DEF Link
  <2>10. Len(ids) \in Nat
    BY <2>6, LenProperties
  <2> QED
    BY <2>6, <2>9, <2>10, LenProperties, SeqDef
<1> QED
  BY <1>2, <1>3

(* One restore goes on, the others know what they knew. *)
RestoreKnown(r) ==
    /\ restore[r].todo \subseteq DOMAIN records
    /\ restore[r].pc \in {"next", "chain"} => restore[r].ids = <<>>
    /\ Busy(r) => restore[r].rec \in DOMAIN restores
    /\ restore[r].pc = "download" => Position(r) < Len(restore[r].chain)
    /\ restore[r].pc = "apply" => Position(r) \in 1..Len(restore[r].chain)

LEMMA RestoreMoves ==
    ASSUME RestsOK, NEW r \in Restorers, NEW s \in RestoreState,
           restore' = [restore EXCEPT ![r] = s], RestoreKnown(r)', Grows,
           restores' \in Seq(RestoreRecord), DOMAIN restores \subseteq DOMAIN restores',
           \A k \in DOMAIN restores' : restores'[k].target \in DOMAIN records
    PROVE  RestsOK'
<1>1. /\ restore' \in [Restorers -> RestoreState] /\ restore'[r] = s
      /\ \A q \in Restorers : q # r => restore'[q] = restore[q]
  BY DEF RestsOK, RestoreTypeOK
<1>2. RestoreTypeOK'
  BY <1>1 DEF RestoreTypeOK
<1>3. ASSUME NEW q \in Restorers, q # r
      PROVE  RestoreKnown(q)'
  BY <1>1, <1>3 DEF RestsOK, RestoresKnown, RestoreKnown, Busy, Position, Grows
<1>4. RestoresKnown'
  BY <1>3 DEF RestoresKnown, RestoreKnown, Grows
<1> QED
  BY <1>2, <1>4 DEF RestsOK

(* A step of a restore that leaves the records of the restores alone.      *)
LEMMA RestoreGoesOn ==
    ASSUME RestsOK, NEW r \in Restorers, NEW s \in RestoreState,
           restore' = [restore EXCEPT ![r] = s], UNCHANGED restores, Grows,
           s.todo \subseteq DOMAIN records,
           s.pc \in {"next", "chain"} => s.ids = <<>>,
           s.pc \notin {"idle", "next"} => s.rec \in DOMAIN restores,
           s.pc = "download" => Len(s.ids) < Len(s.chain),
           s.pc = "apply" => Len(s.ids) \in 1..Len(s.chain)
    PROVE  RestsOK'
<1>1. restore'[r] = s
  BY DEF RestsOK, RestoreTypeOK
<1>2. RestoreKnown(r)'
  BY <1>1 DEF RestoreKnown, Busy, Position, Grows
<1> QED
  BY <1>2, RestoreMoves DEF RestsOK, RestoreTypeOK, RestoresKnown

LEMMA RestoreHasTypes ==
    ASSUME RestsOK, NEW r \in Restorers
    PROVE  /\ restore \in [Restorers -> RestoreState]
           /\ restore[r] \in RestoreState
           /\ RestoreKnown(r)
           /\ Busy(r) => /\ restores[restore[r].rec] \in RestoreRecord
                         /\ TargetId(r) \in DOMAIN records
                         /\ TargetDb(r) \in Databases
<1>1. restore \in [Restorers -> RestoreState] /\ restores \in Seq(RestoreRecord)
  BY DEF RestsOK, RestoreTypeOK
<1>2. RestoreKnown(r)
  BY DEF RestsOK, RestoresKnown, RestoreKnown
<1>3. ASSUME Busy(r)
      PROVE  /\ restores[restore[r].rec] \in RestoreRecord
             /\ TargetId(r) \in DOMAIN records
             /\ TargetDb(r) \in Databases
  <2>1. restore[r].rec \in DOMAIN restores
    BY <1>2, <1>3 DEF RestoreKnown
  <2>2. restores[restore[r].rec] \in RestoreRecord
    BY <1>1, <2>1, ElementOfSeq, LenProperties
  <2>3. TargetId(r) \in DOMAIN records
    BY <2>1 DEF RestsOK, RestoresKnown, TargetId
  <2> QED
    BY <2>2, <2>3 DEF TargetDb, RestoreRecord
<1> QED
  BY <1>1, <1>2, <1>3

LEMMA IdleRestoreHasType ==
    IdleRestore \in RestoreState
BY DEF IdleRestore, RestoreState, RestorePc

LEMMA RestoreAskedKeeps ==
    ASSUME RestsOK, StoreOK, NEW r \in Restorers, RestoreAsked(r)
    PROVE  RestsOK' /\ StoreOK' /\ Grows
<1>1. PICK s : /\ restore' = [restore EXCEPT ![r] = s]
               /\ s \in RestoreState /\ s.todo \subseteq DOMAIN records
               /\ s.pc = "next" /\ s.ids = <<>>
  <2>1. CASE UserRestores(r)
    <3>1. PICK i \in DOMAIN records :
              restore' = [restore EXCEPT ![r] = [IdleRestore EXCEPT !.pc = "next", !.todo = {i}]]
      BY <2>1 DEF UserRestores
    <3> DEFINE s == [IdleRestore EXCEPT !.pc = "next", !.todo = {i}]
    <3>2. {i} \in SUBSET RecId
      BY RecordsHaveTypes
    <3>3. s \in RestoreState /\ s.pc = "next" /\ s.todo = {i} /\ s.ids = <<>>
      BY <3>2, IdleRestoreHasType DEF IdleRestore, RestoreState, RestorePc
    <3>4. restore' = [restore EXCEPT ![r] = s]
      BY <3>1
    <3> HIDE DEF s
    <3> QED
      BY <3>3, <3>4
  <2>2. CASE UserRestoresAll(r)
    <3> DEFINE s == [IdleRestore EXCEPT !.pc = "next", !.all = TRUE, !.todo = RestorePoints]
    <3>1. RestorePoints \in SUBSET RecId /\ RestorePoints \subseteq DOMAIN records
      BY RecordsHaveTypes DEF RestorePoints
    <3>2. s \in RestoreState /\ s.pc = "next" /\ s.todo = RestorePoints /\ s.ids = <<>>
      BY <3>1, IdleRestoreHasType DEF IdleRestore, RestoreState, RestorePc
    <3>3. restore' = [restore EXCEPT ![r] = s]
      BY <2>2 DEF UserRestoresAll
    <3> HIDE DEF s
    <3> QED
      BY <3>1, <3>2, <3>3
  <2> QED
    BY <2>1, <2>2 DEF RestoreAsked
<1>2. UNCHANGED <<records, bucket, now, restores>> /\ KeepData
  BY DEF RestoreAsked, UserRestores, UserRestoresAll, backupVars
<1>3. StoreOK' /\ Grows
  BY <1>2, RecordsStand DEF KeepData, LogsStay, LogsStarted, StoreOK, StoreTypeOK
<1> QED
  BY <1>1, <1>2, <1>3, RestoreGoesOn

(* What is read of a download, or of the temporary file it went to.        *)
LEMMA IncomingHasData ==
    ASSUME RestsOK, AdapterTypeOK, NEW r \in Restorers
    PROVE  /\ RestoreFile(Position(r)) \in TmpFile
           /\ Incoming(r) \in Data \cup {NoData}
<1>1. RestoreFile(Position(r)) \in TmpFile
  BY DEF RestoreFile, TmpFile
<1>2. restore[r].data \in Data \cup {NoData}
  BY RestoreHasTypes DEF RestoreState
<1> QED
  BY <1>1, <1>2 DEF Incoming, AdapterTypeOK

LEMMA RestoreDataKeeps ==
    ASSUME RestsOK, AdapterTypeOK, NEW r \in Restorers, RestoreApply(r)
    PROVE  AdapterTypeOK' /\ LogsStay
<1>1. PICK db \in Databases : db = TargetDb(r)
  BY RestoreHasTypes DEF RestoreApply, Busy
<1>2. PICK data \in Data \cup {NoData} : data = Incoming(r)
  BY IncomingHasData
<1>3. data.to \in Transactions
  <2>1. data.db = db
    BY <1>1, <1>2 DEF RestoreApply, Accepted, AcceptsFull, AcceptsLog
  <2>2. data # NoData
    BY <2>1, AdapterAssumption DEF NoData
  <2> QED
    BY <2>2 DEF Data
<1>4. history' \in [Databases -> Transactions]
  <2>1. PICK to \in {data.to, history[db]} : history' = [history EXCEPT ![db] = to]
    BY <1>1, <1>2 DEF RestoreApply, RestoreData
  <2>2. history \in [Databases -> Transactions]
    BY DEF AdapterTypeOK
  <2> QED
    BY <1>3, <2>1, <2>2
<1>5. online' \subseteq Databases
  BY <1>1 DEF RestoreApply, RestoreData, AdapterTypeOK
<1>6. logStart' \in [SqlServer -> Transactions \cup {NoLog}] /\ LogsStay
  <2>1. logStart \in [SqlServer -> Transactions \cup {NoLog}]
    BY DEF AdapterTypeOK
  <2>2. NoLog \notin Transactions
    BY DEF NoLog, Transactions
  <2>3. logStart' = IF db \in SqlServer THEN [logStart EXCEPT ![db] = data.to] ELSE logStart
    BY <1>1, <1>2 DEF RestoreApply, RestoreData
  <2> QED
    BY <1>3, <2>1, <2>2, <2>3 DEF LogsStay, LogsStarted
<1>7. tmp' \in [TmpFile -> Data \cup {NoData}]
  BY DEF RestoreApply, RemoveRestoreFile, SendToContainer, AdapterTypeOK
<1>8. UNCHANGED <<commits, contents, bucket>>
  BY DEF RestoreApply, RestoreData, backupVars
<1> QED
  BY <1>4, <1>5, <1>6, <1>7, <1>8 DEF AdapterTypeOK

LEMMA RestoreDownloadKeeps ==
    ASSUME StoreOK, RestsOK, AdapterTypeOK, NEW r \in Restorers, RestoreDownload(r)
    PROVE  RestsOK' /\ AdapterTypeOK' /\ LogsStay /\ Grows
<1> DEFINE n == Position(r) + 1
<1>0. restore[r] \in RestoreState /\ restore \in [Restorers -> RestoreState] /\ RestoreKnown(r)
  BY RestoreHasTypes
<1>1. PICK link : link = restore[r].chain[n]
  OBVIOUS
<1>2. PICK ids : ids = Append(restore[r].ids, link.id)
  OBVIOUS
<1>3. /\ link \in Link /\ restore[r].chain \in Seq(Link)
      /\ n \in 1..Len(restore[r].chain)
  BY <1>0, <1>1, ElementOfSeq, LenProperties
  DEF RestoreDownload, RestoreState, RestoreKnown, Position
<1>4. ids \in Seq(RecId) /\ Len(ids) = n
  BY <1>0, <1>2, <1>3, AppendProperties DEF RestoreState, Link, Position
<1>5. UNCHANGED <<records, bucket, now, job, restores, contents>> /\ UNCHANGED dbVars
  BY DEF RestoreDownload, backupVars
<1>6. LogsStay /\ Grows
  BY <1>5 DEF dbVars, LogsStay, LogsStarted, Grows
<1>7. restore[r].todo \subseteq DOMAIN records /\ restore[r].rec \in DOMAIN restores
  BY <1>0 DEF RestoreDownload, RestoreKnown, Busy
<1>8. CASE /\ ObjectExists(link.key)
           /\ restore' = [restore EXCEPT ![r].pc = "apply", ![r].ids = ids,
                                         ![r].data = contents[link.key]]
           /\ SendToContainer(r, RestoreFile(Len(ids)), contents[link.key])
  <2>1. PICK data \in Data \cup {NoData} : data = contents[link.key]
    BY <1>8 DEF ObjectExists, AdapterTypeOK
  <2> DEFINE s == [restore[r] EXCEPT !.pc = "apply", !.ids = ids, !.data = data]
  <2>2. /\ s \in RestoreState /\ s.pc = "apply" /\ s.ids = ids
        /\ s.todo = restore[r].todo /\ s.rec = restore[r].rec /\ s.chain = restore[r].chain
    BY <1>0, <1>4 DEF RestoreState, RestorePc
  <2>3. restore' = [restore EXCEPT ![r] = s]
    BY <1>0, <1>8, <2>1 DEF RestoreState
  <2> HIDE DEF s
  <2>4. RestsOK'
    BY <1>3, <1>4, <1>5, <1>6, <1>7, <2>2, <2>3, RestoreGoesOn
  <2>5. tmp' \in [TmpFile -> Data \cup {NoData}]
    BY <1>8, <2>1 DEF SendToContainer, AdapterTypeOK
  <2> QED
    BY <1>5, <1>6, <2>4, <2>5 DEF AdapterTypeOK, dbVars
<1>9. CASE /\ restore' = [restore EXCEPT ![r].pc = "finish", ![r].ids = ids, ![r].err = TRUE]
           /\ UNCHANGED tmp
  <2> DEFINE s == [restore[r] EXCEPT !.pc = "finish", !.ids = ids, !.err = TRUE]
  <2>1. /\ s \in RestoreState /\ s.pc = "finish"
        /\ s.todo = restore[r].todo /\ s.rec = restore[r].rec
    BY <1>0, <1>4 DEF RestoreState, RestorePc
  <2>2. restore' = [restore EXCEPT ![r] = s]
    BY <1>0, <1>9 DEF RestoreState
  <2> HIDE DEF s
  <2>3. RestsOK'
    BY <1>5, <1>6, <1>7, <2>1, <2>2, RestoreGoesOn
  <2> QED
    BY <1>5, <1>6, <1>9, <2>3 DEF AdapterTypeOK, dbVars
<1> QED
  BY <1>1, <1>2, <1>8, <1>9 DEF RestoreDownload

(* The engine took the dump in, or did not. *)
LEMMA RestoreAppliesKeeps ==
    ASSUME StoreOK, RestsOK, AdapterTypeOK, NEW r \in Restorers,
           RestoreApply(r) \/ RestoreApplyFails(r)
    PROVE  RestsOK' /\ AdapterTypeOK' /\ LogsStay /\ Grows
<1>1. restore[r] \in RestoreState /\ restore \in [Restorers -> RestoreState] /\ RestoreKnown(r)
  BY RestoreHasTypes
<1>2. /\ UNCHANGED <<records, bucket, now, job, restores>>
      /\ restore[r].pc = "apply" /\ Grows
  BY DEF RestoreApply, RestoreApplyFails, backupVars, Grows
<1>3. restore[r].todo \subseteq DOMAIN records /\ restore[r].rec \in DOMAIN restores
  BY <1>1, <1>2 DEF RestoreKnown, Busy
<1>4. CASE RestoreApply(r)
  <2>1. PICK pc \in {"finish", "download"} :
            /\ pc = IF IsLast(r) THEN "finish" ELSE "download"
            /\ restore' = [restore EXCEPT ![r].pc = pc, ![r].done = restore[r].ids]
    BY <1>4 DEF RestoreApply
  <2> DEFINE s == [restore[r] EXCEPT !.pc = pc, !.done = restore[r].ids]
  <2>2. /\ s \in RestoreState /\ s.pc = pc /\ s.todo = restore[r].todo
        /\ s.rec = restore[r].rec /\ s.ids = restore[r].ids /\ s.chain = restore[r].chain
    BY <1>1 DEF RestoreState, RestorePc
  <2>3. restore' = [restore EXCEPT ![r] = s]
    BY <1>1, <2>1 DEF RestoreState
  <2>4. pc = "download" => Len(restore[r].ids) < Len(restore[r].chain)
    BY <1>1, <1>2, <2>1, LenProperties DEF RestoreKnown, IsLast, Position, RestoreState
  <2> HIDE DEF s
  <2>5. RestsOK'
    BY <1>2, <1>3, <2>2, <2>3, <2>4, RestoreGoesOn
  <2> QED
    BY <1>2, <1>4, <2>5, RestoreDataKeeps
<1>5. CASE RestoreApplyFails(r)
  <2> DEFINE s == [restore[r] EXCEPT !.pc = "finish", !.err = TRUE]
  <2>1. /\ s \in RestoreState /\ s.pc = "finish"
        /\ s.todo = restore[r].todo /\ s.rec = restore[r].rec
    BY <1>1 DEF RestoreState, RestorePc
  <2>2. restore' = [restore EXCEPT ![r] = s]
    BY <1>1, <1>5 DEF RestoreState, RestoreApplyFails
  <2> HIDE DEF s
  <2>3. RestsOK'
    BY <1>2, <1>3, <2>1, <2>2, RestoreGoesOn
  <2>4. /\ tmp' \in [TmpFile -> Data \cup {NoData}]
        /\ online' \subseteq Databases
        /\ UNCHANGED <<commits, history, logStart, contents>>
    BY <1>5 DEF RestoreApplyFails, RemoveRestoreFile, SendToContainer, AdapterTypeOK
  <2> QED
    BY <1>2, <2>3, <2>4 DEF AdapterTypeOK, LogsStay, LogsStarted
<1> QED
  BY <1>4, <1>5

(* A restore starts its record, finds its chain or no storage, and says in *)
(* its record how it ended.                                                *)
LEMMA RestoreCallKeeps ==
    ASSUME StoreOK, RestsOK, NEW r \in Restorers, Grows, UNCHANGED records,
           \/ RestoreReturns(r) \/ RestoreStarts(r) \/ RestoreChain(r)
           \/ RestoreNoStorage(r) \/ RestoreFinish(r)
    PROVE  RestsOK'
<1>1. restore[r] \in RestoreState /\ restore \in [Restorers -> RestoreState] /\ RestoreKnown(r)
  BY RestoreHasTypes
<1>2. /\ restores \in Seq(RestoreRecord)
      /\ \A k \in DOMAIN restores : restores[k].target \in DOMAIN records
  BY DEF RestsOK, RestoreTypeOK, RestoresKnown
<1>3. restore[r].todo \subseteq DOMAIN records
  BY <1>1 DEF RestoreKnown
<1>4. CASE RestoreReturns(r)
  <2>1. /\ IdleRestore.pc = "idle" /\ IdleRestore.todo = {}
    BY DEF IdleRestore
  <2> QED
    BY <1>4, <2>1, IdleRestoreHasType, RestoreGoesOn DEF RestoreReturns
<1>5. CASE RestoreStarts(r)
  <2>1. PICK i \in restore[r].todo :
            /\ restores' = Append(restores, [db |-> records[i].db, target |-> i,
                                             status |-> "running", chain |-> <<>>])
            /\ restore' = [restore EXCEPT ![r].pc = "chain",
                                          ![r].todo = restore[r].todo \ {i},
                                          ![r].rec = Len(restores) + 1,
                                          ![r].key = records[i].fileName]
    BY <1>5 DEF RestoreStarts
  <2>2. PICK n : n = Len(restores) + 1
    OBVIOUS
  <2>3. PICK new : new = [db |-> records[i].db, target |-> i,
                          status |-> "running", chain |-> <<>>]
    OBVIOUS
  <2>4. PICK key \in Key \cup {NoKey} : key = records[i].fileName
    BY <1>3, RecordsHaveTypes DEF BackupRecord
  <2>5. new \in RestoreRecord /\ new.target = i
    BY <1>3, <2>3, RecordsHaveTypes DEF RestoreRecord, BackupRecord, Status
  <2>6. /\ restores' \in Seq(RestoreRecord) /\ n \in Nat
        /\ DOMAIN restores' = DOMAIN restores \cup {n}
        /\ restores'[n] = new /\ n \notin DOMAIN restores
        /\ \A k \in DOMAIN restores : restores'[k] = restores[k]
    BY <1>2, <2>1, <2>2, <2>3, <2>5, AppendProperties, LenProperties
  <2> DEFINE s == [restore[r] EXCEPT !.pc = "chain", !.todo = restore[r].todo \ {i},
                                     !.rec = n, !.key = key]
  <2>7. /\ s \in RestoreState /\ s.pc = "chain" /\ s.todo = restore[r].todo \ {i}
        /\ s.rec = n /\ s.ids = restore[r].ids
    BY <1>1, <2>6 DEF RestoreState, RestorePc
  <2>8. restore' = [restore EXCEPT ![r] = s]
    BY <1>1, <2>1, <2>2, <2>4 DEF RestoreState
  <2> HIDE DEF s
  <2>9. restore'[r] = s /\ restore[r].ids = <<>>
    BY <1>1, <1>5, <2>8 DEF RestoreKnown, RestoreStarts
  <2>10. RestoreKnown(r)'
    BY <1>3, <2>6, <2>7, <2>9 DEF RestoreKnown, Busy, Position
  <2>11. \A k \in DOMAIN restores' : restores'[k].target \in DOMAIN records
    BY <1>2, <1>3, <2>5, <2>6
  <2> QED
    BY <2>6, <2>7, <2>8, <2>10, <2>11, RestoreMoves
<1>6. CASE RestoreChain(r)
  <2>1. /\ restore[r].rec \in DOMAIN restores /\ TargetId(r) \in DOMAIN records
        /\ restore[r].ids = <<>> /\ restore[r].key \in Key \cup {NoKey}
    BY <1>1, <1>6, RestoreHasTypes DEF RestoreChain, RestoreKnown, Busy, RestoreState
  <2>2. PICK chain : chain = BuildChain(TargetId(r), restore[r].key)
    OBVIOUS
  <2>3. chain \in Seq(Link) /\ Len(chain) >= 1
    BY <2>1, <2>2, ChainHasLinks
  <2> DEFINE s == [restore[r] EXCEPT !.pc = "download", !.chain = chain]
  <2>4. /\ s \in RestoreState /\ s.pc = "download" /\ s.todo = restore[r].todo
        /\ s.rec = restore[r].rec /\ s.ids = restore[r].ids /\ s.chain = chain
    BY <1>1, <2>3 DEF RestoreState, RestorePc
  <2>5. restore' = [restore EXCEPT ![r] = s]
    BY <1>1, <1>6, <2>2 DEF RestoreChain, RestoreState
  <2> HIDE DEF s
  <2>6. Len(s.ids) = 0 /\ Len(chain) \in Nat
    BY <2>1, <2>3, <2>4, LenProperties
  <2>7. Len(s.ids) < Len(s.chain)
    BY <2>3, <2>4, <2>6
  <2> QED
    BY <1>3, <1>6, <2>1, <2>4, <2>5, <2>7, RestoreGoesOn DEF RestoreChain
<1>7. CASE RestoreNoStorage(r)
  <2>1. restore[r].rec \in DOMAIN restores
    BY <1>1, <1>7 DEF RestoreNoStorage, RestoreKnown, Busy
  <2> DEFINE s == [restore[r] EXCEPT !.pc = "finish", !.err = TRUE]
  <2>2. /\ s \in RestoreState /\ s.pc = "finish"
        /\ s.todo = restore[r].todo /\ s.rec = restore[r].rec
    BY <1>1 DEF RestoreState, RestorePc
  <2>3. restore' = [restore EXCEPT ![r] = s]
    BY <1>1, <1>7 DEF RestoreState, RestoreNoStorage
  <2> HIDE DEF s
  <2> QED
    BY <1>3, <1>7, <2>1, <2>2, <2>3, RestoreGoesOn DEF RestoreNoStorage
<1>8. CASE RestoreFinish(r)
  <2>1. PICK k \in DOMAIN restores : k = restore[r].rec
    BY <1>1, <1>8 DEF RestoreFinish, RestoreKnown, Busy
  <2>2. PICK status \in Status : status = IF restore[r].err THEN "failed" ELSE "completed"
    BY DEF Status
  <2>3. PICK ids \in Seq(RecId) : ids = restore[r].ids
    BY <1>1 DEF RestoreState
  <2> DEFINE new == [restores[k] EXCEPT !.status = status, !.chain = ids]
  <2>4. restores[k] \in RestoreRecord
    BY <1>2, ElementOfSeq, LenProperties
  <2>5. new \in RestoreRecord /\ new.target = restores[k].target
    BY <2>4 DEF RestoreRecord
  <2>6. restores' = [restores EXCEPT ![k] = new]
    BY <1>8, <2>1, <2>2, <2>3, <2>4 DEF RestoreFinish, RestoreRecord
  <2> HIDE DEF new
  <2>7. /\ restores' \in Seq(RestoreRecord) /\ DOMAIN restores' = DOMAIN restores
        /\ restores'[k] = new /\ \A n \in DOMAIN restores : n # k => restores'[n] = restores[n]
    BY <1>2, <2>5, <2>6, ExceptSeq, LenProperties
  <2> DEFINE s == NextCall(r)
  <2>8. s \in RestoreState /\ s.pc = "next" /\ s.todo = restore[r].todo /\ s.ids = <<>>
    BY <1>1, IdleRestoreHasType DEF NextCall, IdleRestore, RestoreState, RestorePc
  <2>9. restore' = [restore EXCEPT ![r] = s]
    BY <1>8 DEF RestoreFinish
  <2> HIDE DEF s
  <2>10. restore'[r] = s
    BY <1>1, <2>9
  <2>11. RestoreKnown(r)'
    BY <1>3, <2>8, <2>10 DEF RestoreKnown, Busy, Position
  <2>12. \A n \in DOMAIN restores' : restores'[n].target \in DOMAIN records
    BY <1>2, <2>5, <2>7
  <2> QED
    BY <2>7, <2>8, <2>9, <2>11, <2>12, RestoreMoves
<1> QED
  BY <1>4, <1>5, <1>6, <1>7, <1>8

LEMMA RestoreKeeps ==
    ASSUME StoreOK, RestsOK, AdapterTypeOK, NEW r \in Restorers, RestoreStep(r)
    PROVE  StoreOK' /\ RestsOK' /\ AdapterTypeOK' /\ LogsStay /\ Grows
<1>1. UNCHANGED <<records, bucket, now>>
  BY DEF RestoreStep, RestoreReturns, RestoreStarts, RestoreChain, RestoreNoStorage,
         RestoreDownload, RestoreApply, RestoreApplyFails, RestoreFinish, backupVars
<1>2. Grows
  BY <1>1 DEF Grows
<1>3. LogsStay => StoreOK'
  BY <1>1, RecordsStand DEF StoreOK, StoreTypeOK
<1>4. CASE \/ RestoreReturns(r) \/ RestoreStarts(r) \/ RestoreChain(r)
           \/ RestoreNoStorage(r) \/ RestoreFinish(r)
  <2>1. KeepData
    BY <1>4 DEF RestoreReturns, RestoreStarts, RestoreChain, RestoreNoStorage, RestoreFinish
  <2>2. AdapterTypeOK' /\ LogsStay
    BY <1>1, <2>1, DataKept
  <2> QED
    BY <1>1, <1>2, <1>3, <1>4, <2>2, RestoreCallKeeps
<1>5. CASE RestoreDownload(r)
  BY <1>2, <1>3, <1>5, RestoreDownloadKeeps
<1>6. CASE RestoreApply(r) \/ RestoreApplyFails(r)
  BY <1>2, <1>3, <1>6, RestoreAppliesKeeps
<1> QED
  BY <1>4, <1>5, <1>6 DEF RestoreStep

-----------------------------------------------------------------------------
(* The first invariant *)

LEMMA RestoreInvParts ==
    RestoreInv <=> /\ StoreOK /\ JobsOK /\ DelsOK /\ RestsOK
                   /\ AdapterTypeOK /\ HistoryTypeOK
BY DEF RestoreInv, TypeOK, StoreOK, JobsOK, DelsOK, RestsOK

LEMMA HistoryKept ==
    ASSUME HistoryTypeOK, JobsOK', [Next]_vars
    PROVE  HistoryTypeOK'
<1>1. CASE \E b \in Backups : BackupRuns(b)
  <2>1. overlapped' = overlapped \cup Overlap'
    BY <1>1 DEF BackupRuns
  <2>2. \A b \in Backups : job'[b].id \in RecId \cup {NoId}
    BY DEF JobsOK, JobTypeOK, JobState
  <2>3. Overlap' \subseteq RecId \cup {NoId}
    BY <2>2 DEF Overlap
  <2> QED
    BY <2>1, <2>3 DEF HistoryTypeOK
<1>2. CASE UNCHANGED overlapped
  BY <1>2 DEF HistoryTypeOK
<1> QED
  BY <1>1, <1>2 DEF Next, Application, UserActs, RestoreAsked, RestoreRuns, Crash, vars

LEMMA RestoreInvStarts ==
    ASSUME Init
    PROVE  RestoreInv
<1>1. StoreOK
  BY EmptySeq DEF Init, StoreInit, StoreOK, StoreTypeOK, RecordsLinked
<1>2. JobsOK
  <2>1. IdleJob \in JobState /\ IdleJob.pc = "idle" /\ IdleJob.parent = NoId
    BY DEF IdleJob, JobState, JobPc
  <2>2. job = [b \in Backups |-> IdleJob]
    BY DEF Init, JobInit
  <2> QED
    BY <2>1, <2>2 DEF JobsOK, JobTypeOK, JobsKnown, JobKnown, Dumped
<1>3. DelsOK
  <2>1. IdleDel \in DelState /\ IdleDel.pc = "idle" /\ IdleDel.kids = {}
    BY DEF IdleDel, DelState, DelPc
  <2>2. del = [p \in Deleters |-> IdleDel]
    BY DEF Init, QueryInit
  <2> QED
    BY <2>1, <2>2 DEF DelsOK, QueryTypeOK, DeletesKnown
<1>4. RestsOK
  <2>1. IdleRestore.pc = "idle" /\ IdleRestore.todo = {}
    BY DEF IdleRestore
  <2>2. restore = [r \in Restorers |-> IdleRestore] /\ restores = <<>>
    BY DEF Init, RestoreInit
  <2> QED
    BY <2>1, <2>2, IdleRestoreHasType, EmptySeq
    DEF RestsOK, RestoreTypeOK, RestoresKnown, Busy
<1>5. AdapterTypeOK
  <2>1. <<>> \in Transactions /\ 0 \in 0..MaxCommits
    BY AdapterAssumption DEF Transactions
  <2>2. bucket = {} /\ AdapterInit
    BY DEF Init, StoreInit
  <2>3. contents \in [bucket -> Data \cup {NoData}]
    BY <2>2 DEF AdapterInit
  <2> QED
    BY <2>1, <2>2, <2>3 DEF AdapterInit, AdapterTypeOK
<1>6. HistoryTypeOK
  BY DEF Init, HistoryTypeOK
<1> QED
  BY <1>1, <1>2, <1>3, <1>4, <1>5, <1>6, RestoreInvParts

LEMMA CrashKeeps ==
    ASSUME RestoreInv, Crash
    PROVE  RestoreInv' /\ Grows
<1>1. StoreOK /\ AdapterTypeOK /\ RestsOK
  BY RestoreInvParts
<1>2. UNCHANGED <<records, bucket, now, restores>> /\ KeepData
  BY DEF Crash
<1>3. StoreOK' /\ AdapterTypeOK' /\ Grows
  BY <1>1, <1>2, DataKept, RecordsStand DEF StoreOK, StoreTypeOK
<1>4. JobsOK'
  <2>1. IdleJob \in JobState /\ IdleJob.pc = "idle" /\ IdleJob.parent = NoId
    BY DEF IdleJob, JobState, JobPc
  <2>2. job' = [b \in Backups |-> IdleJob]
    BY DEF Crash
  <2> QED
    BY <2>1, <2>2 DEF JobsOK, JobTypeOK, JobsKnown, JobKnown, Dumped
<1>5. DelsOK'
  <2>1. IdleDel \in DelState /\ IdleDel.pc = "idle" /\ IdleDel.kids = {}
    BY DEF IdleDel, DelState, DelPc
  <2>2. del' = [p \in Deleters |-> IdleDel]
    BY DEF Crash
  <2> QED
    BY <2>1, <2>2 DEF DelsOK, QueryTypeOK, DeletesKnown
<1>6. RestsOK'
  <2>1. IdleRestore.pc = "idle" /\ IdleRestore.todo = {}
    BY DEF IdleRestore
  <2>2. restore' = [r \in Restorers |-> IdleRestore]
    BY DEF Crash
  <2>3. RestoreTypeOK'
    BY <1>1, <1>2, <2>2, IdleRestoreHasType DEF RestsOK, RestoreTypeOK
  <2>4. RestoresKnown'
    BY <1>1, <1>2, <2>1, <2>2 DEF RestsOK, RestoresKnown, Busy
  <2> QED
    BY <2>3, <2>4 DEF RestsOK
<1>7. StoreOK' /\ JobsOK' /\ DelsOK' /\ RestsOK' /\ AdapterTypeOK' /\ HistoryTypeOK'
  <2>1. HistoryTypeOK'
    BY RestoreInvParts DEF Crash, HistoryTypeOK
  <2> QED
    BY <1>3, <1>4, <1>5, <1>6, <2>1
<1> QED
  BY <1>3, <1>7 DEF RestoreInv, TypeOK, StoreOK, JobsOK, DelsOK, RestsOK

LEMMA RestoreInvKept ==
    ASSUME RestoreInv, [Next]_vars
    PROVE  RestoreInv' /\ Grows
<1>1. StoreOK /\ JobsOK /\ DelsOK /\ RestsOK /\ AdapterTypeOK
  BY RestoreInvParts
<1>2. ASSUME StoreOK', JobsOK', DelsOK', RestsOK', AdapterTypeOK'
      PROVE  RestoreInv'
  <2>1. HistoryTypeOK'
    BY <1>2, HistoryKept, RestoreInvParts
  <2> QED
    BY <1>2, <2>1 DEF RestoreInv, TypeOK, StoreOK, JobsOK, DelsOK, RestsOK
<1>3. CASE \E db \in Databases : Application(db)
  <2>1. AdapterTypeOK' /\ LogsStay /\ UNCHANGED <<records, bucket, now, job, del>>
        /\ UNCHANGED <<restores, restore>>
    BY <1>1, <1>3, CommitKeeps DEF Application
  <2>2. StoreOK' /\ Grows
    BY <1>1, <2>1, RecordsStand DEF StoreOK, StoreTypeOK
  <2> QED
    BY <1>1, <1>2, <2>1, <2>2, JobsStand, DelsStand, RestsStand
<1>4. CASE \E b \in Backups : BackupRuns(b)
  <2>1. PICK b \in Backups : BackupRuns(b)
    BY <1>4
  <2>2. StoreOK' /\ JobsOK' /\ AdapterTypeOK' /\ Grows
    BY <1>1, <2>1, BackupKeeps
  <2>3. UNCHANGED <<del, restores, restore>>
    BY <2>1 DEF BackupRuns
  <2> QED
    BY <1>1, <1>2, <2>2, <2>3, DelsStand, RestsStand
<1>5. CASE \E u \in Users : UserActs(u)
  <2>1. PICK u \in Users : UserActs(u)
    BY <1>5
  <2>2. /\ UserDeletes(u) \/ DeleteStep(u) \/ UserReturns(u)
        /\ KeepData /\ LogsStay /\ UNCHANGED <<job, restores, restore>>
    BY <2>1 DEF UserActs, KeepData, LogsStay, LogsStarted
  <2>3. StoreOK' /\ DelsOK' /\ Grows /\ bucket' \subseteq bucket
    BY <1>1, <2>2, UserKeeps
  <2> QED
    BY <1>1, <1>2, <2>2, <2>3, DataKept, JobsStand, RestsStand
<1>6. CASE \E r \in Restorers : RestoreAsked(r)
  <2>1. PICK r \in Restorers : RestoreAsked(r)
    BY <1>6
  <2>2. KeepData /\ UNCHANGED <<records, bucket, now, job, del>>
    BY <2>1 DEF RestoreAsked, UserRestores, UserRestoresAll, backupVars
  <2>3. AdapterTypeOK' /\ LogsStay
    BY <1>1, <2>2, DataKept
  <2>4. RestsOK' /\ StoreOK' /\ Grows
    BY <1>1, <2>1, RestoreAskedKeeps
  <2> QED
    BY <1>1, <1>2, <2>2, <2>3, <2>4, JobsStand, DelsStand
<1>7. CASE \E r \in Restorers : RestoreRuns(r)
  <2>1. PICK r \in Restorers : RestoreRuns(r)
    BY <1>7
  <2>2. StoreOK' /\ RestsOK' /\ AdapterTypeOK' /\ LogsStay /\ Grows
    BY <1>1, <2>1, RestoreKeeps DEF RestoreRuns
  <2>3. UNCHANGED <<job, del>>
    BY <2>1
    DEF RestoreRuns, RestoreStep, RestoreReturns, RestoreStarts, RestoreChain, RestoreNoStorage,
        RestoreDownload, RestoreApply, RestoreApplyFails, RestoreFinish, backupVars
  <2> QED
    BY <1>1, <1>2, <2>2, <2>3, JobsStand, DelsStand
<1>8. CASE Crash
  BY <1>8, CrashKeeps
<1>9. CASE UNCHANGED vars
  <2>1. UNCHANGED <<records, bucket, now, job, del, restores, restore>>
        /\ UNCHANGED <<commits, history, online, logStart, tmp, contents>>
    BY <1>9 DEF vars
  <2>2. LogsStay /\ AdapterTypeOK'
    BY <1>1, <2>1 DEF LogsStay, LogsStarted, AdapterTypeOK
  <2>3. StoreOK' /\ Grows
    BY <1>1, <2>1, <2>2, RecordsStand DEF StoreOK, StoreTypeOK
  <2> QED
    BY <1>1, <1>2, <2>1, <2>2, <2>3, JobsStand, DelsStand, RestsStand
<1> QED
  BY <1>3, <1>4, <1>5, <1>6, <1>7, <1>8, <1>9 DEF Next

(* Everything a backup, a deletion or a restore refers to is there: a log  *)
(* has its full, and its database a log that was begun; a restore has its  *)
(* record and stands within its chain, which is never empty; what was      *)
(* dumped, downloaded or restored is data of a database.                   *)
THEOREM RestoreInvHolds ==
    Spec => []RestoreInv
<1>1. Init => RestoreInv
  BY RestoreInvStarts
<1>2. RestoreInv /\ [Next]_vars => RestoreInv'
  BY RestoreInvKept
<1> QED
  BY <1>1, <1>2, PTL DEF Spec

-----------------------------------------------------------------------------
(* The records of the restores *)

(* What a restore does to the records: nothing, but when it starts its own *)
(* and when it closes it.                                                  *)
LEMMA RestoreRecordsChange ==
    ASSUME RestsOK, NEW r \in Restorers, RestoreAsked(r) \/ RestoreStep(r)
    PROVE  /\ \A q \in Restorers : q # r => restore'[q] = restore[q]
           /\ \/ ~Busy(r) /\ UNCHANGED restores
              \/ /\ Busy(r) /\ Busy(r)' /\ UNCHANGED restores
                 /\ restore'[r].rec = restore[r].rec
              \/ RestoreStarts(r)
              \/ RestoreFinish(r)
<1>1. restore \in [Restorers -> RestoreState] /\ restore[r] \in RestoreState
  BY RestoreHasTypes
<1>2. CASE RestoreAsked(r) \/ RestoreReturns(r)
  BY <1>1, <1>2 DEF RestoreAsked, UserRestores, UserRestoresAll, RestoreReturns, Busy
<1>3. CASE RestoreStarts(r)
  BY <1>1, <1>3 DEF RestoreStarts
<1>4. CASE RestoreFinish(r)
  BY <1>1, <1>4 DEF RestoreFinish
<1>5. CASE RestoreChain(r) \/ RestoreNoStorage(r)
  BY <1>1, <1>5 DEF RestoreChain, RestoreNoStorage, Busy, RestoreState
<1>6. CASE RestoreDownload(r)
  <2>1. PICK ids, data :
            \/ restore' = [restore EXCEPT ![r].pc = "apply", ![r].ids = ids, ![r].data = data]
            \/ restore' = [restore EXCEPT ![r].pc = "finish", ![r].ids = ids, ![r].err = TRUE]
    BY <1>6 DEF RestoreDownload
  <2>2. UNCHANGED restores /\ restore[r].pc = "download"
    BY <1>6 DEF RestoreDownload
  <2> QED
    BY <1>1, <2>1, <2>2 DEF Busy, RestoreState
<1>7. CASE RestoreApply(r)
  <2>1. PICK pc \in {"finish", "download"} :
            restore' = [restore EXCEPT ![r].pc = pc, ![r].done = restore[r].ids]
    BY <1>7 DEF RestoreApply
  <2>2. UNCHANGED restores /\ restore[r].pc = "apply"
    BY <1>7 DEF RestoreApply
  <2> QED
    BY <1>1, <2>1, <2>2 DEF Busy, RestoreState
<1>8. CASE RestoreApplyFails(r)
  BY <1>1, <1>8 DEF RestoreApplyFails, Busy, RestoreState
<1> QED
  BY <1>2, <1>3, <1>4, <1>5, <1>6, <1>7, <1>8 DEF RestoreStep

(* A restore that starts adds its record; the others stand.                *)
LEMMA StartsRecord ==
    ASSUME RestsOK, StoreOK, NEW r \in Restorers, RestoreStarts(r)
    PROVE  /\ ~Busy(r) /\ Busy(r)'
           /\ restore[r].pc = "next" /\ restore'[r].pc = "chain"
           /\ restore'[r].rec = Len(restores) + 1
           /\ restore'[r].ids = restore[r].ids /\ restore'[r].done = restore[r].done
           /\ restore'[r].err = restore[r].err
           /\ Len(restores) \in Nat /\ DOMAIN restores = 1..Len(restores)
           /\ Len(restores') = Len(restores) + 1
           /\ DOMAIN restores' = 1..(Len(restores) + 1)
           /\ restores'[Len(restores) + 1].status = "running"
           /\ \A k \in DOMAIN restores : restores'[k] = restores[k]
<1>1. /\ restore \in [Restorers -> RestoreState] /\ restore[r] \in RestoreState
      /\ restores \in Seq(RestoreRecord)
      /\ restore[r].todo \subseteq DOMAIN records
  BY RestoreHasTypes DEF RestoreKnown, RestsOK, RestoreTypeOK
<1>2. PICK i \in restore[r].todo :
          /\ restores' = Append(restores, [db |-> records[i].db, target |-> i,
                                           status |-> "running", chain |-> <<>>])
          /\ restore' = [restore EXCEPT ![r].pc = "chain", ![r].todo = restore[r].todo \ {i},
                                        ![r].rec = Len(restores) + 1,
                                        ![r].key = records[i].fileName]
  BY DEF RestoreStarts
<1>3. PICK n : n = Len(restores) + 1
  OBVIOUS
<1>4. PICK new : new = [db |-> records[i].db, target |-> i,
                        status |-> "running", chain |-> <<>>]
  OBVIOUS
<1>5. new.status = "running" /\ new \in RestoreRecord
  BY <1>1, <1>4, RecordsHaveTypes DEF RestoreRecord, BackupRecord, Status
<1>6. /\ Len(restores) \in Nat /\ DOMAIN restores = 1..Len(restores)
      /\ Len(restores') = n /\ DOMAIN restores' = 1..n
      /\ restores'[n] = new /\ \A k \in DOMAIN restores : restores'[k] = restores[k]
  BY <1>1, <1>2, <1>4, <1>5, <1>3, AppendProperties, LenProperties
<1>7. /\ restore'[r].pc = "chain" /\ restore'[r].rec = n
      /\ restore'[r].ids = restore[r].ids /\ restore'[r].done = restore[r].done
      /\ restore'[r].err = restore[r].err
  BY <1>1, <1>2, <1>3 DEF RestoreState
<1> QED
  BY <1>5, <1>6, <1>7, <1>3 DEF RestoreStarts, Busy

(* A restore that finishes closes its record; the others stand.            *)
LEMMA ClosesRecord ==
    ASSUME RestsOK, NEW r \in Restorers, RestoreFinish(r)
    PROVE  /\ Busy(r) /\ ~Busy(r)' /\ restore'[r] = NextCall(r)
           /\ restore[r].rec \in DOMAIN restores
           /\ Len(restores') = Len(restores) /\ DOMAIN restores' = DOMAIN restores
           /\ restores'[restore[r].rec].status = IF restore[r].err THEN "failed" ELSE "completed"
           /\ restores'[restore[r].rec].chain = restore[r].ids
           /\ restores'[restore[r].rec].db = restores[restore[r].rec].db
           /\ \A k \in DOMAIN restores : k # restore[r].rec => restores'[k] = restores[k]
<1>1. /\ restore \in [Restorers -> RestoreState] /\ restore[r] \in RestoreState
      /\ restores \in Seq(RestoreRecord) /\ Busy(r)
      /\ restore[r].rec \in DOMAIN restores
      /\ restores[restore[r].rec] \in RestoreRecord
  BY RestoreHasTypes DEF RestoreKnown, RestsOK, RestoreTypeOK, Busy, RestoreFinish
<1>2. PICK k \in DOMAIN restores : k = restore[r].rec
  BY <1>1
<1>3. PICK status, ids :
          /\ status = IF restore[r].err THEN "failed" ELSE "completed"
          /\ ids = restore[r].ids
          /\ restores' = [restores EXCEPT ![k].status = status, ![k].chain = ids]
  BY <1>2 DEF RestoreFinish
<1> DEFINE new == [restores[k] EXCEPT !.status = status, !.chain = ids]
<1>4. new.status = status /\ new.chain = ids /\ new.db = restores[k].db
  BY <1>1, <1>2 DEF RestoreRecord
<1>5. restores' = [restores EXCEPT ![k] = new]
  BY <1>1, <1>2, <1>3 DEF RestoreRecord
<1> HIDE DEF new
<1>6. new \in RestoreRecord
  <2>1. ids \in Seq(RecId) /\ status \in Status
    BY <1>1, <1>3 DEF RestoreState, Status
  <2> QED
    BY <1>1, <1>2, <2>1 DEF new, RestoreRecord
<1>7. /\ Len(restores') = Len(restores) /\ DOMAIN restores' = DOMAIN restores
      /\ restores'[k] = new /\ \A n \in DOMAIN restores : n # k => restores'[n] = restores[n]
  BY <1>1, <1>5, <1>6, ExceptSeq, LenProperties
<1>8. restore'[r] = NextCall(r) /\ NextCall(r).pc = "next"
  BY <1>1 DEF RestoreFinish, NextCall, IdleRestore
<1> QED
  BY <1>1, <1>2, <1>3, <1>4, <1>7, <1>8 DEF Busy

(* Whatever fails, a restore says in its record how it ended: unless the   *)
(* process dies, no record is Running that no restore is at, with any      *)
(* number of restores going on at once.                                    *)
THEOREM RunningIsAttendedHolds ==
    ASSUME "crash" \notin Faults
    PROVE  Spec => []RunningIsAttended
<1>1. Init => RunningIsAttended
  BY DEF Init, RestoreInit, RunningIsAttended
<1>2. RestoreInv /\ RunningIsAttended /\ [Next]_vars => RunningIsAttended'
  <2> SUFFICES ASSUME RestoreInv, RunningIsAttended, [Next]_vars
               PROVE  RunningIsAttended'
    OBVIOUS
  <2>1. RestsOK /\ StoreOK
    BY RestoreInvParts
  <2>2. CASE UNCHANGED <<restores, restore>>
    BY <2>2 DEF RunningIsAttended
  <2>3. CASE \E r \in Restorers : RestoreAsked(r) \/ RestoreStep(r)
    <3>1. PICK r \in Restorers : RestoreAsked(r) \/ RestoreStep(r)
      BY <2>3
    <3>2. \A q \in Restorers : q # r => restore'[q] = restore[q]
      BY <2>1, <3>1, RestoreRecordsChange
    <3>3. ASSUME NEW k \in DOMAIN restores, restores[k].status = "running",
                 restore[r].rec = k => ~Busy(r) \/ (Busy(r)' /\ restore'[r].rec = k)
          PROVE  \E q \in Restorers : restore'[q].rec = k /\ restore'[q].pc \notin {"idle", "next"}
      <4>1. PICK q \in Restorers : restore[q].rec = k /\ restore[q].pc \notin {"idle", "next"}
        BY <3>3 DEF RunningIsAttended
      <4> QED
        BY <3>2, <3>3, <4>1 DEF Busy
    <3>4. CASE ~Busy(r) /\ UNCHANGED restores
      BY <3>3, <3>4 DEF RunningIsAttended
    <3>5. CASE /\ Busy(r) /\ Busy(r)' /\ UNCHANGED restores
               /\ restore'[r].rec = restore[r].rec
      BY <3>3, <3>5 DEF RunningIsAttended
    <3>6. CASE RestoreStarts(r)
      <4>1. PICK n : n = Len(restores) + 1
        OBVIOUS
      <4>2. /\ ~Busy(r) /\ Busy(r)' /\ restore'[r].rec = n
            /\ \A k \in DOMAIN restores' : k = n \/ k \in DOMAIN restores
            /\ \A k \in DOMAIN restores : restores'[k] = restores[k]
        BY <2>1, <3>6, <4>1, StartsRecord
      <4> QED
        BY <3>3, <4>2 DEF RunningIsAttended, Busy
    <3>7. CASE RestoreFinish(r)
      <4>1. PICK k \in DOMAIN restores : k = restore[r].rec
        BY <2>1, <3>7, ClosesRecord
      <4>2. /\ DOMAIN restores' = DOMAIN restores /\ restores'[k].status # "running"
            /\ \A n \in DOMAIN restores : n # k => restores'[n] = restores[n]
        BY <2>1, <3>7, <4>1, ClosesRecord
      <4> QED
        BY <3>3, <4>1, <4>2 DEF RunningIsAttended
    <3> QED
      BY <2>1, <3>1, <3>4, <3>5, <3>6, <3>7, RestoreRecordsChange
  <2> QED
    BY <2>2, <2>3
    DEF Next, Application, BackupRuns, UserActs, RestoreRuns, Crash, vars
<1> QED
  BY <1>1, <1>2, RestoreInvHolds, PTL DEF Spec

-----------------------------------------------------------------------------
(* One restore at a time *)

LEMMA PrefixProperties ==
    ASSUME NEW S, NEW s \in Seq(S)
    PROVE  /\ IsPrefix(s, s)
           /\ \A e \in S : IsPrefix(s, Append(s, e)) /\ Len(Append(s, e)) = Len(s) + 1
           /\ \A t \in Seq(S), e \in S : IsPrefix(s, t) => IsPrefix(s, Append(t, e))
<1>1. Len(s) \in Nat
  BY LenProperties
<1>2. ASSUME NEW t \in Seq(S), NEW e \in S, IsPrefix(s, t)
      PROVE  IsPrefix(s, Append(t, e)) /\ Len(Append(t, e)) = Len(t) + 1
  <2>1. /\ Append(t, e) \in Seq(S) /\ Len(Append(t, e)) = Len(t) + 1 /\ Len(t) \in Nat
        /\ \A i \in 1..Len(t) : Append(t, e)[i] = t[i]
    BY AppendProperties, LenProperties
  <2>2. Len(s) <= Len(t) /\ SubSeq(s, 1, Len(s)) = SubSeq(t, 1, Len(s))
    BY <1>2 DEF IsPrefix
  <2>3. SubSeq(t, 1, Len(s)) = SubSeq(Append(t, e), 1, Len(s))
    <3>1. Len(s) \in 0..Len(t) /\ Len(s) \in 0..Len(Append(t, e))
      BY <1>1, <2>1, <2>2
    <3>2. /\ SubSeq(t, 1, Len(s)) = Restrict(t, 1..Len(s))
          /\ SubSeq(Append(t, e), 1, Len(s)) = Restrict(Append(t, e), 1..Len(s))
      BY <2>1, <3>1, SubSeqRestrict
    <3>3. \A i \in 1..Len(s) : Append(t, e)[i] = t[i]
      BY <2>1, <3>1
    <3> QED
      BY <3>2, <3>3 DEF Restrict
  <2> QED
    BY <1>1, <2>1, <2>2, <2>3 DEF IsPrefix
<1>3. IsPrefix(s, s)
  BY <1>1 DEF IsPrefix
<1> QED
  BY <1>2, <1>3

RestFiles == {"rest_full", "rest_log"}

(* What goes on beside a restore leaves its temporary files and its        *)
(* database to it, which may only commit more.                             *)
Beside ==
    /\ UNCHANGED online
    /\ \A db \in Databases : IsPrefix(history[db], history'[db])
    /\ \A s \in Transactions, db \in Databases :
          IsPrefix(s, history[db]) => IsPrefix(s, history'[db])
    /\ \A file \in RestFiles : tmp'[file] = tmp[file]

LEMMA BesideRestores ==
    ASSUME AdapterTypeOK, JobsOK,
           \/ \E db \in Databases : Application(db)
           \/ \E b \in Backups : BackupRuns(b)
           \/ \E u \in Users : UserActs(u)
           \/ UNCHANGED vars
    PROVE  Beside /\ UNCHANGED <<restores, restore>>
<1>1. ASSUME UNCHANGED <<online, history>>, \A file \in RestFiles : tmp'[file] = tmp[file]
      PROVE  Beside
  <2>1. \A db \in Databases : IsPrefix(history[db], history[db])
    BY PrefixProperties DEF AdapterTypeOK, Transactions
  <2> QED
    BY <1>1, <2>1 DEF Beside
<1>2. CASE \E db \in Databases : Application(db)
  <2>1. PICK db \in Databases : Application(db)
    BY <1>2
  <2>2. commits + 1 \in 1..MaxCommits
    BY <2>1, AdapterAssumption DEF Application, Commit, AdapterTypeOK
  <2>3. PICK c \in 1..MaxCommits : c = commits + 1
    BY <2>2
  <2>4. /\ history' = [history EXCEPT ![db] = Append(history[db], c)]
        /\ history \in [Databases -> Seq(1..MaxCommits)]
        /\ UNCHANGED <<online, tmp, restores, restore>>
    BY <2>1, <2>3 DEF Application, Commit, AdapterTypeOK, Transactions
  <2>5. \A d \in Databases : \A s \in Transactions :
            IsPrefix(s, history[d]) => IsPrefix(s, history'[d])
    BY <2>4, PrefixProperties DEF Transactions
  <2>6. \A d \in Databases : IsPrefix(history[d], history'[d])
    BY <2>4, <2>5, PrefixProperties DEF Transactions
  <2> QED
    BY <2>4, <2>5, <2>6 DEF Beside
<1>3. CASE \E b \in Backups : BackupRuns(b)
  <2>1. PICK b \in Backups : BackupRuns(b)
    BY <1>3
  <2>2. JobType(b) \notin RestFiles
    BY DEF JobType, RestFiles
  <2>3. UNCHANGED <<online, history, restores, restore>>
    BY <2>1 DEF BackupRuns, AdapterStep, KeepData, BackupRefused, BackupToDisk, BackupFails,
                UploadStream, UploadStreamFails, CloseReader, dbVars
  <2>4. \A file \in RestFiles : tmp'[file] = tmp[file]
    <3>1. RestFiles \subseteq TmpFile /\ tmp \in [TmpFile -> Data \cup {NoData}]
      BY DEF RestFiles, TmpFile, AdapterTypeOK
    <3>2. tmp' = tmp \/ \E data : tmp' = [tmp EXCEPT ![JobType(b)] = data]
      BY <2>1 DEF BackupRuns, AdapterStep, KeepData, BackupRefused, BackupToDisk, BackupFails,
                  UploadStream, UploadStreamFails, CloseReader, RemoveTmp
    <3> QED
      BY <2>2, <3>1, <3>2
  <2> QED
    BY <1>1, <2>3, <2>4 DEF Beside
<1>4. CASE (\E u \in Users : UserActs(u)) \/ UNCHANGED vars
  <2>1. UNCHANGED <<online, history, tmp, restores, restore>>
    BY <1>4 DEF UserActs, KeepData, vars
  <2> QED
    BY <1>1, <2>1
<1> QED
  BY <1>2, <1>3, <1>4

LEMMA InHandBeside ==
    ASSUME RestsOK, NEW r \in Restorers, InHand(r), Beside, UNCHANGED <<restores, restore>>,
           AdapterTypeOK
    PROVE  InHand(r)'
<1>1. RestoreFile(Position(r)) \in RestFiles
  BY DEF RestoreFile, RestFiles
<1>2. TargetDb(r)' = TargetDb(r) /\ Position(r)' = Position(r) /\ Busy(r)' = Busy(r)
  BY DEF TargetDb, Position, Busy
<1>3. restore[r].pc = "finish" => TargetDb(r) \in Databases
  BY RestoreHasTypes DEF Busy
<1> QED
  BY <1>1, <1>2, <1>3 DEF InHand, Beside, Data

(* The step of a restore keeps it in hand. *)
LEMMA InHandCalls ==
    ASSUME RestsOK, StoreOK, NEW r \in Restorers, InHand(r),
           \/ RestoreAsked(r) \/ RestoreReturns(r) \/ RestoreStarts(r) \/ RestoreChain(r)
           \/ RestoreNoStorage(r) \/ RestoreFinish(r)
    PROVE  InHand(r)'
<1>1. /\ restore \in [Restorers -> RestoreState] /\ restore[r] \in RestoreState
      /\ RestoreKnown(r)
  BY RestoreHasTypes
<1>2. CASE RestoreAsked(r) \/ RestoreReturns(r)
  <2>1. /\ IdleRestore.pc = "idle" /\ IdleRestore.done = <<>> /\ IdleRestore.err = FALSE
    BY DEF IdleRestore
  <2>2. restore'[r].pc \in {"idle", "next"} /\ restore'[r].done = <<>> /\ restore'[r].err = FALSE
    BY <1>1, <1>2, <2>1
    DEF RestoreAsked, UserRestores, UserRestoresAll, RestoreReturns, IdleRestore
  <2> QED
    BY <2>2 DEF InHand, Busy
<1>3. CASE RestoreStarts(r)
  <2>1. PICK n : n = Len(restores) + 1
    OBVIOUS
  <2>2. /\ restore[r].pc = "next" /\ restore'[r].pc = "chain" /\ restore'[r].rec = n
        /\ restore'[r].done = restore[r].done /\ restore'[r].err = restore[r].err
        /\ Len(restores') = n /\ restores'[n].status = "running"
    BY <1>3, <2>1, StartsRecord
  <2> QED
    BY <2>2 DEF InHand, Busy
<1>4. CASE RestoreChain(r)
  <2>1. PICK chain : restore' = [restore EXCEPT ![r].pc = "download", ![r].chain = chain]
    BY <1>4 DEF RestoreChain
  <2>2. /\ restore'[r].pc = "download" /\ restore'[r].rec = restore[r].rec
        /\ restore'[r].ids = restore[r].ids /\ restore'[r].done = restore[r].done
        /\ restore'[r].err = restore[r].err
    BY <1>1, <2>1 DEF RestoreState
  <2>3. restore[r].ids = <<>>
    BY <1>1, <1>4 DEF RestoreKnown, RestoreChain
  <2> QED
    BY <1>4, <2>2, <2>3 DEF InHand, Busy, RestoreChain
<1>5. CASE RestoreNoStorage(r)
  <2>1. /\ restore'[r].pc = "finish" /\ restore'[r].rec = restore[r].rec
        /\ restore'[r].ids = restore[r].ids /\ restore'[r].done = restore[r].done
        /\ restore'[r].err = TRUE
    BY <1>1, <1>5 DEF RestoreNoStorage, RestoreState
  <2>2. restore[r].ids = <<>> /\ restore[r].done = <<>>
    BY <1>1, <1>5 DEF RestoreKnown, RestoreNoStorage, InHand
  <2>3. restore[r].done \in Seq(RecId) /\ Len(restore[r].done) \in Nat
    BY <1>1, LenProperties DEF RestoreState
  <2>4. /\ IsPrefix(restore[r].done, restore[r].ids)
        /\ Len(restore[r].ids) <= Len(restore[r].done) + 1
    <3>1. restore[r].ids = restore[r].done
      BY <2>2
    <3>2. IsPrefix(restore[r].done, restore[r].done)
      BY <2>3, PrefixProperties
    <3> QED
      BY <2>3, <3>1, <3>2
  <2> QED
    BY <1>5, <2>1, <2>4 DEF InHand, Busy, RestoreNoStorage
<1>6. CASE RestoreFinish(r)
  <2>1. /\ restore'[r].pc = "next" /\ restore'[r].done = <<>> /\ restore'[r].err = FALSE
    BY <1>6, ClosesRecord DEF NextCall, IdleRestore
  <2> QED
    BY <2>1 DEF InHand, Busy
<1> QED
  BY <1>2, <1>3, <1>4, <1>5, <1>6

LEMMA InHandSteps ==
    ASSUME RestsOK, AdapterTypeOK, NEW r \in Restorers, InHand(r),
           RestoreDownload(r) \/ RestoreApply(r) \/ RestoreApplyFails(r)
    PROVE  InHand(r)'
<1>1. /\ restore \in [Restorers -> RestoreState] /\ restore[r] \in RestoreState
      /\ RestoreKnown(r)
  BY RestoreHasTypes
<1>2. /\ UNCHANGED restores /\ Busy(r)
      /\ restore[r].rec = Len(restores) /\ restores[restore[r].rec].status = "running"
  BY DEF RestoreDownload, RestoreApply, RestoreApplyFails, InHand, Busy
<1>3. TargetDb(r) \in Databases
  BY <1>2, RestoreHasTypes
<1>4. CASE RestoreDownload(r)
  <2> DEFINE n == Position(r) + 1
  <2>1. PICK link : link = restore[r].chain[n]
    OBVIOUS
  <2>2. PICK ids : ids = Append(restore[r].ids, link.id)
    OBVIOUS
  <2>3. link \in Link
    <3>1. restore[r].chain \in Seq(Link) /\ restore[r].ids \in Seq(RecId)
      BY <1>1 DEF RestoreState
    <3>2. Position(r) \in Nat /\ Len(restore[r].chain) \in Nat
      BY <3>1, LenProperties DEF Position
    <3>3. Position(r) < Len(restore[r].chain)
      BY <1>1, <1>4 DEF RestoreDownload, RestoreKnown
    <3>4. n \in 1..Len(restore[r].chain)
      BY <3>2, <3>3
    <3> QED
      BY <2>1, <3>1, <3>4, ElementOfSeq
  <2>4. restore[r].ids = restore[r].done /\ ~restore[r].err
    BY <1>4 DEF RestoreDownload, InHand
  <2>5. IsPrefix(restore[r].done, ids) /\ Len(ids) <= Len(restore[r].done) + 1
    <3>1. restore[r].ids \in Seq(RecId) /\ link.id \in RecId
      BY <1>1, <2>3 DEF RestoreState, Link
    <3>2. Len(ids) = Len(restore[r].ids) + 1 /\ Len(restore[r].ids) \in Nat
      BY <2>2, <3>1, PrefixProperties, LenProperties
    <3> QED
      BY <2>2, <2>4, <3>1, <3>2, PrefixProperties
  <2>6. CASE /\ restore' = [restore EXCEPT ![r].pc = "apply", ![r].ids = ids,
                                           ![r].data = contents[link.key]]
             /\ SendToContainer(r, RestoreFile(Len(ids)), contents[link.key])
    <3>1. PICK data : data = contents[link.key]
      OBVIOUS
    <3>2. restore' = [restore EXCEPT ![r].pc = "apply", ![r].ids = ids, ![r].data = data]
      BY <2>6, <3>1
    <3>3. /\ restore'[r].pc = "apply" /\ restore'[r].rec = restore[r].rec
          /\ restore'[r].ids = ids /\ restore'[r].done = restore[r].done
          /\ restore'[r].err = restore[r].err /\ restore'[r].data = data
      BY <1>1, <3>2 DEF RestoreState
    <3>4. PICK file \in TmpFile : file = RestoreFile(Len(ids))
      BY DEF RestoreFile, TmpFile
    <3>5. TargetDb(r) \in SqlServer => tmp'[file] = data
      BY <2>6, <3>1, <3>4 DEF SendToContainer, AdapterTypeOK
    <3>6. TargetDb(r)' = TargetDb(r) /\ RestoreFile(Position(r))' = file
      BY <1>2, <3>3, <3>4 DEF TargetDb, RestoreFile, Position
    <3> QED
      BY <1>2, <2>4, <2>5, <3>3, <3>5, <3>6 DEF InHand, Busy
  <2>7. CASE restore' = [restore EXCEPT ![r].pc = "finish", ![r].ids = ids, ![r].err = TRUE]
    <3>1. /\ restore'[r].pc = "finish" /\ restore'[r].rec = restore[r].rec
          /\ restore'[r].ids = ids /\ restore'[r].done = restore[r].done
          /\ restore'[r].err = TRUE
      BY <1>1, <2>7 DEF RestoreState
    <3> QED
      BY <1>2, <2>5, <3>1 DEF InHand, Busy
  <2> QED
    BY <1>4, <2>1, <2>2, <2>6, <2>7 DEF RestoreDownload
<1>5. CASE RestoreApply(r)
  <2>1. PICK pc \in {"finish", "download"} :
            /\ pc = "finish" => IsLast(r)
            /\ restore' = [restore EXCEPT ![r].pc = pc, ![r].done = restore[r].ids]
    BY <1>5 DEF RestoreApply
  <2>2. /\ restore'[r].pc = pc /\ restore'[r].rec = restore[r].rec
        /\ restore'[r].ids = restore[r].ids /\ restore'[r].done = restore[r].ids
        /\ restore'[r].err = restore[r].err /\ restore'[r].data = restore[r].data
    BY <1>1, <2>1 DEF RestoreState
  <2>3. ~restore[r].err
    BY <1>5 DEF RestoreApply, InHand
  <2>4. PICK db \in Databases : db = TargetDb(r)
    BY <1>3
  <2>5. TargetDb(r)' = db
    BY <1>2, <2>2, <2>4 DEF TargetDb
  <2>6. ASSUME pc = "finish"
        PROVE  db \in online'
    BY <1>5, <2>1, <2>4, <2>6 DEF RestoreApply, Recovery, RestoreData
  <2>7. ASSUME db \in SqlServer
        PROVE  restore[r].data \in Data /\ IsPrefix(restore[r].data.to, history'[db])
    <3>1. PICK data \in Data \cup {NoData} : data = restore[r].data
      BY <1>1 DEF RestoreState
    <3>2. Incoming(r) = data
      BY <1>5, <2>4, <2>7, <3>1 DEF Incoming, InHand, RestoreApply
    <3>3. data.db = db
      BY <1>5, <2>4, <3>2 DEF RestoreApply, Accepted, AcceptsFull, AcceptsLog
    <3>4. data \in Data /\ data.to \in Transactions
      BY <3>1, <3>3, AdapterAssumption DEF NoData, Data
    <3>5. history' = [history EXCEPT ![db] = data.to]
      BY <1>5, <2>4, <2>7, <3>2 DEF RestoreApply, RestoreData
    <3>6. history'[db] = data.to
      BY <3>5 DEF AdapterTypeOK
    <3> QED
      BY <3>1, <3>4, <3>6, PrefixProperties DEF Transactions
  <2> QED
    BY <1>2, <2>1, <2>2, <2>3, <2>5, <2>6, <2>7 DEF InHand, Busy
<1>6. CASE RestoreApplyFails(r)
  <2>1. /\ restore'[r].pc = "finish" /\ restore'[r].rec = restore[r].rec
        /\ restore'[r].ids = restore[r].ids /\ restore'[r].done = restore[r].done
        /\ restore'[r].err = TRUE
    BY <1>1, <1>6 DEF RestoreApplyFails, RestoreState
  <2> QED
    BY <1>2, <1>6, <2>1 DEF InHand, Busy, RestoreApplyFails
<1> QED
  BY <1>4, <1>5, <1>6

(* A database that is left RESTORING has its reason. *)
LEMMA ReasonStands ==
    ASSUME RestoringHasReason, UNCHANGED restores, online \subseteq online'
    PROVE  RestoringHasReason'
BY DEF RestoringHasReason, LastRestore, Newest

LEMMA ReasonInHand ==
    ASSUME RestoringHasReason, RestsOK, NEW r \in Restorers, Busy(r), InHand(r),
           UNCHANGED restores, online \ {TargetDb(r)} \subseteq online'
    PROVE  RestoringHasReason'
<1>1. PICK k \in DOMAIN restores : k = restore[r].rec
  BY RestoreHasTypes DEF RestoreKnown
<1>2. /\ k = Len(restores) /\ restores[k].status = "running" /\ TargetDb(r) = restores[k].db
  BY <1>1 DEF InHand, TargetDb
<1>3. DOMAIN restores = 1..Len(restores) /\ Len(restores) \in Nat
  BY LenProperties DEF RestsOK, RestoreTypeOK
<1>4. LastRestore(restores[k].db, k)
  BY <1>2, <1>3 DEF LastRestore, Newest
<1>5. ASSUME NEW db \in Databases, db \notin online'
      PROVE  \E n \in DOMAIN restores : LastRestore(db, n) /\ restores[n].status # "completed"
  <2>1. CASE db = restores[k].db
    BY <1>2, <1>4, <2>1
  <2>2. CASE db # restores[k].db
    BY <1>2, <1>5, <2>2 DEF RestoringHasReason
  <2> QED
    BY <2>1, <2>2
<1>6. \A db, n : LastRestore(db, n)' <=> LastRestore(db, n)
  BY DEF LastRestore, Newest
<1> QED
  BY <1>5, <1>6 DEF RestoringHasReason

LEMMA ReasonKept ==
    ASSUME RestoringHasReason, RestsOK, StoreOK, AdapterTypeOK, NEW r \in Restorers, InHand(r),
           RestoreAsked(r) \/ RestoreStep(r)
    PROVE  RestoringHasReason'
<1>1. CASE UNCHANGED restores /\ online \subseteq online'
  BY <1>1, ReasonStands
<1>2. CASE RestoreApply(r) \/ RestoreApplyFails(r)
  <2>1. UNCHANGED restores /\ Busy(r) /\ online \ {TargetDb(r)} \subseteq online'
    BY <1>2 DEF RestoreApply, RestoreApplyFails, RestoreData, Busy
  <2> QED
    BY <2>1, ReasonInHand
<1>3. CASE RestoreStarts(r)
  <2>1. PICK n : n = Len(restores) + 1
    OBVIOUS
  <2>2. /\ Len(restores) \in Nat /\ DOMAIN restores = 1..Len(restores)
        /\ DOMAIN restores' = 1..n /\ restores'[n].status = "running"
        /\ \A k \in DOMAIN restores : restores'[k] = restores[k]
    BY <1>3, <2>1, StartsRecord
  <2>3. n \in DOMAIN restores' /\ \A k \in DOMAIN restores' : k <= n /\ k \in Nat
    BY <2>1, <2>2
  <2>4. \A k \in DOMAIN restores' : k = n \/ k \in DOMAIN restores
    BY <2>1, <2>2
  <2>5. DOMAIN restores \subseteq DOMAIN restores'
    BY <2>1, <2>2
  <2>6. UNCHANGED online
    BY <1>3 DEF RestoreStarts, KeepData
  <2>7. ASSUME NEW db \in Databases, db \notin online'
        PROVE  \E k \in DOMAIN restores' : LastRestore(db, k)' /\ restores'[k].status # "completed"
    <3>1. CASE db = restores'[n].db
      <4>1. LastRestore(db, n)'
        BY <2>3, <3>1 DEF LastRestore, Newest
      <4> QED
        BY <2>2, <2>3, <4>1
    <3>2. CASE db # restores'[n].db
      <4>1. PICK k \in DOMAIN restores : LastRestore(db, k) /\ restores[k].status # "completed"
        BY <2>6, <2>7 DEF RestoringHasReason
      <4>2. LastRestore(db, k)'
        BY <2>2, <2>4, <2>5, <3>2, <4>1 DEF LastRestore, Newest
      <4> QED
        BY <2>2, <2>5, <4>1, <4>2
    <3> QED
      BY <3>1, <3>2
  <2> QED
    BY <2>7 DEF RestoringHasReason
<1>4. CASE RestoreFinish(r)
  <2>1. PICK k \in DOMAIN restores : k = restore[r].rec
    BY <1>4, ClosesRecord
  <2>2. /\ DOMAIN restores' = DOMAIN restores
        /\ restores'[k].db = restores[k].db
        /\ restore[r].err => restores'[k].status = "failed"
        /\ \A n \in DOMAIN restores : n # k => restores'[n] = restores[n]
    BY <1>4, <2>1, ClosesRecord
  <2>3. ~restore[r].err => restores[k].db \in online
    BY <1>4, <2>1 DEF RestoreFinish, InHand, TargetDb
  <2>4. UNCHANGED online
    BY <1>4 DEF RestoreFinish, KeepData
  <2>5. \A n \in DOMAIN restores : restores'[n].db = restores[n].db
    BY <2>2
  <2>6. ASSUME NEW db \in Databases, db \notin online'
        PROVE  \E n \in DOMAIN restores' : LastRestore(db, n)' /\ restores'[n].status # "completed"
    <3>1. PICK n \in DOMAIN restores : LastRestore(db, n) /\ restores[n].status # "completed"
      BY <2>4, <2>6 DEF RestoringHasReason
    <3>2. LastRestore(db, n)' /\ restores[n].db = db
      BY <2>2, <2>5, <3>1 DEF LastRestore, Newest
    <3>3. restores'[n].status # "completed"
      BY <2>2, <2>3, <2>4, <2>6, <3>1, <3>2
    <3> QED
      BY <2>2, <3>2, <3>3
  <2> QED
    BY <2>6 DEF RestoringHasReason
<1> QED
  BY <1>1, <1>2, <1>3, <1>4
  DEF RestoreAsked, UserRestores, UserRestoresAll, RestoreStep, RestoreReturns, RestoreChain,
      RestoreNoStorage, RestoreDownload, KeepData, dbVars

LEMMA RestoringInvStarts ==
    ASSUME Init
    PROVE  RestoringInv
<1>1. restores = <<>> /\ restore = [r \in Restorers |-> IdleRestore] /\ online = Databases
  BY DEF Init, RestoreInit, AdapterInit
<1>2. \A r \in Restorers : restore[r].pc = "idle"
  BY <1>1 DEF IdleRestore
<1> QED
  BY <1>1, <1>2 DEF RestoringInv, Underway, InHand, Busy, RestoringHasReason

LEMMA RestoringInvKept ==
    ASSUME OneRestorer, RestoreInv, RestoringInv, [Next]_vars
    PROVE  RestoringInv'
<1>1. /\ RestsOK /\ StoreOK /\ AdapterTypeOK /\ JobsOK
      /\ RestoringHasReason /\ \A r \in Restorers : InHand(r)
  BY RestoreInvParts DEF RestoringInv, Underway
<1>2. CASE \/ \E db \in Databases : Application(db)
           \/ \E b \in Backups : BackupRuns(b)
           \/ \E u \in Users : UserActs(u)
           \/ UNCHANGED vars
  <2>1. Beside /\ UNCHANGED <<restores, restore>>
    BY <1>1, <1>2, BesideRestores
  <2>2. Underway'
    BY <1>1, <2>1, InHandBeside DEF Underway
  <2>3. RestoringHasReason'
    BY <1>1, <2>1, ReasonStands DEF Beside
  <2> QED
    BY <2>2, <2>3 DEF RestoringInv
<1>3. CASE \E r \in Restorers : RestoreAsked(r) \/ RestoreRuns(r)
  <2>1. PICK r \in Restorers : RestoreAsked(r) \/ RestoreStep(r)
    BY <1>3 DEF RestoreRuns
  <2>2. InHand(r)'
    BY <1>1, <2>1, InHandCalls, InHandSteps DEF RestoreStep
  <2>3. Underway'
    BY <2>2 DEF Underway, OneRestorer
  <2>4. RestoringHasReason'
    BY <1>1, <2>1, ReasonKept
  <2> QED
    BY <2>3, <2>4 DEF RestoringInv
<1>4. CASE Crash
  <2>1. restore' = [r \in Restorers |-> IdleRestore] /\ UNCHANGED <<restores, online>>
    BY <1>4 DEF Crash, KeepData
  <2>2. \A r \in Restorers : restore'[r].pc = "idle"
    BY <2>1 DEF IdleRestore
  <2>3. Underway'
    BY <2>2 DEF Underway, InHand, Busy
  <2>4. RestoringHasReason'
    BY <1>1, <2>1, ReasonStands
  <2> QED
    BY <2>3, <2>4 DEF RestoringInv
<1> QED
  BY <1>2, <1>3, <1>4 DEF Next

LEMMA RestoringInvHolds ==
    ASSUME OneRestorer
    PROVE  Spec => [](RestoreInv /\ RestoringInv)
<1>1. Init => RestoreInv /\ RestoringInv
  BY RestoreInvStarts, RestoringInvStarts
<1>2. RestoreInv /\ RestoringInv /\ [Next]_vars => RestoreInv' /\ RestoringInv'
  BY RestoreInvKept, RestoringInvKept
<1> QED
  BY <1>1, <1>2, PTL DEF Spec

(* With one restore at a time, a database that is RESTORING has a last     *)
(* restore record that says why: Running while a restore is at it, Failed  *)
(* when it broke off, and Running still if the process died meanwhile.     *)
THEOREM RestoringHasReasonHolds ==
    ASSUME OneRestorer
    PROVE  Spec => []RestoringHasReason
<1>1. RestoreInv /\ RestoringInv => RestoringHasReason
  BY DEF RestoringInv
<1> QED
  BY <1>1, RestoringInvHolds, PTL

(* A restore record says what was done: with one restore at a time and SQL *)
(* Server databases, a Completed one means that the database is ONLINE     *)
(* with all that the last backup of the chain saw, and its chain is what   *)
(* was applied; a Failed one lists what was applied and at most the backup *)
(* at which it broke off.                                                  *)
THEOREM RestoredAsRecordedHolds ==
    ASSUME OneRestorer, SqlServer = Databases
    PROVE  Spec => RestoredAsRecorded
<1>1. RestoreInv /\ RestoringInv /\ [Next]_vars => [RestoredStep]_vars
  <2> SUFFICES ASSUME RestoreInv, RestoringInv, Next,
                      NEW r \in Restorers, Finishes(r)
               PROVE  LET recorded == restores'[restore[r].rec].chain
                          applied == restore[r].done
                      IN IF restores'[restore[r].rec].status = "completed"
                         THEN /\ TargetDb(r) \in online
                              /\ IsPrefix(restore[r].data.to, history[TargetDb(r)])
                              /\ recorded = applied
                         ELSE IsPrefix(applied, recorded) /\ Len(recorded) <= Len(applied) + 1
    BY DEF RestoredStep
  <2>1. RestsOK /\ StoreOK /\ AdapterTypeOK /\ JobsOK /\ InHand(r)
    BY RestoreInvParts DEF RestoringInv, Underway
  <2>2. RestoreFinish(r)
    <3>1. restore'[r] # restore[r] /\ restore'[r].pc # "idle"
      BY DEF Finishes
    <3>2. ~Crash
      BY <3>1 DEF Crash, IdleRestore
    <3>3. PICK q \in Restorers : RestoreAsked(q) \/ RestoreStep(q)
      BY <2>1, <3>1, <3>2, BesideRestores DEF Next, RestoreRuns
    <3>4. RestoreAsked(r) \/ RestoreStep(r)
      BY <3>3 DEF OneRestorer
    <3> QED
      BY <3>4
      DEF Finishes, RestoreAsked, UserRestores, UserRestoresAll, RestoreStep, RestoreReturns,
          RestoreStarts, RestoreChain, RestoreNoStorage, RestoreDownload, RestoreApply,
          RestoreApplyFails
  <2>3. /\ restores'[restore[r].rec].status = IF restore[r].err THEN "failed" ELSE "completed"
        /\ restores'[restore[r].rec].chain = restore[r].ids
    BY <2>1, <2>2, ClosesRecord
  <2>4. TargetDb(r) \in SqlServer
    BY <2>1, <2>2, RestoreHasTypes DEF RestoreFinish, Busy
  <2> QED
    BY <2>1, <2>2, <2>3, <2>4 DEF RestoreFinish, InHand
<1> QED
  BY <1>1, RestoringInvHolds, PTL DEF Spec, RestoredAsRecorded

-----------------------------------------------------------------------------
(* One backup of a type at a time *)

LEMMA DumpsOwnStands ==
    ASSUME NEW b \in Backups, DumpsOwn(b), job'[b] = job[b],
           tmp'[JobType(b)] = tmp[JobType(b)]
    PROVE  DumpsOwn(b)'
BY DEF DumpsOwn, JobType

(* A backup writes no temporary file but that of its own type, and no      *)
(* other backup's state.                                                   *)
LEMMA BackupLeaves ==
    ASSUME JobsOK, AdapterTypeOK, NEW b \in Backups, BackupRuns(b)
    PROVE  /\ \A c \in Backups : c # b => job'[c] = job[c]
           /\ job[b].pc = "idle" => UNCHANGED tmp
           /\ \A file \in TmpFile : file # JobType(b) => tmp'[file] = tmp[file]
<1>1. job \in [Backups -> JobState] /\ tmp \in [TmpFile -> Data \cup {NoData}]
  BY DEF JobsOK, JobTypeOK, AdapterTypeOK
<1>2. \/ tmp' = tmp
      \/ job[b].pc # "idle" /\ \E data : tmp' = [tmp EXCEPT ![JobType(b)] = data]
  BY DEF BackupRuns, AdapterStep, KeepData, BackupRefused, BackupToDisk, BackupFails,
         UploadStream, UploadStreamFails, CloseReader, RemoveTmp, Dump, UploadFail,
         Close, CloseFail
<1>3. \A c \in Backups : c # b => job'[c] = job[c]
  <2>1. \/ \E j : job' = [job EXCEPT ![b] = j]
        \/ \E pc : job' = [job EXCEPT ![b].pc = pc]
        \/ \E pc, key : job' = [job EXCEPT ![b].pc = pc, ![b].key = key]
        \/ \E pc, db, full : job' = [job EXCEPT ![b].pc = pc, ![b].db = db, ![b].parent = full]
    BY DEF BackupRuns, AdapterStep, BackupRefused, BackupToDisk, BackupFails, UploadStream,
           UploadStreamFails, CloseReader, BeginFull, BeginLog, SaveLog, StartRecord, Dump,
           DumpFail, Upload, UploadFail, Close, CloseFail, Discard, Fail, Complete
  <2> QED
    BY <1>1, <2>1
<1> QED
  BY <1>1, <1>2, <1>3

LEMMA BackupDumpsOwn ==
    ASSUME JobsOK, AdapterTypeOK, NEW b \in Backups, BackupRuns(b), DumpsOwn(b), StoreOK
    PROVE  DumpsOwn(b)'
<1>1. /\ job \in [Backups -> JobState] /\ job[b] \in JobState /\ JobKnown(b)
      /\ tmp \in [TmpFile -> Data \cup {NoData}]
  BY DEF JobsOK, JobTypeOK, JobsKnown, AdapterTypeOK
<1>2. AdapterStep(b) => job[b].pc # "idle"
  BY DEF AdapterStep, BackupRefused, BackupToDisk, BackupFails, UploadStream, UploadStreamFails,
         CloseReader, SaveLog, Dump, DumpFail, Upload, UploadFail, Close, CloseFail, Discard,
         Fail, Complete
<1>3. BeginLog(b) => job'[b].pc = "chained"
  <2> SUFFICES ASSUME NEW db, NEW full,
                      job' = [job EXCEPT ![b].pc = "chained", ![b].db = db, ![b].parent = full]
               PROVE  job'[b].pc = "chained"
    BY DEF BeginLog
  <2> QED
    BY <1>1 DEF JobState
<1>4. BeginFull(b) => job'[b].pc = "dumping"
  BY <1>1 DEF BeginFull, StartRecord
<1>5. CASE BeginFull(b)
  <2>1. PICK db, n : job' = [job EXCEPT ![b] = [pc |-> "dumping", id |-> n, db |-> db,
                                                parent |-> NoId, key |-> NoKey]]
    BY <1>5 DEF BeginFull, StartRecord
  <2>2. job'[b].pc = "dumping" /\ job'[b].parent = NoId
    BY <1>1, <2>1
  <2>3. b \in FullEntries
    BY <1>5, <1>2, <1>3, <1>4 DEF BackupRuns, BeginFull
  <2> QED
    BY <2>2, <2>3 DEF DumpsOwn, JobType
<1>6. CASE BeginLog(b)
  <2>1. PICK db \in SqlServer, full \in DOMAIN records :
            job' = [job EXCEPT ![b].pc = "chained", ![b].db = db, ![b].parent = full]
    BY <1>6 DEF BeginLog
  <2>2. job'[b].pc = "chained" /\ job'[b].parent = full
    BY <1>1, <2>1 DEF JobState
  <2>3. full # NoId
    BY RecordsHaveTypes DEF RecId, NoId
  <2>4. b \in LogEntries
    BY <1>6, <1>2, <1>3, <1>4 DEF BackupRuns, BeginLog
  <2> QED
    BY <2>2, <2>3, <2>4 DEF DumpsOwn, JobType
<1>7. CASE SaveLog(b)
  <2>1. PICK n : job' = [job EXCEPT ![b] = [pc |-> "dumping", id |-> n, db |-> job[b].db,
                                            parent |-> job[b].parent, key |-> NoKey]]
    BY <1>7 DEF SaveLog, StartRecord
  <2>2. job'[b].pc = "dumping" /\ job'[b].parent = job[b].parent
    BY <1>1, <2>1
  <2> QED
    BY <1>7, <2>2 DEF DumpsOwn, JobType, SaveLog
<1>8. CASE BackupToDisk(b)
  <2>1. PICK key : job' = [job EXCEPT ![b].pc = "uploading", ![b].key = key]
    BY <1>8 DEF BackupToDisk, Dump
  <2>2. /\ job'[b].pc = "uploading" /\ job'[b].db = job[b].db
        /\ job'[b].parent = job[b].parent /\ job[b].pc # "idle"
    BY <1>1, <1>8, <2>1 DEF JobState, BackupToDisk, Dump
  <2>3. JobType(b)' = JobType(b) /\ JobType(b) \in TmpFile
    BY <2>2 DEF JobType, TmpFile, Type
  <2>4. job[b].db \in SqlServer => tmp'[JobType(b)] = DumpOf(b)
    BY <1>1, <1>8, <2>3 DEF BackupToDisk
  <2>5. DumpOf(b).db = job[b].db
    BY <2>2, DumpHasData
  <2> QED
    BY <2>2, <2>3, <2>4, <2>5 DEF DumpsOwn
<1>9. CASE Fail(b) \/ Complete(b)
  <2>1. job'[b].pc = "idle"
    BY <1>1, <1>9 DEF Fail, Complete, IdleJob
  <2> QED
    BY <2>1 DEF DumpsOwn
<1>10. ASSUME NEW pc \in {"failing", "closing", "completing", "discarding"},
             job' = [job EXCEPT ![b].pc = pc], job[b].pc # "idle"
      PROVE  DumpsOwn(b)'
  <2>1. job'[b].pc = pc /\ job'[b].parent = job[b].parent
    BY <1>1, <1>10 DEF JobState
  <2> QED
    BY <1>10, <2>1 DEF DumpsOwn, JobType
<1>11. CASE BackupRefused(b) \/ BackupFails(b) \/ UploadStream(b) \/ UploadStreamFails(b)
  BY <1>10, <1>11 DEF BackupRefused, BackupFails, UploadStream, UploadStreamFails, DumpFail,
                    Upload, UploadFail
<1>12. CASE CloseReader(b) \/ Discard(b)
  BY <1>10, <1>12 DEF CloseReader, Close, CloseFail, Discard
<1> QED
  BY <1>5, <1>6, <1>7, <1>8, <1>9, <1>11, <1>12 DEF BackupRuns, AdapterStep

(* What a backup stores under its key is of the database the key names.    *)
LEMMA StoredIsOwn ==
    ASSUME JobsOK, AdapterTypeOK, NEW b \in Backups, DumpsOwn(b), "extract" \notin Faults,
           job[b].pc = "uploading", Stored(b), bucket' = bucket \cup {job[b].key},
           \A key \in bucket : contents[key].db = key[1]
    PROVE  \A key \in bucket' : contents'[key].db = key[1]
<1>1. PICK data \in Stream(b) :
          contents' = [key \in bucket' |-> IF key = job[b].key THEN data ELSE contents[key]]
  BY DEF Stored
<1>2. data.db = job[b].db
  <2>1. DumpOf(b).db = job[b].db
    BY DumpHasData
  <2> QED
    BY <1>1, <2>1 DEF Stream, DumpsOwn
<1>3. job[b].key[1] = job[b].db
  BY DEF JobsOK, JobsKnown, JobKnown, Dumped
<1> QED
  BY <1>1, <1>2, <1>3

LEMMA ContentsKept ==
    ASSUME KeepContents, bucket' \subseteq bucket,
           \A key \in bucket : contents[key].db = key[1]
    PROVE  \A key \in bucket' : contents'[key].db = key[1]
BY DEF KeepContents

(* A restore has temporary files of its own. *)
LEMMA RestoreLeavesDumps ==
    ASSUME AdapterTypeOK, NEW r \in Restorers, RestoreAsked(r) \/ RestoreStep(r)
    PROVE  \A type \in Type : tmp'[type] = tmp[type]
<1>1. \A n : RestoreFile(n) \in RestFiles
  BY DEF RestoreFile, RestFiles
<1>2. tmp' = tmp \/ \E file \in RestFiles : \E data : tmp' = [tmp EXCEPT ![file] = data]
  BY <1>1
  DEF RestoreAsked, UserRestores, UserRestoresAll, RestoreStep, RestoreReturns,
      RestoreStarts, RestoreChain, RestoreNoStorage, RestoreDownload, RestoreApply,
      RestoreApplyFails, RestoreFinish, KeepData, RemoveRestoreFile, SendToContainer
<1> QED
  BY <1>2 DEF AdapterTypeOK, TmpFile, Type, RestFiles

LEMMA DataInvKept ==
    ASSUME OneOfAType, "extract" \notin Faults, RestoreInv, DataInv, [Next]_vars
    PROVE  DataInv'
<1>1. /\ StoreOK /\ JobsOK /\ DelsOK /\ RestsOK /\ AdapterTypeOK
      /\ \A b \in Backups : DumpsOwn(b)
      /\ \A key \in bucket : contents[key].db = key[1]
      /\ \A b \in Backups : JobType(b) \in TmpFile
  BY RestoreInvParts DEF DataInv, JobType, TmpFile, Type
<1>2. CASE \E b \in Backups : BackupRuns(b)
  <2>1. PICK b \in Backups : BackupRuns(b)
    BY <1>2
  <2>2. /\ \A c \in Backups : c # b => job'[c] = job[c]
        /\ job[b].pc = "idle" => UNCHANGED tmp
        /\ \A file \in TmpFile : file # JobType(b) => tmp'[file] = tmp[file]
    BY <1>1, <2>1, BackupLeaves
  <2>3. ASSUME NEW c \in Backups, c # b
        PROVE  DumpsOwn(c)'
    <3>1. CASE job[c].pc = "idle"
      <4>1. job'[c].pc = "idle"
        BY <2>2, <2>3, <3>1
      <4> QED
        BY <4>1 DEF DumpsOwn
    <3>2. CASE job[b].pc = "idle"
      BY <1>1, <2>2, <2>3, <3>2, DumpsOwnStands
    <3>3. CASE job[b].pc # "idle" /\ job[c].pc # "idle"
      <4>1. JobType(c) # JobType(b)
        BY <1>1, <2>3, <3>3 DEF DumpsOwn, OneOfAType
      <4> QED
        BY <1>1, <2>2, <2>3, <4>1, DumpsOwnStands
    <3> QED
      BY <3>1, <3>2, <3>3
  <2>4. DumpsOwn(b)'
    BY <1>1, <2>1, BackupDumpsOwn
  <2>5. \A key \in bucket' : contents'[key].db = key[1]
    <3>1. CASE KeepData /\ bucket' \subseteq bucket
      BY <1>1, <3>1, ContentsKept DEF KeepData
    <3>2. CASE UNCHANGED <<contents, bucket>>
      BY <1>1, <3>2
    <3>3. CASE Stored(b) /\ bucket' = bucket \cup {job[b].key} /\ job[b].pc = "uploading"
      BY <1>1, <3>3, StoredIsOwn
    <3> QED
      BY <2>1, <3>1, <3>2, <3>3
      DEF BackupRuns, AdapterStep, BackupRefused, BackupToDisk, BackupFails, UploadStream,
          UploadStreamFails, CloseReader, BeginFull, BeginLog, SaveLog, StartRecord, Dump,
          DumpFail, Upload, UploadFail, Close, CloseFail, Discard, Fail, Complete,
          PutObject, DeleteObject
  <2> QED
    BY <2>3, <2>4, <2>5 DEF DataInv
<1>3. ASSUME UNCHANGED job, \A file \in Type : tmp'[file] = tmp[file],
             \A key \in bucket' : contents'[key].db = key[1]
      PROVE  DataInv'
  <2>1. \A b \in Backups : JobType(b) \in Type
    BY DEF JobType, Type
  <2> QED
    BY <1>1, <1>3, <2>1, DumpsOwnStands DEF DataInv
<1>4. CASE (\E db \in Databases : Application(db)) \/ UNCHANGED vars
  BY <1>1, <1>3, <1>4 DEF Application, Commit, vars
<1>5. CASE \E u \in Users : UserActs(u)
  <2>1. PICK u \in Users : UserActs(u)
    BY <1>5
  <2>2. /\ UserDeletes(u) \/ DeleteStep(u) \/ UserReturns(u)
        /\ KeepData /\ LogsStay /\ UNCHANGED job
    BY <2>1 DEF UserActs, KeepData, LogsStay, LogsStarted
  <2>3. bucket' \subseteq bucket
    BY <1>1, <2>2, UserKeeps
  <2> QED
    BY <1>1, <1>3, <2>2, <2>3, ContentsKept DEF KeepData
<1>6. CASE \E r \in Restorers : RestoreAsked(r) \/ RestoreRuns(r)
  <2>1. PICK r \in Restorers : RestoreAsked(r) \/ RestoreStep(r)
    BY <1>6 DEF RestoreRuns
  <2>2. UNCHANGED <<bucket, job>>
    BY <2>1
    DEF RestoreAsked, UserRestores, UserRestoresAll, RestoreStep, RestoreReturns, RestoreStarts,
        RestoreChain, RestoreNoStorage, RestoreDownload, RestoreApply, RestoreApplyFails,
        RestoreFinish, backupVars
  <2>3. KeepData \/ UNCHANGED contents
    BY <2>1
    DEF RestoreAsked, UserRestores, UserRestoresAll, RestoreStep, RestoreReturns, RestoreStarts,
        RestoreChain, RestoreNoStorage, RestoreDownload, RestoreApply, RestoreApplyFails,
        RestoreFinish, RestoreData
  <2>5. \A file \in Type : tmp'[file] = tmp[file]
    BY <1>1, <2>1, RestoreLeavesDumps
  <2>6. \A key \in bucket' : contents'[key].db = key[1]
    BY <1>1, <2>2, <2>3, ContentsKept DEF KeepData
  <2> QED
    BY <1>3, <2>2, <2>5, <2>6
<1>7. CASE Crash
  <2>1. job' = [b \in Backups |-> IdleJob] /\ KeepData /\ UNCHANGED bucket
    BY <1>7 DEF Crash
  <2>2. \A b \in Backups : job'[b].pc = "idle"
    BY <2>1 DEF IdleJob
  <2>3. \A key \in bucket' : contents'[key].db = key[1]
    BY <1>1, <2>1, ContentsKept DEF KeepData
  <2> QED
    BY <2>2, <2>3 DEF DataInv, DumpsOwn
<1> QED
  BY <1>2, <1>4, <1>5, <1>6, <1>7 DEF Next

(* What a completed backup holds is a dump of its own database, although   *)
(* all SQL Server databases are dumped to one temporary file per type: as  *)
(* long as the queue runs one full and one log backup at a time, and the   *)
(* extraction of the file does not fail unnoticed.  It holds whether or    *)
(* not two backups may share an object key.                                *)
THEOREM OwnDataHolds ==
    ASSUME OneOfAType, "extract" \notin Faults
    PROVE  Spec => []OwnData
<1>1. Init => RestoreInv /\ DataInv
  <2> SUFFICES ASSUME Init
               PROVE  DataInv
    BY RestoreInvStarts
  <2>1. bucket = {} /\ job = [b \in Backups |-> IdleJob]
    BY DEF Init, StoreInit, JobInit
  <2>2. \A b \in Backups : job[b].pc = "idle"
    BY <2>1 DEF IdleJob
  <2> QED
    BY <2>1, <2>2 DEF DataInv, DumpsOwn
<1>2. RestoreInv /\ DataInv /\ [Next]_vars => RestoreInv' /\ DataInv'
  BY RestoreInvKept, DataInvKept
<1>3. RestoreInv /\ DataInv => OwnData
  BY RestoreInvParts DEF OwnData, DataInv, StoreOK, RecordsLinked, RecordLinked, ObjectExists
<1> QED
  BY <1>1, <1>2, <1>3, PTL DEF Spec

-----------------------------------------------------------------------------
(* The records in order, whatever overlaps *)

(* What a change of status leaves as it was. *)
LEMMA UpdateChanges ==
    ASSUME StoreOK, NEW i \in DOMAIN records, NEW status, NEW key, Update(i, status, key)
    PROVE  /\ DOMAIN records' = DOMAIN records /\ Len(records') = Len(records)
           /\ records'[i].status = status /\ records'[i].fileName = key
           /\ \A j \in DOMAIN records : j # i => records'[j] = records[j]
<1> DEFINE new == [records[i] EXCEPT !.status = status, !.fileName = key]
<1>1. records \in Seq(BackupRecord) /\ records[i] \in BackupRecord
  BY RecordsHaveTypes
<1>2. new.status = status /\ new.fileName = key
  BY <1>1 DEF BackupRecord
<1>3. records' = [records EXCEPT ![i] = new]
  BY <1>1 DEF Update, BackupRecord
<1> HIDE DEF new
<1> QED
  BY <1>1, <1>2, <1>3, LenProperties

LEMMA UpdateStatusChanges ==
    ASSUME StoreOK, NEW i \in DOMAIN records, NEW status, UpdateStatus(i, status)
    PROVE  /\ DOMAIN records' = DOMAIN records /\ Len(records') = Len(records)
           /\ records'[i].status = status /\ records'[i].fileName = records[i].fileName
           /\ \A j \in DOMAIN records : j # i => records'[j] = records[j]
<1>1. records[i] \in BackupRecord
  BY RecordsHaveTypes
<1>2. PICK key : key = records[i].fileName
  OBVIOUS
<1>3. Update(i, status, key)
  BY <1>1, <1>2 DEF UpdateStatus, Update, BackupRecord
<1> QED
  BY <1>2, <1>3, UpdateChanges

LEMMA StartRecordAdds ==
    ASSUME StoreOK, JobsOK, NEW b \in Backups, NEW db, NEW parent, StartRecord(b, db, parent)
    PROVE  /\ Len(records) \in Nat /\ DOMAIN records = 1..Len(records)
           /\ DOMAIN records' = 1..(Len(records) + 1) /\ Len(records') = Len(records) + 1
           /\ \A i \in DOMAIN records : records'[i] = records[i]
           /\ records'[Len(records) + 1].fileName = NoKey
           /\ records'[Len(records) + 1].status = "running"
           /\ records'[Len(records) + 1].parent = parent
           /\ records'[Len(records) + 1].db = db
           /\ job'[b].pc = "dumping" /\ job'[b].id = Len(records) + 1
           /\ job'[b].parent = parent /\ job'[b].db = db
<1>1. PICK days \in RetainDays :
          Save(NewRecord(db, IF parent = NoId THEN "full" ELSE "log", parent, days))
  BY DEF StartRecord
<1>2. PICK rec : rec = NewRecord(db, IF parent = NoId THEN "full" ELSE "log", parent, days)
  OBVIOUS
<1>3. rec.fileName = NoKey /\ rec.parent = parent /\ rec.db = db /\ rec.status = "running"
  BY <1>2 DEF NewRecord
<1>4. records \in Seq(BackupRecord) /\ records' = Append(records, rec)
  BY <1>1, <1>2, RecordsHaveTypes DEF Save
<1>5. /\ Len(records) \in Nat /\ DOMAIN records = 1..Len(records)
      /\ DOMAIN records' = 1..(Len(records) + 1) /\ Len(records') = Len(records) + 1
      /\ \A i \in DOMAIN records : records'[i] = records[i]
      /\ records'[Len(records) + 1] = rec
  BY <1>4, LenProperties
<1>6. job \in [Backups -> JobState]
  BY DEF JobsOK, JobTypeOK
<1>7. PICK j : /\ j = [pc |-> "dumping", id |-> Len(records) + 1, db |-> db,
                       parent |-> parent, key |-> NoKey]
               /\ job' = [job EXCEPT ![b] = j]
  BY DEF StartRecord
<1>8. job'[b] = j
  BY <1>6, <1>7
<1> QED
  BY <1>3, <1>5, <1>7, <1>8

LEMMA KindStays ==
    ASSUME StoreOK, StoreOK', Grows, NEW i \in DOMAIN records
    PROVE  (IsFull(i)' <=> IsFull(i)) /\ records'[i].db = records[i].db
BY DEF StoreOK, RecordsLinked, RecordLinked, Grows

(* A record that no backup is at is left alone, but that it may expire.    *)
Rests ==
    /\ overlapped \subseteq overlapped'
    /\ \A i \in DOMAIN records : ~AtWork(i) =>
          ~AtWork(i)' /\ records'[i].status \in {records[i].status, "expired"}

LEMMA LostStays ==
    ASSUME Rests, NEW i \in DOMAIN records
    PROVE  (Lost(i) => Lost(i)') /\ (Settled(i) => Settled(i)')
BY DEF Rests, Lost, Settled

LEMMA ChainedStays ==
    ASSUME StoreOK, StoreOK', Grows, Rests, NEW full, NEW db, NEW last \in Nat,
           last <= Len(records), ChainedTo(full, db, last)
    PROVE  ChainedTo(full, db, last)'
<1>1. DOMAIN records = 1..Len(records) /\ Len(records) \in Nat
  BY RecordsHaveTypes, LenProperties
<1>2. /\ full \in DOMAIN records /\ full <= last /\ IsFull(full) /\ records[full].db = db
      /\ Settled(full)
  BY DEF ChainedTo
<1>3. full \in DOMAIN records' /\ IsFull(full)' /\ records'[full].db = db /\ Settled(full)'
  BY <1>2, KindStays, LostStays DEF Grows
<1>4. ASSUME NEW f \in full + 1..last, IsFull(f)', records'[f].db = db
      PROVE  f \in overlapped' \/ Lost(f)'
  <2>1. f \in DOMAIN records
    BY <1>1, <1>2
  <2>2. IsFull(f) /\ records[f].db = db
    BY <1>4, <2>1, KindStays
  <2>3. f \in overlapped \/ Lost(f)
    BY <2>2 DEF ChainedTo
  <2> QED
    BY <2>1, <2>3, LostStays DEF Rests
<1> QED
  BY <1>2, <1>3, <1>4 DEF ChainedTo

LEMMA RecordInOrderStays ==
    ASSUME StoreOK, StoreOK', Grows, Rests, NEW i \in DOMAIN records, RecordInOrder(i),
           records'[i].fileName # NoKey => records'[i].fileName[3] = i
    PROVE  RecordInOrder(i)'
<1>1. (IsFull(i)' <=> IsFull(i)) /\ records'[i].db = records[i].db
      /\ records'[i].parent = records[i].parent
  BY KindStays DEF Grows
<1>2. PICK full, db, last : full = records[i].parent /\ db = records[i].db /\ last = i - 1
  OBVIOUS
<1>3. last \in Nat /\ last <= Len(records)
  BY <1>2, RecordsHaveTypes, LenProperties DEF RecId
<1>4. ~IsFull(i) => ChainedTo(full, db, last)
  BY <1>2 DEF RecordInOrder
<1>5. ~IsFull(i) => ChainedTo(full, db, last)'
  BY <1>3, <1>4, ChainedStays
<1>6. ~IsFull(i)' => ChainedTo(records[i].parent, records[i].db, i - 1)'
  BY <1>1, <1>2, <1>5 DEF ChainedTo
<1> QED
  BY <1>6 DEF RecordInOrder

(* A backup that does not move remains in order, whatever is new.          *)
LEMMA JobInOrderStays ==
    ASSUME StoreOK, StoreOK', JobsOK, Grows, Rests, NEW b \in Backups, JobInOrder(b),
           job'[b] = job[b],
           Working(b) =>
              /\ records'[job[b].id].fileName = NoKey
              /\ records'[job[b].id].status # "completed",
           \A c \in Backups : c # b /\ Working(c)' => job'[c].id # job[b].id \/ ~Working(b),
           \A j \in DOMAIN records' \ DOMAIN records :
              job[b].pc # "idle" /\ records'[j].db = job[b].db =>
                 j \in overlapped' /\ (Working(b) => job[b].id \in overlapped')
    PROVE  JobInOrder(b)'
<1>1. JobKnown(b)
  BY DEF JobsOK, JobsKnown
<1>2. DOMAIN records = 1..Len(records) /\ Len(records) \in Nat
  BY RecordsHaveTypes, LenProperties
<1>3. DOMAIN records' = 1..Len(records') /\ Len(records') \in Nat
  BY RecordsHaveTypes, LenProperties DEF StoreOK, StoreTypeOK
<1>4. PICK n, db, full : n = job[b].id /\ db = job[b].db /\ full = job[b].parent
  OBVIOUS
<1>5. job'[b].id = n /\ job'[b].db = db /\ job'[b].parent = full /\ (Working(b)' <=> Working(b))
  BY <1>4 DEF Working
<1>6. ASSUME Working(b)
      PROVE  /\ records'[n].fileName = NoKey
             /\ records'[n].status # "completed"
             /\ records'[n].parent = full
             /\ \A c \in Backups : c # b /\ Working(c)' => job'[c].id # n
             /\ \A j \in DOMAIN records' : j > n /\ records'[j].db = db => {n, j} \subseteq overlapped'
  <2>1. n \in DOMAIN records /\ records[n].parent = full
    BY <1>1, <1>4, <1>6 DEF JobKnown, Working, JobInOrder
  <2>2. records'[n].parent = full
    BY <2>1 DEF Grows
  <2>3. ASSUME NEW j \in DOMAIN records', j > n, records'[j].db = db
        PROVE  {n, j} \subseteq overlapped'
    <3>1. CASE j \in DOMAIN records
      <4>1. records[j].db = db
        BY <2>3, <3>1 DEF Grows
      <4>2. {n, j} \subseteq overlapped
        BY <1>4, <1>6, <2>3, <3>1, <4>1 DEF JobInOrder
      <4> QED
        BY <4>2 DEF Rests
    <3>2. CASE j \notin DOMAIN records
      <4>1. job[b].pc # "idle"
        BY <1>6 DEF Working
      <4> QED
        BY <1>4, <1>6, <2>3, <3>2, <4>1
    <3> QED
      BY <3>1, <3>2
  <2> QED
    BY <1>4, <1>6, <2>2, <2>3
<1>7. job'[b].pc \in Dumped => job'[b].key[3] = n
  BY <1>4 DEF JobInOrder
<1>8. ASSUME job[b].pc = "chained"
      PROVE  ChainedTo(full, db, Len(records))'
  <2>1. PICK last \in Nat : last = Len(records)
    BY <1>2
  <2>2. ChainedTo(full, db, last)
    BY <1>4, <1>8, <2>1 DEF JobInOrder
  <2>3. ChainedTo(full, db, last)'
    BY <2>1, <2>2, ChainedStays
  <2>4. full \in Nat /\ full <= last /\ last <= Len(records')
    BY <1>2, <1>3, <2>1, <2>2 DEF ChainedTo, Grows
  <2>5. ASSUME NEW f \in full + 1..Len(records'), IsFull(f)', records'[f].db = db
        PROVE  f \in overlapped' \/ Lost(f)'
    <3>1. CASE f <= last
      BY <2>3, <2>4, <2>5, <3>1 DEF ChainedTo
    <3>2. CASE ~(f <= last)
      <4>1. f \in DOMAIN records' \ DOMAIN records
        BY <1>2, <1>3, <2>1, <2>4, <3>2
      <4> QED
        BY <1>4, <1>8, <2>5, <4>1
    <3> QED
      BY <3>1, <3>2
  <2> QED
    BY <1>3, <2>3, <2>4, <2>5 DEF ChainedTo
<1>9. job'[b].pc = "chained" => ChainedTo(job[b].parent, job[b].db, Len(records))'
  BY <1>5, <1>8 DEF ChainedTo
<1> QED
  BY <1>5, <1>6, <1>7, <1>9 DEF JobInOrder

LEMMA RestsFollows ==
    ASSUME NEW b \in Backups, \A c \in Backups : c # b => job'[c] = job[c],
           overlapped \subseteq overlapped',
           Working(b)' => (Working(b) /\ job'[b].id = job[b].id) \/ job'[b].id \notin DOMAIN records,
           \A i \in DOMAIN records : ~(Working(b) /\ i = job[b].id) =>
              records'[i].status = records[i].status
    PROVE  Rests
<1>1. ASSUME NEW i \in DOMAIN records, ~AtWork(i)
      PROVE  ~AtWork(i)' /\ records'[i].status = records[i].status
  <2>1. ASSUME NEW c \in Backups, Working(c)', job'[c].id = i
        PROVE  FALSE
    <3>1. CASE c = b
      BY <1>1, <2>1, <3>1 DEF AtWork
    <3>2. CASE c # b
      BY <1>1, <2>1, <3>2 DEF AtWork, Working
    <3> QED
      BY <3>1, <3>2
  <2>2. ~(Working(b) /\ i = job[b].id)
    BY <1>1 DEF AtWork
  <2> QED
    BY <2>1, <2>2 DEF AtWork
<1> QED
  BY <1>1 DEF Rests

(* A backup moves: the others stay in order, and a record that it begins   *)
(* overlaps with those of its database that were begun before it.          *)
LEMMA OrderFollows ==
    ASSUME StoreOK, StoreOK', JobsOK, JobsOK', Grows, OrderInv, NEW b \in Backups,
           \A c \in Backups : c # b => job'[c] = job[c],
           overlapped' = overlapped \cup Overlap',
           Working(b)' => (Working(b) /\ job'[b].id = job[b].id) \/ job'[b].id \notin DOMAIN records,
           \A i \in DOMAIN records : ~(Working(b) /\ i = job[b].id) =>
              records'[i].fileName = records[i].fileName /\ records'[i].status = records[i].status,
           \A i \in DOMAIN records : records'[i].fileName # NoKey => records'[i].fileName[3] = i,
           \A j \in DOMAIN records' \ DOMAIN records :
              Working(b)' /\ j = job'[b].id /\ RecordInOrder(j)',
           JobInOrder(b)'
    PROVE  OrderInv'
<1>1. \A c \in Backups : JobKnown(c) /\ JobInOrder(c) /\ JobKnown(c)'
  BY DEF OrderInv, JobsOK, JobsKnown
<1>2. Rests
  BY RestsFollows
<1>3. ASSUME NEW i \in DOMAIN records'
      PROVE  RecordInOrder(i)'
  <2>1. CASE i \in DOMAIN records
    BY <1>2, <2>1, RecordInOrderStays DEF OrderInv
  <2> QED
    BY <2>1
<1>4. ASSUME NEW c \in Backups, c # b
      PROVE  JobInOrder(c)'
  <2>1. job'[c] = job[c] /\ JobInOrder(c) /\ JobKnown(c)
    BY <1>1, <1>4
  <2>2. Working(c) => job[c].id \in DOMAIN records
    BY <2>1 DEF JobKnown, Working
  <2>3. ASSUME Working(c)
        PROVE  records'[job[c].id].fileName = NoKey /\ records'[job[c].id].status # "completed"
    <3>1. ~(Working(b) /\ job[c].id = job[b].id)
      BY <1>4, <2>1, <2>3 DEF JobInOrder
    <3> QED
      BY <2>1, <2>2, <2>3, <3>1 DEF JobInOrder
  <2>4. ASSUME NEW d \in Backups, d # c, Working(d)', Working(c)
        PROVE  job'[d].id # job[c].id
    <3>1. CASE d # b
      <4>1. Working(d) /\ job'[d] = job[d]
        BY <2>4, <3>1 DEF Working
      <4> QED
        BY <2>1, <2>4, <4>1 DEF JobInOrder
    <3>2. CASE d = b
      BY <2>1, <2>2, <2>4, <3>2 DEF JobInOrder
    <3> QED
      BY <3>1, <3>2
  <2>5. ASSUME NEW j \in DOMAIN records' \ DOMAIN records,
               job[c].pc # "idle", records'[j].db = job[c].db
        PROVE  j \in overlapped' /\ (Working(c) => job[c].id \in overlapped')
    <3>1. Working(b)' /\ j = job'[b].id
      OBVIOUS
    <3>2. job'[b].db = job'[c].db /\ job'[c].pc # "idle" /\ job'[b].pc # "idle"
      BY <1>1, <2>1, <2>5, <3>1 DEF JobKnown, Working
    <3>3. InTheWay(b, c)' /\ InTheWay(c, b)'
      BY <1>4, <3>2 DEF InTheWay
    <3>4. j \in Overlap'
      BY <3>1, <3>3 DEF Overlap
    <3>5. Working(c) => job[c].id \in Overlap'
      BY <2>1, <3>3 DEF Overlap, Working
    <3> QED
      BY <3>4, <3>5
  <2> QED
    BY <1>2, <2>1, <2>3, <2>4, <2>5, JobInOrderStays
<1> QED
  BY <1>3, <1>4 DEF OrderInv

LEMMA OrderBegins ==
    ASSUME StoreOK, StoreOK', JobsOK, JobsOK', Grows, OrderInv, NEW b \in Backups,
           \A c \in Backups : c # b => job'[c] = job[c],
           overlapped' = overlapped \cup Overlap',
           NEW db, NEW parent, StartRecord(b, db, parent), ~Working(b),
           parent # NoId => ChainedTo(parent, db, Len(records))
    PROVE  OrderInv'
<1>1. PICK last : last = Len(records)
  OBVIOUS
<1>2. PICK n : n = last + 1
  OBVIOUS
<1>3. /\ last \in Nat /\ DOMAIN records = 1..last
      /\ DOMAIN records' = 1..n /\ Len(records') = n
      /\ \A i \in DOMAIN records : records'[i] = records[i]
      /\ records'[n].fileName = NoKey /\ records'[n].status = "running"
      /\ records'[n].parent = parent /\ records'[n].db = db
      /\ job'[b].pc = "dumping" /\ job'[b].id = n /\ job'[b].parent = parent
  BY <1>1, <1>2, StartRecordAdds, Zenon
<1>4. /\ DOMAIN records' = DOMAIN records \cup {n} /\ last = n - 1 /\ n \in Nat
      /\ n \notin DOMAIN records /\ n \in DOMAIN records'
  BY <1>2, <1>3
<1>5. Working(b)' /\ job'[b].id \notin DOMAIN records
  BY <1>3, <1>4 DEF Working
<1>6. Rests
  BY <1>3, <1>5, RestsFollows
<1>7. RecordInOrder(n)'
  <2>1. IsFull(n)' <=> parent = NoId
    BY <1>3, <1>4 DEF StoreOK, RecordsLinked, RecordLinked
  <2>2. parent # NoId => ChainedTo(parent, db, last)
    BY <1>1
  <2>3. last <= Len(records)
    BY <1>1, <1>3
  <2>4. parent # NoId => ChainedTo(parent, db, last)'
    BY <1>3, <1>6, <2>2, <2>3, ChainedStays
  <2>5. parent # NoId => ChainedTo(records[n].parent, records[n].db, n - 1)'
    BY <1>3, <1>4, <2>4 DEF ChainedTo
  <2> QED
    BY <1>3, <2>1, <2>5 DEF RecordInOrder
<1>8. JobInOrder(b)'
  <2>1. ASSUME NEW c \in Backups, c # b, Working(c)'
        PROVE  job'[c].id # n
    <3>1. Working(c) /\ job'[c] = job[c] /\ JobKnown(c)
      BY <2>1 DEF Working, JobsOK, JobsKnown
    <3> QED
      BY <1>4, <3>1 DEF JobKnown, Working
  <2>2. \A j \in DOMAIN records' : ~(j > n)
    BY <1>3, <1>4
  <2> QED
    BY <1>3, <2>1, <2>2 DEF JobInOrder, Dumped
<1>9. ASSUME NEW i \in DOMAIN records, records'[i].fileName # NoKey
      PROVE  records'[i].fileName[3] = i
  BY <1>3, <1>9 DEF OrderInv, RecordInOrder
<1>10. \A j \in DOMAIN records' \ DOMAIN records : j = n
  BY <1>4
<1> QED
  BY <1>3, <1>5, <1>7, <1>8, <1>9, <1>10, OrderFollows

(* A log backup finds its full: the fulls that are newer either overlap it *)
(* or are lost.                                                            *)
LEMMA OrderChains ==
    ASSUME StoreOK, StoreOK', JobsOK, JobsOK', Grows, OrderInv, NEW b \in Backups,
           \A c \in Backups : c # b => job'[c] = job[c],
           overlapped' = overlapped \cup Overlap', BeginLog(b)
    PROVE  OrderInv'
<1>1. PICK db \in SqlServer, full \in DOMAIN records :
          /\ LatestCompletedFull(db, full)
          /\ job' = [job EXCEPT ![b].pc = "chained", ![b].db = db, ![b].parent = full]
          /\ UNCHANGED <<records, bucket, now>>
  BY DEF BeginLog
<1>2. job \in [Backups -> JobState] /\ job[b] \in JobState /\ job[b].pc = "idle"
  BY DEF JobsOK, JobTypeOK, BeginLog
<1>3. job'[b].pc = "chained" /\ job'[b].db = db /\ job'[b].parent = full
  BY <1>1, <1>2 DEF JobState
<1>4. ~Working(b) /\ ~Working(b)'
  BY <1>2, <1>3 DEF Working
<1>5. Rests
  BY <1>1, <1>4, RestsFollows
<1>6. ASSUME NEW c \in Backups, Working(c)
      PROVE  /\ c # b /\ job'[c] = job[c] /\ job[c].id \in DOMAIN records
             /\ records[job[c].id].db = job[c].db /\ records[job[c].id].status # "completed"
  <2>1. JobKnown(c) /\ JobInOrder(c) /\ c # b
    BY <1>4, <1>6 DEF JobsOK, JobsKnown, OrderInv
  <2> QED
    BY <1>6, <2>1 DEF JobKnown, JobInOrder, Working
<1>7. IsFull(full) /\ records[full].db = db /\ records[full].status = "completed"
  BY <1>1 DEF LatestCompletedFull, Newest, CompletedFulls
<1>8. Settled(full)
  BY <1>6, <1>7 DEF Settled, AtWork
<1>9. PICK last \in Nat : last = Len(records) /\ DOMAIN records = 1..last
  BY RecordsHaveTypes, LenProperties
<1>10. ASSUME NEW f \in full + 1..last, IsFull(f), records[f].db = db
       PROVE  f \in overlapped' \/ Lost(f)
  <2>1. f \in DOMAIN records /\ ~(f <= full)
    BY <1>9
  <2>2. records[f].status # "completed"
    BY <1>1, <1>10, <2>1 DEF LatestCompletedFull, Newest, CompletedFulls
  <2>3. CASE ~AtWork(f)
    BY <2>2, <2>3 DEF Lost
  <2>4. CASE AtWork(f)
    <3>1. PICK c \in Backups : Working(c) /\ job[c].id = f
      BY <2>4 DEF AtWork
    <3>2. c # b /\ job'[c] = job[c] /\ job[c].db = db
      BY <1>6, <1>10, <3>1
    <3>3. InTheWay(c, b)' /\ Working(c)' /\ job'[c].id = f
      BY <1>3, <3>1, <3>2 DEF InTheWay, Working
    <3>4. f \in Overlap'
      BY <3>3 DEF Overlap
    <3> QED
      BY <3>4
  <2> QED
    BY <2>3, <2>4
<1>11. ChainedTo(full, db, last)'
  <2>1. full \in DOMAIN records' /\ full <= last /\ IsFull(full)' /\ records'[full].db = db
    BY <1>1, <1>7, <1>9 DEF IsFull
  <2>2. Settled(full)'
    BY <1>5, <1>8, LostStays
  <2>3. ASSUME NEW f \in full + 1..last, IsFull(f)', records'[f].db = db
        PROVE  f \in overlapped' \/ Lost(f)'
    <3>1. f \in DOMAIN records /\ IsFull(f) /\ records[f].db = db
      BY <1>1, <1>9, <2>3 DEF IsFull
    <3> QED
      BY <1>5, <1>10, <3>1, LostStays
  <2> QED
    BY <2>1, <2>2, <2>3 DEF ChainedTo
<1>12. JobInOrder(b)'
  <2>1. ChainedTo(job[b].parent, job[b].db, Len(records))'
    BY <1>1, <1>3, <1>9, <1>11 DEF ChainedTo
  <2> QED
    BY <1>3, <1>4, <2>1 DEF JobInOrder, Dumped
<1>13. \A i \in DOMAIN records : records'[i].fileName # NoKey => records'[i].fileName[3] = i
  BY <1>1 DEF OrderInv, RecordInOrder
<1> QED
  BY <1>1, <1>4, <1>12, <1>13, OrderFollows

(* A backup moves on with its record, or is done with it.                  *)
LEMMA OrderMoves ==
    ASSUME StoreOK, StoreOK', JobsOK, JobsOK', Grows, OrderInv, NEW b \in Backups,
           \A c \in Backups : c # b => job'[c] = job[c],
           overlapped' = overlapped \cup Overlap',
           UNCHANGED records, Working(b), Working(b)',
           job'[b].id = job[b].id, job'[b].db = job[b].db, job'[b].parent = job[b].parent,
           job'[b].pc \in Dumped =>
              \/ job'[b].key = job[b].key /\ job[b].pc \in Dumped
              \/ job'[b].key[3] = job[b].id
    PROVE  OrderInv'
<1>1. JobInOrder(b) /\ job'[b].pc # "chained"
  BY DEF OrderInv, Working
<1>2. JobInOrder(b)'
  <2>1. PICK n : n = job[b].id
    OBVIOUS
  <2>2. \A c \in Backups : c # b /\ Working(c)' => job'[c].id # n
    BY <1>1, <2>1 DEF JobInOrder, Working
  <2>3. job'[b].pc \in Dumped => job'[b].key[3] = n
    BY <1>1, <2>1 DEF JobInOrder
  <2> HIDE DEF Working, Dumped
  <2> QED
    BY <1>1, <2>1, <2>2, <2>3 DEF JobInOrder
<1>3. \A i \in DOMAIN records : records'[i].fileName # NoKey => records'[i].fileName[3] = i
  BY DEF OrderInv, RecordInOrder
<1> QED
  BY <1>2, <1>3, OrderFollows

LEMMA OrderEnds ==
    ASSUME StoreOK, StoreOK', JobsOK, JobsOK', Grows, OrderInv, NEW b \in Backups,
           \A c \in Backups : c # b => job'[c] = job[c],
           overlapped' = overlapped \cup Overlap',
           Working(b), job'[b].pc = "idle", DOMAIN records' = DOMAIN records,
           NEW i \in DOMAIN records, i = job[b].id,
           records'[i].fileName # NoKey => records'[i].fileName[3] = i,
           \A j \in DOMAIN records : j # i => records'[j] = records[j]
    PROVE  OrderInv'
<1>1. JobInOrder(b)' /\ ~Working(b)'
  BY DEF JobInOrder, Working, Dumped
<1>2. ASSUME NEW j \in DOMAIN records, records'[j].fileName # NoKey
      PROVE  records'[j].fileName[3] = j
  <2>1. CASE j = i
    BY <1>2, <2>1
  <2>2. CASE j # i
    BY <1>2, <2>2 DEF OrderInv, RecordInOrder
  <2> QED
    BY <2>1, <2>2
<1> QED
  BY <1>1, <1>2, OrderFollows

LEMMA OrderBackup ==
    ASSUME UniqueStamps, StoreOK, JobsOK, AdapterTypeOK, OrderInv,
           NEW b \in Backups, BackupRuns(b)
    PROVE  OrderInv'
<1>1. /\ StoreOK' /\ JobsOK' /\ Grows
      /\ job \in [Backups -> JobState] /\ job[b] \in JobState
      /\ JobKnown(b) /\ JobInOrder(b)
      /\ \A c \in Backups : c # b => job'[c] = job[c]
      /\ overlapped' = overlapped \cup Overlap'
  BY BackupKeeps, BackupLeaves DEF JobsOK, JobTypeOK, JobsKnown, OrderInv, BackupRuns
<1>2. CASE BeginFull(b)
  <2>1. PICK db : StartRecord(b, db, NoId)
    BY <1>2 DEF BeginFull
  <2>2. ~Working(b)
    BY <1>2 DEF BeginFull, Working
  <2> QED
    BY <1>1, <2>1, <2>2, OrderBegins
<1>3. CASE SaveLog(b)
  <2>1. PICK db, parent : db = job[b].db /\ parent = job[b].parent
    OBVIOUS
  <2>2. job[b].pc = "chained" /\ StartRecord(b, db, parent) /\ ~Working(b)
    BY <1>3, <2>1 DEF SaveLog, Working
  <2>3. ChainedTo(parent, db, Len(records))
    BY <1>1, <2>1, <2>2 DEF JobInOrder
  <2> QED
    BY <1>1, <2>2, <2>3, OrderBegins
<1>4. CASE BeginLog(b)
  BY <1>1, <1>4, OrderChains
<1>5. CASE BackupToDisk(b)
  <2>1. PICK key : key = <<job[b].db, JobType(b), Stamp(b)>>
    OBVIOUS
  <2>2. /\ job[b].pc = "dumping" /\ UNCHANGED records
        /\ job' = [job EXCEPT ![b].pc = "uploading", ![b].key = key]
    BY <1>5, <2>1 DEF BackupToDisk, Dump
  <2>3. /\ job'[b].pc = "uploading" /\ job'[b].key = key /\ job'[b].id = job[b].id
        /\ job'[b].db = job[b].db /\ job'[b].parent = job[b].parent
    BY <1>1, <2>2 DEF JobState
  <2>4. key[3] = job[b].id
    BY <2>1 DEF Stamp
  <2> QED
    BY <1>1, <2>2, <2>3, <2>4, OrderMoves DEF Working
<1>6. ASSUME NEW pc \in {"failing", "closing", "completing", "discarding"},
             job' = [job EXCEPT ![b].pc = pc], UNCHANGED records,
             Working(b), pc # "failing" => job[b].pc \in Dumped
      PROVE  OrderInv'
  <2>1. /\ job'[b].pc = pc /\ job'[b].key = job[b].key /\ job'[b].id = job[b].id
        /\ job'[b].db = job[b].db /\ job'[b].parent = job[b].parent
    BY <1>1, <1>6 DEF JobState
  <2> QED
    BY <1>1, <1>6, <2>1, OrderMoves DEF Working, Dumped
<1>7. CASE BackupRefused(b) \/ BackupFails(b)
  BY <1>6, <1>7 DEF BackupRefused, BackupFails, DumpFail, Working
<1>8. CASE UploadStream(b) \/ UploadStreamFails(b)
  BY <1>6, <1>8 DEF UploadStream, UploadStreamFails, Upload, UploadFail, Working, Dumped
<1>9. CASE CloseReader(b) \/ Discard(b)
  BY <1>6, <1>9 DEF CloseReader, Close, CloseFail, Discard, Working, Dumped
<1>10. CASE Fail(b) \/ Complete(b)
  <2>1. job'[b].pc = "idle" /\ Working(b)
    BY <1>1, <1>10 DEF Fail, Complete, IdleJob, Working
  <2>2. PICK i \in DOMAIN records : i = job[b].id
    BY <1>1, <2>1 DEF JobKnown, Working
  <2>3. records[i].fileName = NoKey
    BY <1>1, <2>1, <2>2 DEF JobInOrder
  <2>4. /\ DOMAIN records' = DOMAIN records
        /\ records'[i].fileName # NoKey => records'[i].fileName[3] = i
        /\ \A j \in DOMAIN records : j # i => records'[j] = records[j]
    <3>1. CASE Fail(b)
      BY <2>2, <2>3, <3>1, UpdateStatusChanges DEF Fail
    <3>2. CASE Complete(b)
      <4>1. PICK key : key = job[b].key
        OBVIOUS
      <4>2. key[3] = i
        BY <1>1, <2>2, <3>2, <4>1 DEF Complete, JobInOrder, Dumped
      <4> QED
        BY <2>2, <3>2, <4>1, <4>2, UpdateChanges DEF Complete
    <3> QED
      BY <1>10, <3>1, <3>2
  <2> QED
    BY <1>1, <2>1, <2>2, <2>4, OrderEnds
<1> QED
  BY <1>2, <1>3, <1>4, <1>5, <1>7, <1>8, <1>9, <1>10 DEF BackupRuns, AdapterStep

(* Where no backup moves but to its end, records only expire. *)
LEMMA OrderBeside ==
    ASSUME StoreOK, StoreOK', JobsOK, Grows, OrderInv,
           \A b \in Backups : job'[b] = job[b] \/ job'[b].pc = "idle",
           UNCHANGED overlapped, DOMAIN records' = DOMAIN records,
           \A i \in DOMAIN records :
              /\ records'[i].fileName = records[i].fileName
              /\ records'[i].status \in {records[i].status, "expired"}
    PROVE  OrderInv'
<1>1. \A b \in Backups : Working(b)' => Working(b) /\ job'[b] = job[b]
  BY DEF Working
<1>2. Rests
  BY <1>1 DEF Rests, AtWork
<1>3. Overlap' \subseteq Overlap
  <2> SUFFICES ASSUME NEW b \in Backups, NEW c \in Backups, Working(b)', InTheWay(b, c)'
               PROVE  Working(b) /\ job'[b] = job[b] /\ InTheWay(b, c)
    BY DEF Overlap
  <2>1. Working(b) /\ job'[b] = job[b] /\ job'[c] = job[c]
    BY <1>1 DEF InTheWay
  <2> QED
    BY <2>1 DEF InTheWay, JobType
<1>4. \A i \in DOMAIN records' : RecordInOrder(i)'
  <2> SUFFICES ASSUME NEW i \in DOMAIN records
               PROVE  RecordInOrder(i)'
    OBVIOUS
  <2>1. RecordInOrder(i)
    BY DEF OrderInv
  <2>2. records'[i].fileName # NoKey => records'[i].fileName[3] = i
    BY <2>1 DEF RecordInOrder
  <2> QED
    BY <1>2, <2>1, <2>2, RecordInOrderStays
<1>5. ASSUME NEW b \in Backups
      PROVE  JobInOrder(b)'
  <2>1. CASE job'[b].pc = "idle"
    BY <2>1 DEF JobInOrder, Working, Dumped
  <2>2. CASE job'[b] = job[b]
    <3>1. JobInOrder(b) /\ JobKnown(b)
      BY DEF OrderInv, JobsOK, JobsKnown
    <3>2. Working(b) =>
             /\ records'[job[b].id].fileName = NoKey
             /\ records'[job[b].id].status # "completed"
      BY <3>1 DEF JobInOrder, JobKnown, Working
    <3>3. \A c \in Backups : c # b /\ Working(c)' => job'[c].id # job[b].id \/ ~Working(b)
      BY <1>1, <3>1 DEF JobInOrder
    <3> QED
      BY <1>2, <2>2, <3>1, <3>2, <3>3, JobInOrderStays
  <2> QED
    BY <2>1, <2>2
<1> QED
  BY <1>3, <1>4, <1>5 DEF OrderInv

LEMMA UserLeavesRecords ==
    ASSUME StoreOK, DelsOK, NEW u \in Users, UserDeletes(u) \/ DeleteStep(u) \/ UserReturns(u)
    PROVE  /\ DOMAIN records' = DOMAIN records
           /\ \A i \in DOMAIN records :
                 /\ records'[i].fileName = records[i].fileName
                 /\ records'[i].status \in {records[i].status, "expired"}
<1>1. CASE DeleteMark(u)
  <2>1. u \in Deleters
    BY DEF Deleters
  <2>2. PICK i \in DOMAIN records : i = del[u].cur.id
    BY <1>1, <2>1 DEF DelsOK, DeletesKnown, DeleteMark
  <2>3. UpdateStatus(i, "expired")
    BY <1>1, <2>2 DEF DeleteMark
  <2> QED
    BY <2>3, UpdateStatusChanges
<1>2. CASE UNCHANGED records
  BY <1>2
<1> QED
  BY <1>1, <1>2
  DEF UserDeletes, UserReturns, DeleteStep, DeleteFind, DeleteList, DeleteObjectOf,
      DeleteObjectSkipped, DeleteObjectFail

LEMMA OrderInvKept ==
    ASSUME UniqueStamps, RestoreInv, RestoreInv', OrderInv, [Next]_vars
    PROVE  OrderInv'
<1>1. /\ StoreOK /\ JobsOK /\ DelsOK /\ AdapterTypeOK /\ StoreOK'
  BY RestoreInvParts DEF RestoreInv, StoreOK, TypeOK
<1>2. CASE \E b \in Backups : BackupRuns(b)
  BY <1>1, <1>2, OrderBackup
<1>3. CASE \E u \in Users : UserActs(u)
  <2>1. PICK u \in Users : UserActs(u)
    BY <1>3
  <2>2. /\ UserDeletes(u) \/ DeleteStep(u) \/ UserReturns(u)
        /\ LogsStay /\ UNCHANGED <<job, overlapped>>
    BY <2>1 DEF UserActs, KeepData, LogsStay, LogsStarted
  <2>3. Grows
    BY <1>1, <2>2, UserKeeps
  <2> QED
    BY <1>1, <2>2, <2>3, UserLeavesRecords, OrderBeside
<1>4. CASE \/ \E db \in Databases : Application(db)
           \/ \E r \in Restorers : RestoreAsked(r) \/ RestoreRuns(r)
           \/ UNCHANGED vars
  <2>1. UNCHANGED <<records, job, overlapped>>
    BY <1>4
    DEF Application, vars, RestoreAsked, RestoreRuns, UserRestores, UserRestoresAll, RestoreStep,
        RestoreReturns, RestoreStarts, RestoreChain, RestoreNoStorage, RestoreDownload,
        RestoreApply, RestoreApplyFails, RestoreFinish, backupVars
  <2> QED
    BY <1>1, <2>1, OrderBeside DEF Grows
<1>5. CASE Crash
  <2>1. UNCHANGED <<records, overlapped>> /\ job' = [b \in Backups |-> IdleJob]
    BY <1>5 DEF Crash
  <2>2. \A b \in Backups : job'[b].pc = "idle"
    BY <2>1 DEF IdleJob
  <2> QED
    BY <1>1, <2>1, <2>2, OrderBeside DEF Grows
<1> QED
  BY <1>2, <1>3, <1>4, <1>5 DEF Next

-----------------------------------------------------------------------------
(* The dumps *)

HeldUnder(key, data) == key \in bucket /\ data = contents[key]

DumpBy(b, i, data) ==
    /\ job[b].id = i
    /\ \/ job[b].pc = "uploading" /\ data = tmp[JobType(b)]
       \/ job[b].pc \in {"closing", "completing"} /\ HeldUnder(job[b].key, data)

LEMMA InDumps ==
    ASSUME NEW i, NEW data
    PROVE  /\ data \in DumpsOf(i)
                <=> HeldUnder(records[i].fileName, data) \/ \E b \in Backups : DumpBy(b, i, data)
           /\ data \in DumpsOf(i)'
                <=> \/ HeldUnder(records[i].fileName, data)'
                    \/ \E b \in Backups : DumpBy(b, i, data)'
BY DEF DumpsOf, HeldUnder, DumpBy

(* No dump comes about but those there were, and those that overlap.       *)
DumpsStay ==
    \A i \in DOMAIN records' \ overlapped' : records'[i].db \in SqlServer =>
        \A data \in DumpsOf(i)' : i \in DOMAIN records /\ data \in DumpsOf(i)

LEMMA HeldStays ==
    ASSUME NEW key, NEW data, HeldUnder(key, data)', bucket' \subseteq bucket,
           contents' = [k \in bucket' |-> contents[k]] \/ UNCHANGED contents
    PROVE  HeldUnder(key, data)
BY DEF HeldUnder

(* Where objects are only taken away, and no backup moves but to its end.  *)
LEMMA DumpsStayBeside ==
    ASSUME \A b \in Backups : job'[b] = job[b] \/ job'[b].pc = "idle",
           DOMAIN records' = DOMAIN records,
           \A i \in DOMAIN records : records'[i].fileName = records[i].fileName,
           bucket' \subseteq bucket,
           contents' = [k \in bucket' |-> contents[k]] \/ UNCHANGED contents,
           \A type \in Type : tmp'[type] = tmp[type]
    PROVE  DumpsStay
<1> SUFFICES ASSUME NEW i \in DOMAIN records, NEW data, data \in DumpsOf(i)'
             PROVE  data \in DumpsOf(i)
  BY DEF DumpsStay
<1>1. CASE HeldUnder(records[i].fileName, data)'
  <2>1. PICK key : key = records[i].fileName
    OBVIOUS
  <2>2. HeldUnder(key, data)'
    BY <1>1, <2>1 DEF HeldUnder
  <2> QED
    BY <2>1, <2>2, HeldStays, InDumps
<1>2. CASE \E b \in Backups : DumpBy(b, i, data)'
  <2>1. PICK b \in Backups : DumpBy(b, i, data)'
    BY <1>2
  <2>2. PICK key : key = job[b].key
    OBVIOUS
  <2>3. job'[b] = job[b]
    BY <2>1 DEF DumpBy
  <2>4. HeldUnder(job[b].key, data)' => HeldUnder(job[b].key, data)
    <3>1. HeldUnder(job[b].key, data)' => HeldUnder(key, data)'
      BY <2>2, <2>3 DEF HeldUnder
    <3> QED
      BY <2>2, <3>1, HeldStays
  <2>5. JobType(b)' = JobType(b) /\ JobType(b) \in Type
    BY <2>3 DEF JobType, Type
  <2>6. DumpBy(b, i, data)
    BY <2>1, <2>3, <2>4, <2>5 DEF DumpBy
  <2> QED
    BY <2>6, InDumps
<1> QED
  BY <1>1, <1>2, InDumps

(* The dumps of the other backups are those they had: none but that of a   *)
(* backup in the way could be disturbed.                                   *)
OthersDump(b) ==
    \A c \in Backups : c # b =>
        \A i \in DOMAIN records' \ overlapped' : \A data :
            DumpBy(c, i, data)' /\ records'[i].db \in SqlServer
                => i \in DOMAIN records /\ DumpBy(c, i, data)

(* A backup's step: the dump it then has is one there was before. *)
LEMMA DumpsStayBackup ==
    ASSUME NEW b \in Backups, OthersDump(b),
           \A i \in DOMAIN records' : \A data :
              HeldUnder(records[i].fileName, data)'
                  => i \in DOMAIN records /\ data \in DumpsOf(i),
           \A i \in DOMAIN records' : \A data :
              DumpBy(b, i, data)' /\ records'[i].db \in SqlServer
                  => i \in DOMAIN records /\ data \in DumpsOf(i)
    PROVE  DumpsStay
BY InDumps DEF DumpsStay, OthersDump

LEMMA KeysHaveNames == NoKey \notin Key
BY DEF NoKey, Key

LEMMA HeldByRecords ==
    ASSUME DOMAIN records' = DOMAIN records,
           \A i \in DOMAIN records : records'[i].fileName = records[i].fileName,
           bucket' \subseteq bucket,
           contents' = [k \in bucket' |-> contents[k]] \/ UNCHANGED contents
    PROVE  \A i \in DOMAIN records' : \A data :
              HeldUnder(records[i].fileName, data)'
                  => i \in DOMAIN records /\ data \in DumpsOf(i)
<1> SUFFICES ASSUME NEW i \in DOMAIN records, NEW data, HeldUnder(records[i].fileName, data)'
             PROVE  data \in DumpsOf(i)
  OBVIOUS
<1>1. PICK key : key = records[i].fileName
  OBVIOUS
<1>2. HeldUnder(key, data)'
  BY <1>1 DEF HeldUnder
<1> QED
  BY <1>1, <1>2, HeldStays, InDumps

(* No two backups have had the same key: it bears the record's number.     *)
LEMMA KeyIsOwn ==
    ASSUME StoreOK, JobsOK, OrderInv, NEW b \in Backups, job[b].pc \in Dumped,
           NEW i \in DOMAIN records
    PROVE  records[i].fileName # job[b].key
<1>1. job[b].key \in Key /\ job[b].key[3] = job[b].id /\ JobInOrder(b) /\ RecordInOrder(i)
  BY DEF JobsOK, JobsKnown, JobKnown, OrderInv, JobInOrder
<1>2. records[job[b].id].fileName = NoKey
  BY <1>1 DEF JobInOrder, Working, Dumped
<1>3. NoKey \notin Key
  BY KeysHaveNames
<1>4. records[i].fileName # NoKey => records[i].fileName[3] = i
  BY <1>1 DEF RecordInOrder
<1> QED
  BY <1>1, <1>2, <1>3, <1>4

LEMMA OthersKeepDumps ==
    ASSUME StoreOK, JobsOK, AdapterTypeOK, OrderInv, NEW b \in Backups, BackupRuns(b)
    PROVE  OthersDump(b)
<1>1. /\ Grows /\ \A c \in Backups : c # b => job'[c] = job[c]
      /\ \A file \in TmpFile : file # JobType(b) => tmp'[file] = tmp[file]
      /\ overlapped' = overlapped \cup Overlap'
  BY BackupKeeps, BackupLeaves DEF BackupRuns
<1>2. tmp' = tmp \/ (job[b].pc # "idle" /\ job[b].db \in SqlServer)
  <2>1. job[b].pc = "idle" => tmp' = tmp
    BY BackupLeaves
  <2>2. ASSUME job[b].db \notin SqlServer
        PROVE  tmp' = tmp
    BY <2>2 DEF BackupRuns, AdapterStep, KeepData, BackupRefused, BackupToDisk, BackupFails,
                UploadStream, UploadStreamFails, CloseReader, RemoveTmp
  <2> QED
    BY <2>1, <2>2
<1>3. \/ /\ bucket' \subseteq bucket
         /\ contents' = [k \in bucket' |-> contents[k]] \/ UNCHANGED contents
      \/ /\ job[b].pc = "uploading" /\ bucket' \subseteq bucket \cup {job[b].key}
         /\ \E data : contents' = [k \in bucket' |->
                                      IF k = job[b].key THEN data ELSE contents[k]]
  BY DEF BackupRuns, AdapterStep, KeepData, KeepContents, BackupRefused, BackupToDisk,
         BackupFails, UploadStream, UploadStreamFails, CloseReader, Dump, DumpFail, Upload,
         UploadFail, Close, CloseFail, BeginFull, BeginLog, SaveLog, StartRecord, Discard, Fail,
         Complete, PutObject, DeleteObject, Stored
<1> SUFFICES ASSUME NEW c \in Backups, c # b, NEW i \in DOMAIN records' \ overlapped', NEW data,
                    DumpBy(c, i, data)', records'[i].db \in SqlServer
             PROVE  i \in DOMAIN records /\ DumpBy(c, i, data)
  BY DEF OthersDump
<1>4. /\ job'[c] = job[c] /\ job[c].id = i
      /\ job[c].pc \in {"uploading", "closing", "completing"}
  BY <1>1 DEF DumpBy
<1>5. /\ JobKnown(c) /\ JobInOrder(c) /\ JobInOrder(b) /\ Working(c)
      /\ i \in DOMAIN records /\ records[i].db = job[c].db /\ job[c].db \in SqlServer
  BY <1>1, <1>4 DEF JobsOK, JobsKnown, JobKnown, OrderInv, Working, Grows
<1>6. CASE job[c].pc = "uploading"
  <2>1. PICK type : type = JobType(c)
    OBVIOUS
  <2>2. type \in TmpFile /\ JobType(c)' = type /\ data = tmp'[type]
    BY <1>4, <1>6, <2>1 DEF JobType, TmpFile, Type, DumpBy
  <2>3. tmp'[type] = tmp[type]
    <3> SUFFICES ASSUME type = JobType(b), job[b].pc # "idle", job[b].db \in SqlServer
                 PROVE  FALSE
      BY <1>1, <1>2, <2>2
    <3>1. InTheWay(c, b)
      BY <1>5, <2>1 DEF InTheWay
    <3>2. i \in Overlap
      BY <1>4, <1>5, <3>1 DEF Overlap
    <3> QED
      BY <1>1, <3>2 DEF OrderInv
  <2> QED
    BY <1>4, <1>5, <1>6, <2>1, <2>2, <2>3 DEF DumpBy
<1>7. CASE job[c].pc \in {"closing", "completing"}
  <2>1. PICK key : key = job[c].key
    OBVIOUS
  <2>2. key \in bucket' /\ data = contents'[key]
    BY <1>4, <1>7, <2>1 DEF DumpBy, HeldUnder
  <2>3. job[b].pc = "uploading" => key # job[b].key
    BY <1>4, <1>5, <1>7, <2>1 DEF JobInOrder, Dumped, Working
  <2>4. HeldUnder(key, data)
    BY <1>3, <2>2, <2>3 DEF HeldUnder
  <2> QED
    BY <1>4, <1>5, <1>7, <2>1, <2>4 DEF DumpBy
<1> QED
  BY <1>4, <1>6, <1>7

LEMMA BackupDumpsStay ==
    ASSUME "extract" \notin Faults, StoreOK, JobsOK, AdapterTypeOK, OrderInv,
           NEW b \in Backups, BackupRuns(b), ~(BackupToDisk(b) /\ job[b].db \in SqlServer)
    PROVE  DumpsStay
<1>1. /\ StoreOK' /\ JobsOK' /\ Grows
      /\ job \in [Backups -> JobState] /\ job[b] \in JobState
      /\ JobKnown(b) /\ JobInOrder(b) /\ OthersDump(b)
  BY BackupKeeps, OthersKeepDumps DEF JobsOK, JobTypeOK, JobsKnown, OrderInv
<1>2. ASSUME job'[b].pc \notin {"uploading", "closing", "completing"}, UNCHANGED records,
             bucket' \subseteq bucket,
             contents' = [k \in bucket' |-> contents[k]] \/ UNCHANGED contents
      PROVE  DumpsStay
  <2>1. \A i, data : ~DumpBy(b, i, data)'
    BY <1>2 DEF DumpBy
  <2> QED
    BY <1>1, <1>2, <2>1, HeldByRecords, DumpsStayBackup
<1>3. ASSUME NEW db, NEW parent, StartRecord(b, db, parent), KeepData
      PROVE  DumpsStay
  <2>1. PICK n : n = Len(records) + 1
    OBVIOUS
  <2>2. /\ DOMAIN records' = 1..n /\ Len(records) \in Nat /\ DOMAIN records = 1..Len(records)
        /\ \A i \in DOMAIN records : records'[i] = records[i]
        /\ records'[n].fileName = NoKey /\ job'[b].pc = "dumping" /\ UNCHANGED bucket
    BY <1>3, <2>1, StartRecordAdds DEF StartRecord
  <2>3. DOMAIN records' = DOMAIN records \cup {n}
    BY <2>1, <2>2
  <2>4. \A i, data : ~DumpBy(b, i, data)'
    BY <2>2 DEF DumpBy
  <2>5. bucket \subseteq Key /\ NoKey \notin Key
    BY KeysHaveNames DEF StoreOK, StoreTypeOK
  <2>6. \A data : ~HeldUnder(records[n].fileName, data)'
    BY <2>2, <2>5 DEF HeldUnder
  <2>7. ASSUME NEW i \in DOMAIN records, NEW data, HeldUnder(records[i].fileName, data)'
        PROVE  data \in DumpsOf(i)
    <3>1. PICK key : key = records[i].fileName
      OBVIOUS
    <3>2. HeldUnder(key, data)'
      BY <2>2, <2>7, <3>1 DEF HeldUnder
    <3> QED
      BY <1>3, <2>2, <3>1, <3>2, HeldStays, InDumps DEF KeepData, KeepContents
  <2> QED
    BY <1>1, <2>3, <2>4, <2>6, <2>7, DumpsStayBackup
<1>4. CASE (BeginFull(b) \/ SaveLog(b)) /\ KeepData
  BY <1>3, <1>4 DEF BeginFull, SaveLog
<1>5. CASE BeginLog(b) /\ KeepData
  <2>1. PICK db, full : job' = [job EXCEPT ![b].pc = "chained", ![b].db = db, ![b].parent = full]
    BY <1>5 DEF BeginLog
  <2>2. job'[b].pc = "chained" /\ UNCHANGED <<records, bucket>>
    BY <1>1, <1>5, <2>1 DEF BeginLog, JobState
  <2> QED
    BY <1>2, <1>5, <2>2 DEF KeepData, KeepContents
<1>6. ASSUME NEW pc \in {"failing", "discarding"}, job' = [job EXCEPT ![b].pc = pc],
             UNCHANGED records, bucket' \subseteq bucket,
             contents' = [k \in bucket' |-> contents[k]] \/ UNCHANGED contents
      PROVE  DumpsStay
  <2>1. job'[b].pc = pc
    BY <1>1, <1>6 DEF JobState
  <2> QED
    BY <1>2, <1>6, <2>1
<1>7. CASE BackupRefused(b) \/ BackupFails(b) \/ (Discard(b) /\ KeepData)
  BY <1>6, <1>7
  DEF BackupRefused, BackupFails, DumpFail, Discard, KeepData, KeepContents, DeleteObject
<1>8. CASE CloseReader(b) /\ CloseFail(b)
  BY <1>6, <1>8 DEF CloseReader, CloseFail
<1>9. CASE CloseReader(b) /\ Close(b)
  <2>1. /\ job' = [job EXCEPT ![b].pc = "completing"] /\ job[b].pc = "closing"
        /\ UNCHANGED <<records, bucket, contents>>
    BY <1>9 DEF CloseReader, Close
  <2>2. job'[b].pc = "completing" /\ job'[b].id = job[b].id /\ job'[b].key = job[b].key
    BY <1>1, <2>1 DEF JobState
  <2>3. \A i, data : DumpBy(b, i, data)' => DumpBy(b, i, data)
    BY <2>1, <2>2 DEF DumpBy, HeldUnder
  <2>4. \A i \in DOMAIN records' : \A data :
           HeldUnder(records[i].fileName, data)' => i \in DOMAIN records /\ data \in DumpsOf(i)
    BY <2>1, HeldByRecords
  <2> QED
    BY <1>1, <2>1, <2>3, <2>4, InDumps, DumpsStayBackup
<1>10. CASE (Fail(b) \/ Complete(b)) /\ KeepData
  <2>1. /\ job'[b].pc = "idle" /\ UNCHANGED <<bucket>> /\ job[b].pc \in {"failing", "completing"}
        /\ contents' = [k \in bucket' |-> contents[k]]
    BY <1>1, <1>10 DEF Fail, Complete, IdleJob, KeepData, KeepContents
  <2>2. \A i, data : ~DumpBy(b, i, data)'
    BY <2>1 DEF DumpBy
  <2>3. PICK n \in DOMAIN records : n = job[b].id
    BY <1>1, <2>1 DEF JobKnown
  <2>4. CASE Fail(b)
    <3>1. /\ DOMAIN records' = DOMAIN records
          /\ \A i \in DOMAIN records : records'[i].fileName = records[i].fileName
      BY <2>3, <2>4, UpdateStatusChanges DEF Fail
    <3>2. \A i \in DOMAIN records' : \A data :
             HeldUnder(records[i].fileName, data)' => i \in DOMAIN records /\ data \in DumpsOf(i)
      BY <2>1, <3>1, HeldByRecords
    <3> QED
      BY <1>1, <2>2, <3>2, DumpsStayBackup
  <2>5. CASE Complete(b)
    <3>1. PICK key : key = job[b].key
      OBVIOUS
    <3>2. /\ DOMAIN records' = DOMAIN records /\ job[b].pc = "completing"
          /\ \A i \in DOMAIN records : i # n => records'[i] = records[i]
          /\ records'[n].fileName = key
      BY <2>3, <2>5, <3>1, UpdateChanges DEF Complete
    <3>3. ASSUME NEW i \in DOMAIN records, NEW data, HeldUnder(records[i].fileName, data)'
          PROVE  data \in DumpsOf(i)
      <4>1. PICK name : name = records'[i].fileName
        OBVIOUS
      <4>2. HeldUnder(name, data)'
        BY <3>3, <4>1 DEF HeldUnder
      <4>3. HeldUnder(name, data)
        BY <2>1, <4>2, HeldStays
      <4>4. CASE i = n
        BY <2>3, <3>1, <3>2, <4>1, <4>3, <4>4, InDumps DEF DumpBy
      <4>5. CASE i # n
        BY <3>2, <4>1, <4>3, <4>5, InDumps
      <4> QED
        BY <4>4, <4>5
    <3> QED
      BY <1>1, <2>2, <3>2, <3>3, DumpsStayBackup
  <2> QED
    BY <1>10, <2>4, <2>5
<1>11. CASE BackupToDisk(b)
  <2>1. PICK key : key = <<job[b].db, JobType(b), Stamp(b)>>
    OBVIOUS
  <2>2. /\ job[b].pc = "dumping" /\ UNCHANGED <<records, bucket, contents>>
        /\ job' = [job EXCEPT ![b].pc = "uploading", ![b].key = key]
    BY <1>11, <2>1 DEF BackupToDisk, Dump
  <2>3. job'[b].id = job[b].id
    BY <1>1, <2>2 DEF JobState
  <2>4. records'[job[b].id].db \notin SqlServer
    BY <1>1, <1>11, <2>2 DEF JobKnown
  <2>5. \A i \in DOMAIN records' : \A data : DumpBy(b, i, data)' => records'[i].db \notin SqlServer
    BY <2>3, <2>4 DEF DumpBy
  <2>6. \A i \in DOMAIN records' : \A data :
           HeldUnder(records[i].fileName, data)' => i \in DOMAIN records /\ data \in DumpsOf(i)
    BY <2>2, HeldByRecords
  <2> QED
    BY <1>1, <2>5, <2>6, DumpsStayBackup
<1>12. CASE (UploadStream(b) \/ UploadStreamFails(b)) /\ Stored(b)
  <2>1. PICK key : key = job[b].key
    OBVIOUS
  <2>2. PICK pc \in {"closing", "failing"} :
           /\ job' = [job EXCEPT ![b].pc = pc] /\ job[b].pc = "uploading"
           /\ UNCHANGED records /\ (bucket' = bucket \cup {key} \/ bucket' = bucket)
           /\ pc = "closing" => bucket' = bucket \cup {key}
    BY <1>12, <2>1
    DEF UploadStream, UploadStreamFails, Upload, UploadFail, PutObject
  <2>3. job'[b].pc = pc /\ job'[b].id = job[b].id /\ job'[b].key = key
    BY <1>1, <2>1, <2>2 DEF JobState
  <2>4. PICK stored \in Stream(b) :
           contents' = [k \in bucket' |-> IF k = key THEN stored ELSE contents[k]]
    BY <1>12, <2>1 DEF Stored
  <2>5. \A i \in DOMAIN records : records[i].fileName # key
    BY <2>1, <2>2, KeyIsOwn DEF Dumped
  <2>6. ASSUME NEW i \in DOMAIN records, NEW data, HeldUnder(records[i].fileName, data)'
        PROVE  data \in DumpsOf(i)
    <3>1. PICK name : name = records[i].fileName
      OBVIOUS
    <3>2. name \in bucket' /\ data = contents'[name] /\ name # key
      BY <2>2, <2>5, <2>6, <3>1 DEF HeldUnder
    <3>3. HeldUnder(name, data)
      BY <2>2, <2>4, <3>2 DEF HeldUnder
    <3> QED
      BY <3>1, <3>3, InDumps
  <2>7. ASSUME NEW i \in DOMAIN records, NEW data, DumpBy(b, i, data)',
               records'[i].db \in SqlServer
        PROVE  data \in DumpsOf(i)
    <3>1. /\ i = job[b].id /\ pc = "closing" /\ key \in bucket' /\ data = contents'[key]
      BY <2>2, <2>3, <2>7 DEF DumpBy, HeldUnder
    <3>2. data = stored
      BY <2>4, <3>1
    <3>3. job[b].db \in SqlServer
      BY <1>1, <2>2, <2>7, <3>1 DEF JobKnown
    <3>4. stored = tmp[JobType(b)]
      BY <2>4, <3>3 DEF Stream
    <3> QED
      BY <2>2, <3>1, <3>2, <3>4, InDumps DEF DumpBy
  <2> QED
    BY <1>1, <2>2, <2>6, <2>7, DumpsStayBackup
<1>13. CASE UploadStreamFails(b) /\ UNCHANGED <<contents, bucket>>
  BY <1>6, <1>13 DEF UploadStreamFails, UploadFail
<1> QED
  BY <1>4, <1>5, <1>7, <1>8, <1>9, <1>10, <1>11, <1>12, <1>13
  DEF BackupRuns, AdapterStep, CloseReader, UploadStream, UploadStreamFails

-----------------------------------------------------------------------------
(* The dumps join *)

(* Nothing happens to what a database holds but that it commits more.      *)
DatabasesStay ==
    \A db \in SqlServer : NeverRestored(db)' =>
        /\ NeverRestored(db)
        /\ logStart'[db] = logStart[db]
        /\ \A s \in Transactions : IsPrefix(s, history[db]) => IsPrefix(s, history'[db])

(* A backup that is still to be dumped is not dumped. *)
DumpingStays ==
    \A b \in Backups : job'[b].pc = "dumping" /\ job'[b].id \in DOMAIN records =>
        \E c \in Backups : job[c].pc = "dumping" /\ job[c].id = job'[b].id

LEMMA NoLogSinceStays ==
    ASSUME StoreOK, StoreOK', Grows, DumpingStays, NEW i \in DOMAIN records, NoLogSince(i)'
    PROVE  NoLogSince(i)
<1> SUFFICES ASSUME NEW j \in DOMAIN records, j > i, records[j].db = records[i].db, ~IsFull(j)
             PROVE  \E b \in Backups : job[b].pc = "dumping" /\ job[b].id = j
  BY DEF NoLogSince
<1>1. j \in DOMAIN records' /\ records'[j].db = records'[i].db /\ ~IsFull(j)'
  BY KindStays DEF Grows
<1>2. PICK b \in Backups : job'[b].pc = "dumping" /\ job'[b].id = j
  BY <1>1 DEF NoLogSince
<1> QED
  BY <1>2 DEF DumpingStays

LEMMA NoLogBetweenStays ==
    ASSUME StoreOK, StoreOK', Grows, NEW i \in DOMAIN records, NEW j \in DOMAIN records
    PROVE  NoLogBetween(i, j)' <=> NoLogBetween(i, j)
<1>1. DOMAIN records = 1..Len(records) /\ Len(records) \in Nat
  BY RecordsHaveTypes, LenProperties
<1>2. \A k \in i + 1..j - 1 : k \in DOMAIN records
  BY <1>1
<1>3. \A k \in DOMAIN records : (IsFull(k)' <=> IsFull(k)) /\ records'[k].db = records[k].db
  BY KindStays
<1> QED
  BY <1>2, <1>3 DEF NoLogBetween

LEMMA JoinInvStays ==
    ASSUME StoreOK, StoreOK', Grows, AdapterTypeOK, JoinInv, overlapped \subseteq overlapped',
           DumpsStay, DatabasesStay, DumpingStays
    PROVE  JoinInv'
<1>1. ASSUME NEW db \in LogsStarted', NeverRestored(db)'
      PROVE  IsPrefix(logStart'[db], history'[db])
  <2>1. db \in SqlServer /\ NeverRestored(db) /\ logStart'[db] = logStart[db]
    BY <1>1 DEF LogsStarted, DatabasesStay
  <2>2. db \in LogsStarted /\ logStart[db] \in Transactions
    BY <1>1, <2>1 DEF LogsStarted, AdapterTypeOK
  <2> QED
    BY <1>1, <2>1, <2>2 DEF JoinInv, DatabasesStay
<1>2. ASSUME NEW i \in DOMAIN records' \ overlapped', records'[i].db \in SqlServer,
             NeverRestored(records[i].db)'
      PROVE  DumpJoins(i)'
  <2>1. PICK db : db = records'[i].db
    OBVIOUS
  <2>2. db \in SqlServer /\ NeverRestored(db)'
    BY <1>2, <2>1 DEF NeverRestored
  <2>3. SUFFICES ASSUME NEW data \in DumpsOf(i)'
                 PROVE  /\ data \in Data /\ IsPrefix(data.to, history'[db])
                        /\ NoLogSince(i)' => IsPrefix(logStart'[db], data.to)
                        /\ \A j \in DOMAIN records' \ overlapped' : \A after \in DumpsOf(j)' :
                              i < j /\ records'[j].db = db /\ ~IsFull(j)' /\ NoLogBetween(i, j)'
                                  => IsPrefix(after.from, data.to) /\ IsPrefix(data.to, after.to)
    BY <2>1 DEF DumpJoins
  <2>4. i \in DOMAIN records /\ data \in DumpsOf(i) /\ records[i].db = db
    BY <1>2, <2>1, <2>3 DEF DumpsStay, Grows
  <2>5. /\ NeverRestored(db) /\ logStart'[db] = logStart[db]
        /\ \A s \in Transactions : IsPrefix(s, history[db]) => IsPrefix(s, history'[db])
    BY <2>2 DEF DatabasesStay
  <2>6. DumpJoins(i)
    BY <2>2, <2>4, <2>5 DEF JoinInv
  <2>7. /\ data \in Data /\ IsPrefix(data.to, history[db])
        /\ NoLogSince(i) => IsPrefix(logStart[db], data.to)
    BY <2>4, <2>6 DEF DumpJoins
  <2>8. data.to \in Transactions
    BY <2>7 DEF Data
  <2>9. ASSUME NEW j \in DOMAIN records' \ overlapped', NEW after \in DumpsOf(j)',
               i < j, records'[j].db = db, ~IsFull(j)', NoLogBetween(i, j)'
        PROVE  IsPrefix(after.from, data.to) /\ IsPrefix(data.to, after.to)
    <3>1. j \in DOMAIN records /\ after \in DumpsOf(j) /\ records[j].db = db
      BY <2>2, <2>9 DEF DumpsStay, Grows
    <3>2. ~IsFull(j) /\ NoLogBetween(i, j)
      BY <2>4, <2>9, <3>1, KindStays, NoLogBetweenStays
    <3> QED
      BY <2>4, <2>6, <2>9, <3>1, <3>2 DEF DumpJoins
  <2> QED
    BY <2>4, <2>5, <2>7, <2>8, <2>9, NoLogSinceStays
<1> QED
  BY <1>1, <1>2 DEF JoinInv, NeverRestored

LEMMA ZeroBegins ==
    ASSUME NEW S, NEW seq \in Seq(S), IsPrefix(<< 0 >>, seq)
    PROVE  1 <= Len(seq) /\ seq[1] = 0
BY LenProperties DEF IsPrefix

(* A log backup begins where the dump before it ended.                     *)
LEMMA JoinsDump ==
    ASSUME StoreOK, StoreOK', JobsOK, AdapterTypeOK, AdapterTypeOK', Grows,
           OrderInv, JoinInv, NEW b \in Backups, BackupToDisk(b), job[b].db \in SqlServer,
           UNCHANGED restores, OthersDump(b), overlapped \subseteq overlapped',
           \A c \in Backups : c # b => job'[c] = job[c]
    PROVE  JoinInv'
<1>1. /\ job \in [Backups -> JobState] /\ job[b] \in JobState
      /\ JobKnown(b) /\ JobInOrder(b) /\ Working(b)
  BY DEF JobsOK, JobTypeOK, JobsKnown, OrderInv, BackupToDisk, Dump, Working
<1>2. PICK key, type, n, base, dump :
          /\ key = <<job[b].db, JobType(b), Stamp(b)>> /\ type = JobType(b)
          /\ n = job[b].id /\ base = job[b].db /\ dump = DumpOf(b)
  OBVIOUS
<1>3. /\ job[b].pc = "dumping" /\ UNCHANGED <<records, bucket, contents, history>>
      /\ job' = [job EXCEPT ![b].pc = "uploading", ![b].key = key]
      /\ tmp' = [tmp EXCEPT ![type] = dump]
      /\ AdvanceLog(b)
  BY <1>2 DEF BackupToDisk, Dump
<1>4. /\ job'[b].pc = "uploading" /\ job'[b].id = n /\ job'[b].parent = job[b].parent
  BY <1>1, <1>2, <1>3 DEF JobState
<1>5. /\ n \in DOMAIN records /\ records[n].db = base
      /\ records[n].fileName = NoKey /\ records[n].parent = job[b].parent
      /\ base \in SqlServer
  BY <1>1, <1>2, <1>3 DEF JobKnown, JobInOrder, Working
<1>6. DOMAIN records = 1..Len(records) /\ Len(records) \in Nat
  BY RecordsHaveTypes, LenProperties
<1>7. /\ \A j \in DOMAIN records :
            j > n /\ records[j].db = base => n \in overlapped' /\ j \in overlapped'
      /\ \A c \in Backups : Working(c) /\ job[c].id = n => c = b
  BY <1>1, <1>2 DEF JobInOrder
<1>8. /\ dump \in Data /\ dump.to = history[base]
      /\ job[b].parent # NoId => dump.from = logStart[base]
  <2>1. dump \in Data
    BY <1>2, <1>3, DumpHasData
  <2>2. dump.to = history[base] /\ (JobType(b) = "log" => dump.from = logStart[base])
    BY <1>2 DEF DumpOf
  <2> QED
    BY <2>1, <2>2 DEF JobType
<1>9. type \in TmpFile /\ JobType(b)' = type
  BY <1>2, <1>4 DEF JobType, TmpFile, Type
<1>10. tmp'[type] = dump
  BY <1>3, <1>9 DEF AdapterTypeOK
<1>11. \A data : n \notin overlapped' /\ data \in DumpsOf(n)' => data = dump
  <2> SUFFICES ASSUME n \notin overlapped', NEW data \in DumpsOf(n)'
               PROVE  data = dump
    OBVIOUS
  <2>1. bucket \subseteq Key /\ NoKey \notin Key
    BY KeysHaveNames DEF StoreOK, StoreTypeOK
  <2>2. ~HeldUnder(records[n].fileName, data)'
    BY <1>3, <1>5, <2>1 DEF HeldUnder
  <2>3. PICK c \in Backups : DumpBy(c, n, data)'
    BY <2>2, InDumps
  <2>4. c = b
    <3> SUFFICES ASSUME c # b
                 PROVE  FALSE
      OBVIOUS
    <3>1. DumpBy(c, n, data)
      BY <1>3, <1>5, <2>3 DEF OthersDump
    <3> QED
      BY <1>7, <3>1 DEF DumpBy, Working
  <2> QED
    BY <1>4, <1>9, <1>10, <2>3, <2>4 DEF DumpBy
<1>12. \A i \in DOMAIN records \ overlapped' : \A data :
          i # n /\ records[i].db \in SqlServer /\ data \in DumpsOf(i)' => data \in DumpsOf(i)
  <2> SUFFICES ASSUME NEW i \in DOMAIN records \ overlapped', NEW data \in DumpsOf(i)',
                      i # n, records[i].db \in SqlServer
               PROVE  data \in DumpsOf(i)
    OBVIOUS
  <2>1. CASE HeldUnder(records[i].fileName, data)'
    <3>1. HeldUnder(records[i].fileName, data)
      BY <1>3, <2>1 DEF HeldUnder
    <3> QED
      BY <3>1, InDumps
  <2>2. CASE \E c \in Backups : DumpBy(c, i, data)'
    <3>1. PICK c \in Backups : DumpBy(c, i, data)'
      BY <2>2
    <3>2. c # b
      BY <1>4, <3>1 DEF DumpBy
    <3>3. DumpBy(c, i, data)
      BY <1>3, <3>1, <3>2 DEF OthersDump
    <3> QED
      BY <3>3, InDumps
  <2> QED
    BY <2>1, <2>2, InDumps
<1>13. /\ base \in LogsStarted'
       /\ \A db \in SqlServer : db # base => logStart'[db] = logStart[db]
       /\ logStart'[base] \in {logStart[base], history[base]}
  <2>1. base \in LogsStarted'
    BY <1>2, <1>3, <1>5, AdvanceStarts
  <2> QED
    BY <1>2, <1>3, <1>5, <2>1 DEF AdvanceLog, AdapterTypeOK
<1>14. /\ history[base] \in Transactions
       /\ IsPrefix(history[base], history[base])
  <2>1. history[base] \in Transactions
    BY <1>5, ConstantsAssumption DEF AdapterTypeOK
  <2> QED
    BY <2>1, PrefixProperties DEF Transactions
<1>15. \A db : NeverRestored(db)' => NeverRestored(db)
  BY DEF NeverRestored
<1>16. ASSUME NEW db \in LogsStarted', NeverRestored(db)
       PROVE  IsPrefix(logStart'[db], history[db])
  <2>1. db \in SqlServer /\ logStart'[db] # NoLog
    BY <1>16 DEF LogsStarted
  <2>2. CASE db # base \/ logStart'[base] = logStart[base]
    <3>1. logStart'[db] = logStart[db] /\ db \in LogsStarted
      BY <1>13, <2>1, <2>2 DEF LogsStarted
    <3> QED
      BY <1>16, <3>1 DEF JoinInv
  <2>3. CASE db = base /\ logStart'[base] = history[base]
    BY <1>14, <2>3
  <2> QED
    BY <1>13, <2>2, <2>3
<1>17. \A c \in Backups : job'[c].pc = "dumping" => c # b /\ job[c].pc = "dumping" /\ job'[c] = job[c]
  BY <1>4
<1>18. DumpingStays
  BY <1>17 DEF DumpingStays
<1>19. ASSUME NEW i \in DOMAIN records \ overlapped', records[i].db \in SqlServer,
              NeverRestored(records[i].db)
       PROVE  DumpJoins(i)'
  <2>1. PICK db : db = records[i].db
    OBVIOUS
  <2>2. db \in SqlServer /\ NeverRestored(db) /\ DumpJoins(i)
    BY <1>19, <2>1 DEF JoinInv
  <2>3. SUFFICES ASSUME NEW data \in DumpsOf(i)'
                 PROVE  /\ data \in Data /\ IsPrefix(data.to, history[db])
                        /\ NoLogSince(i)' => IsPrefix(logStart'[db], data.to)
                        /\ \A j \in DOMAIN records \ overlapped' : \A after \in DumpsOf(j)' :
                              i < j /\ records[j].db = db /\ ~IsFull(j)' /\ NoLogBetween(i, j)'
                                  => IsPrefix(after.from, data.to) /\ IsPrefix(data.to, after.to)
    BY <1>3, <2>1 DEF DumpJoins
  <2>4. CASE i = n
    <3>1. data = dump /\ db = base
      BY <1>5, <1>11, <2>1, <2>3, <2>4
    <3>2. IsPrefix(logStart'[db], data.to)
      BY <1>8, <1>13, <1>16, <2>2, <3>1
    <3>3. \A j \in DOMAIN records \ overlapped' : ~(i < j /\ records[j].db = db)
      BY <1>6, <1>7, <2>4, <3>1
    <3> QED
      BY <1>8, <1>14, <3>1, <3>2, <3>3
  <2>5. CASE i # n
    <3>1. data \in DumpsOf(i)
      BY <1>12, <2>1, <2>2, <2>3, <2>5
    <3>2. /\ data \in Data /\ IsPrefix(data.to, history[db])
          /\ NoLogSince(i) => IsPrefix(logStart[db], data.to)
      BY <2>1, <2>2, <3>1 DEF DumpJoins
    <3>3. ASSUME db = base
          PROVE  i < n
      <4>1. ~(i > n)
        BY <1>7, <2>1, <3>3
      <4>2. i \in Int /\ n \in Int
        BY <1>5, <1>6
      <4> QED
        BY <2>5, <4>1, <4>2
    <3>4. ASSUME NoLogSince(i)'
          PROVE  IsPrefix(logStart'[db], data.to)
      <4>1. NoLogSince(i)
        BY <1>18, <3>4, NoLogSinceStays
      <4>2. CASE db # base
        BY <1>13, <2>2, <3>2, <4>1, <4>2
      <4>3. CASE db = base
        <5>1. IsFull(n)'
          <6> SUFFICES ASSUME ~IsFull(n)'
                       PROVE  FALSE
            OBVIOUS
          <6>1. n > i
            BY <1>5, <1>6, <3>3, <4>3
          <6>2. PICK c \in Backups : job'[c].pc = "dumping" /\ job'[c].id = n
            BY <1>3, <1>5, <2>1, <3>4, <4>3, <6>1 DEF NoLogSince
          <6> QED
            BY <1>7, <1>17, <6>2 DEF Working
        <5>2. type = "full"
          BY <1>2, <1>3, <1>5, <5>1 DEF StoreOK, RecordsLinked, RecordLinked, JobType, IsFull
        <5>3. IsPrefix(logStart[base], data.to)
          BY <3>2, <4>1, <4>3
        <5>4. logStart[base] # NoLog
          <6>1. data.to \in Seq(1..MaxCommits)
            BY <3>2 DEF Data, Transactions
          <6>2. ~IsPrefix(<<0>>, data.to)
            <7> SUFFICES ASSUME IsPrefix(<< 0 >>, data.to)
                         PROVE  FALSE
              OBVIOUS
            <7>1. PICK seq : seq = data.to
              OBVIOUS
            <7>2. seq \in Seq(1..MaxCommits) /\ Len(<<0>>) = 1 /\ <<0>>[1] = 0
              BY <6>1, <7>1
            <7>3. 1 <= Len(seq) /\ seq[1] = 0
              BY <7>1, <7>2, ZeroBegins
            <7>4. 1 \in 1..Len(seq)
              BY <7>2, <7>3, LenProperties
            <7>5. seq[1] \in 1..MaxCommits
              BY <7>2, <7>4, ElementOfSeq
            <7> QED
              BY <7>3, <7>5, AdapterAssumption
          <6> QED
            BY <5>3, <6>2 DEF NoLog
        <5>5. logStart' = logStart
          BY <1>2, <1>3, <5>2, <5>4 DEF AdvanceLog
        <5> QED
          BY <4>3, <5>3, <5>5
      <4> QED
        BY <4>2, <4>3
    <3>5. ASSUME NEW j \in DOMAIN records \ overlapped', NEW after \in DumpsOf(j)',
                 i < j, records[j].db = db, ~IsFull(j)', NoLogBetween(i, j)'
          PROVE  IsPrefix(after.from, data.to) /\ IsPrefix(data.to, after.to)
      <4>1. ~IsFull(j) /\ NoLogBetween(i, j) /\ j \notin overlapped
        BY <3>5, KindStays, NoLogBetweenStays
      <4>2. CASE j # n
        <5>1. after \in DumpsOf(j)
          BY <1>12, <2>2, <3>5, <4>2
        <5> QED
          BY <2>1, <2>2, <3>1, <3>5, <4>1, <5>1 DEF DumpJoins
      <4>3. CASE j = n
        <5>1. after = dump /\ db = base
          BY <1>5, <1>11, <3>5, <4>3
        <5>2. job[b].parent # NoId
          BY <1>5, <4>1, <4>3 DEF StoreOK, RecordsLinked, RecordLinked
        <5>3. NoLogSince(i)
          <6> SUFFICES ASSUME NEW k \in DOMAIN records, k > i, records[k].db = records[i].db,
                              ~IsFull(k)
                       PROVE  k = n
            BY <1>2, <1>3 DEF NoLogSince
          <6>1. k \notin i + 1..n - 1
            BY <2>1, <4>1, <4>3 DEF NoLogBetween
          <6>2. ~(k > n)
            BY <1>7, <2>1, <3>5, <4>3, <5>1
          <6> QED
            BY <1>5, <1>6, <6>1, <6>2
        <5> QED
          BY <1>8, <3>2, <5>1, <5>2, <5>3
      <4> QED
        BY <4>2, <4>3
    <3> QED
      BY <3>2, <3>4, <3>5
  <2> QED
    BY <2>4, <2>5
<1> QED
  BY <1>3, <1>15, <1>16, <1>19 DEF JoinInv, NeverRestored

LEMMA JoinBackup ==
    ASSUME "extract" \notin Faults, StoreOK, JobsOK, AdapterTypeOK, OrderInv, JoinInv,
           NEW b \in Backups, BackupRuns(b)
    PROVE  JoinInv'
<1>1. /\ StoreOK' /\ JobsOK' /\ AdapterTypeOK' /\ Grows /\ UNCHANGED restores
      /\ job \in [Backups -> JobState] /\ job[b] \in JobState
      /\ \A c \in Backups : c # b => job'[c] = job[c]
      /\ overlapped \subseteq overlapped'
  BY BackupKeeps, BackupLeaves DEF JobsOK, JobTypeOK, BackupRuns
<1>2. CASE BackupToDisk(b) /\ job[b].db \in SqlServer
  BY <1>1, <1>2, OthersKeepDumps, JoinsDump
<1>3. CASE ~(BackupToDisk(b) /\ job[b].db \in SqlServer)
  <2>1. DumpsStay
    BY <1>3, BackupDumpsStay
  <2>2. UNCHANGED <<history, logStart>>
    BY <1>3
    DEF BackupRuns, AdapterStep, BackupRefused, BackupToDisk, BackupFails, UploadStream,
        UploadStreamFails, CloseReader, KeepData, AdvanceLog, dbVars
  <2>3. DatabasesStay
    BY <1>1, <2>2 DEF DatabasesStay, NeverRestored
  <2>4. job'[b].pc = "dumping" => job'[b].id \notin DOMAIN records
    <3>1. ASSUME NEW db, NEW parent, StartRecord(b, db, parent)
          PROVE  job'[b].id \notin DOMAIN records
      BY <3>1, StartRecordAdds
    <3>2. CASE BeginFull(b) \/ SaveLog(b)
      BY <3>1, <3>2 DEF BeginFull, SaveLog
    <3>3. CASE BeginLog(b)
      <4>1. PICK db, full :
              job' = [job EXCEPT ![b].pc = "chained", ![b].db = db, ![b].parent = full]
        BY <3>3 DEF BeginLog
      <4> QED
        BY <1>1, <4>1 DEF JobState
    <3>4. CASE BackupToDisk(b)
      <4>1. PICK key : job' = [job EXCEPT ![b].pc = "uploading", ![b].key = key]
        BY <3>4 DEF BackupToDisk, Dump
      <4> QED
        BY <1>1, <4>1 DEF JobState
    <3>5. CASE \E pc \in {"failing", "closing", "completing", "discarding"} :
                  job' = [job EXCEPT ![b].pc = pc]
      BY <1>1, <3>5 DEF JobState
    <3>6. CASE job' = [job EXCEPT ![b] = IdleJob]
      BY <1>1, <3>6 DEF IdleJob
    <3> QED
      BY <3>2, <3>3, <3>4, <3>5, <3>6
      DEF BackupRuns, AdapterStep, BackupRefused, BackupFails, DumpFail, UploadStream,
          UploadStreamFails, Upload, UploadFail, CloseReader, Close, CloseFail, Discard,
          Fail, Complete
  <2>5. DumpingStays
    BY <1>1, <2>4 DEF DumpingStays
  <2> QED
    BY <1>1, <2>1, <2>3, <2>5, JoinInvStays
<1> QED
  BY <1>2, <1>3

LEMMA CommitsMore ==
    ASSUME AdapterTypeOK, NEW db \in Databases, Application(db)
    PROVE  DatabasesStay
<1>1. /\ UNCHANGED <<restores, logStart>>
      /\ history' = [history EXCEPT ![db] = Append(history[db], commits + 1)]
      /\ history \in [Databases -> Transactions] /\ history[db] \in Transactions
  BY DEF Application, Commit, AdapterTypeOK
<1>2. commits + 1 \in 1..MaxCommits
  BY AdapterAssumption DEF Application, Commit, AdapterTypeOK
<1>3. \A s \in Transactions :
         IsPrefix(s, history[db]) => IsPrefix(s, Append(history[db], commits + 1))
  BY <1>1, <1>2, PrefixProperties DEF Transactions
<1>4. history'[db] = Append(history[db], commits + 1)
      /\ \A d \in Databases : d # db => history'[d] = history[d]
  BY <1>1
<1>5. SqlServer \subseteq Databases
  BY ConstantsAssumption
<1> QED
  BY <1>1, <1>3, <1>4, <1>5 DEF DatabasesStay, NeverRestored

(* A restore replaces what its own database holds: that one has a record.  *)
LEMMA RestoresOthersStay ==
    ASSUME RestsOK, AdapterTypeOK, NEW r \in Restorers, RestoreAsked(r) \/ RestoreStep(r)
    PROVE  DatabasesStay /\ UNCHANGED <<records, bucket, job>>
<1>1. UNCHANGED <<records, bucket, job>>
  BY DEF RestoreAsked, UserRestores, UserRestoresAll, RestoreStep, RestoreReturns, RestoreStarts,
         RestoreChain, RestoreNoStorage, RestoreDownload, RestoreApply, RestoreApplyFails,
         RestoreFinish, backupVars
<1>2. restores \in Seq(RestoreRecord)
  BY DEF RestsOK, RestoreTypeOK
<1>3. \A db : NeverRestored(db)' => NeverRestored(db)
  <2>1. CASE RestoreStarts(r)
    <3>1. PICK i \in restore[r].todo :
            restores' = Append(restores, [db |-> records[i].db, target |-> i,
                                          status |-> "running", chain |-> <<>>])
      BY <2>1 DEF RestoreStarts
    <3>2. \A k \in DOMAIN restores : k \in DOMAIN restores' /\ restores'[k] = restores[k]
      BY <1>2, <3>1, LenProperties
    <3> QED
      BY <3>2 DEF NeverRestored
  <2>2. CASE RestoreFinish(r)
    <3>1. PICK k, status, chain :
            restores' = [restores EXCEPT ![k].status = status, ![k].chain = chain]
      BY <2>2 DEF RestoreFinish
    <3>2. DOMAIN restores' = DOMAIN restores
      BY <1>2, <3>1
    <3>3. \A m \in DOMAIN restores : restores[m] \in RestoreRecord
      BY <1>2, ElementOfSeq, LenProperties
    <3>4. \A m \in DOMAIN restores : restores'[m].db = restores[m].db
      BY <1>2, <3>1, <3>3 DEF RestoreRecord
    <3> QED
      BY <3>2, <3>4 DEF NeverRestored
  <2>3. CASE UNCHANGED restores
    BY <2>3 DEF NeverRestored
  <2> QED
    BY <2>1, <2>2, <2>3
    DEF RestoreAsked, UserRestores, UserRestoresAll, RestoreStep, RestoreReturns, RestoreChain,
        RestoreNoStorage, RestoreDownload, RestoreApply, RestoreApplyFails
<1>4. CASE RestoreApply(r)
  <2>1. PICK base, k : base = TargetDb(r) /\ k = restore[r].rec
    OBVIOUS
  <2>2. k \in DOMAIN restores /\ restores[k].db = base /\ UNCHANGED restores
    BY <1>4, <2>1 DEF RestoreApply, RestsOK, RestoresKnown, Busy, TargetDb
  <2>3. /\ \E to : history' = [history EXCEPT ![base] = to]
        /\ \/ \E to : logStart' = [logStart EXCEPT ![base] = to]
           \/ UNCHANGED logStart
    <3>1. PICK data, recovery : RestoreData(base, data, recovery)
      BY <1>4, <2>1 DEF RestoreApply
    <3> QED
      BY <3>1 DEF RestoreData
  <2>4. \A db \in SqlServer :
           db # base => logStart'[db] = logStart[db] /\ history'[db] = history[db]
    <3>1. SqlServer \subseteq Databases
      BY ConstantsAssumption
    <3> QED
      BY <2>3, <3>1 DEF AdapterTypeOK
  <2>5. ~NeverRestored(base)
    BY <2>2 DEF NeverRestored
  <2> QED
    BY <1>1, <1>3, <2>4, <2>5 DEF DatabasesStay
<1>5. CASE UNCHANGED <<history, logStart>>
  BY <1>1, <1>3, <1>5 DEF DatabasesStay
<1> QED
  BY <1>4, <1>5
  DEF RestoreAsked, UserRestores, UserRestoresAll, RestoreStep, RestoreReturns, RestoreStarts,
      RestoreChain, RestoreNoStorage, RestoreDownload, RestoreApplyFails, RestoreFinish,
      KeepData, dbVars

LEMMA JoinInvKept ==
    ASSUME "extract" \notin Faults, RestoreInv, RestoreInv', OrderInv, JoinInv, [Next]_vars
    PROVE  JoinInv'
<1>1. /\ StoreOK /\ JobsOK /\ DelsOK /\ RestsOK /\ AdapterTypeOK /\ StoreOK'
  BY RestoreInvParts DEF RestoreInv, StoreOK, TypeOK
<1>2. CASE \E b \in Backups : BackupRuns(b)
  BY <1>1, <1>2, JoinBackup
<1>3. UNCHANGED job => DumpingStays
  BY DEF DumpingStays
<1>4. CASE \E db \in Databases : Application(db)
  <2>1. PICK db \in Databases : Application(db)
    BY <1>4
  <2>2. UNCHANGED <<records, bucket, job, tmp, contents, overlapped>>
    BY <2>1 DEF Application, Commit
  <2>3. DumpsStay /\ Grows
    BY <2>2, DumpsStayBeside DEF Grows
  <2>4. DatabasesStay
    BY <1>1, <2>1, CommitsMore
  <2> QED
    BY <1>1, <1>3, <2>2, <2>3, <2>4, JoinInvStays
<1>5. CASE \E u \in Users : UserActs(u)
  <2>1. PICK u \in Users : UserActs(u)
    BY <1>5
  <2>2. /\ UserDeletes(u) \/ DeleteStep(u) \/ UserReturns(u)
        /\ KeepData /\ LogsStay /\ UNCHANGED <<job, restores, overlapped>>
    BY <2>1 DEF UserActs, KeepData, LogsStay, LogsStarted
  <2>3. Grows /\ bucket' \subseteq bucket
    BY <1>1, <2>2, UserKeeps
  <2>4. /\ DOMAIN records' = DOMAIN records
        /\ \A i \in DOMAIN records : records'[i].fileName = records[i].fileName
    BY <1>1, <2>2, UserLeavesRecords
  <2>5. DumpsStay
    BY <2>2, <2>3, <2>4, DumpsStayBeside DEF KeepData, KeepContents
  <2>6. DatabasesStay
    BY <2>2 DEF DatabasesStay, NeverRestored, KeepData
  <2> QED
    BY <1>1, <1>3, <2>2, <2>3, <2>5, <2>6, JoinInvStays
<1>6. CASE \E r \in Restorers : RestoreAsked(r) \/ RestoreRuns(r)
  <2>1. PICK r \in Restorers : RestoreAsked(r) \/ RestoreStep(r)
    BY <1>6 DEF RestoreRuns
  <2>6. UNCHANGED overlapped
    BY <1>6 DEF RestoreRuns, RestoreAsked
  <2>2. DatabasesStay /\ UNCHANGED <<records, bucket, job>>
    BY <1>1, <2>1, RestoresOthersStay
  <2>3. KeepData \/ UNCHANGED contents
    BY <2>1
    DEF RestoreAsked, UserRestores, UserRestoresAll, RestoreStep, RestoreReturns, RestoreStarts,
        RestoreChain, RestoreNoStorage, RestoreDownload, RestoreApply, RestoreApplyFails,
        RestoreFinish, RestoreData
  <2>4. \A type \in Type : tmp'[type] = tmp[type]
    BY <1>1, <2>1, RestoreLeavesDumps
  <2>5. DumpsStay /\ Grows
    BY <2>2, <2>3, <2>4, DumpsStayBeside DEF Grows, KeepData, KeepContents
  <2> QED
    BY <1>1, <1>3, <2>2, <2>5, <2>6, JoinInvStays
<1>7. CASE UNCHANGED vars
  <2>1. UNCHANGED <<records, bucket, job, tmp, contents, restores, history, logStart, overlapped>>
    BY <1>7 DEF vars
  <2>2. DumpsStay /\ Grows
    BY <2>1, DumpsStayBeside DEF Grows
  <2>3. DatabasesStay
    BY <2>1 DEF DatabasesStay, NeverRestored
  <2> QED
    BY <1>1, <1>3, <2>1, <2>2, <2>3, JoinInvStays
<1>8. CASE Crash
  <2>1. /\ UNCHANGED <<records, bucket, restores, overlapped>> /\ KeepData
        /\ job' = [b \in Backups |-> IdleJob]
    BY <1>8 DEF Crash
  <2>2. \A b \in Backups : job'[b].pc = "idle"
    BY <2>1 DEF IdleJob
  <2>3. DumpsStay /\ Grows
    BY <2>1, <2>2, DumpsStayBeside DEF Grows, KeepData, KeepContents
  <2>4. DatabasesStay /\ DumpingStays
    BY <2>1, <2>2 DEF DatabasesStay, DumpingStays, NeverRestored, KeepData
  <2> QED
    BY <1>1, <2>1, <2>3, <2>4, JoinInvStays
<1> QED
  BY <1>2, <1>4, <1>5, <1>6, <1>7, <1>8 DEF Next

-----------------------------------------------------------------------------
(* The chains join *)

LEMMA InOrderHasAll ==
    ASSUME NEW S \in SUBSET Nat, IsFiniteSet(S)
    PROVE  \A x \in S : \E m \in 1..Cardinality(S) : InOrder(S)[m] = x
<1>1. PICK seq, size : seq = InOrder(S) /\ size = Cardinality(S)
  OBVIOUS
<1>2. /\ size \in Nat /\ seq \in [1..size -> S]
      /\ \A m, n \in 1..size : m < n => seq[m] < seq[n]
  BY <1>1, OrderExists DEF InOrder
<1>3. \A m, n \in 1..size : m # n => seq[m] # seq[n]
  <2> SUFFICES ASSUME NEW m \in 1..size, NEW n \in 1..size, m # n
               PROVE  seq[m] # seq[n]
    OBVIOUS
  <2>1. m < n \/ n < m
    BY <1>2
  <2>2. PICK x \in Nat, y \in Nat : x = seq[m] /\ y = seq[n]
    BY <1>2
  <2>3. x < y \/ y < x
    BY <1>2, <2>1, <2>2
  <2> QED
    BY <2>2, <2>3
<1>4. seq \in Injection(1..size, S)
  BY <1>2, <1>3 DEF Injection, IsInjective
<1>5. IsFiniteSet(1..size) /\ Cardinality(1..size) = size
  BY <1>2, FS_Interval
<1>6. seq \in Surjection(1..size, S)
  BY <1>1, <1>4, <1>5, FS_Injection
<1> QED
  BY <1>1, <1>6 DEF Surjection

(* The chain of a log: its full, and all the logs of the full up to it, in *)
(* order.                                                                  *)
ChainIs(chain, full, S, ids) ==
    /\ chain = [n \in 1..Len(ids) |-> [id |-> ids[n], key |-> records[ids[n]].fileName]]
    /\ Len(ids) \in Nat
    /\ ids[1] = full
    /\ \A n \in 2..Len(ids) : ids[n] \in S
    /\ \A m, n \in 2..Len(ids) : m < n => ids[m] < ids[n]
    /\ \A x \in S : \E n \in 2..Len(ids) : ids[n] = x

LEMMA ChainInOrder ==
    ASSUME StoreOK, NEW i \in DOMAIN records, NEW key, NEW full \in DOMAIN records,
           full = records[i].parent, ~IsFull(i), records[i].db \in SqlServer,
           NEW S, S = {j \in LogsOf(full) : j <= i}
    PROVE  \E ids : ChainIs(BuildChain(i, key), full, S, ids)
<1>1. S \in SUBSET DOMAIN records /\ S \in SUBSET Nat /\ IsFiniteSet(S)
  <2>1. DOMAIN records = 1..Len(records) /\ Len(records) \in Nat
    BY RecordsHaveTypes, LenProperties
  <2>2. IsFiniteSet(DOMAIN records)
    BY <2>1, FS_Interval
  <2>3. S \in SUBSET DOMAIN records
    BY DEF LogsOf, FindChildren
  <2> QED
    BY <2>1, <2>2, <2>3, FS_Subset
<1>2. PICK logs, size : logs = InOrder(S) /\ size = Cardinality(S)
  OBVIOUS
<1>3. /\ size \in Nat /\ logs \in Seq(S) /\ Len(logs) = size
      /\ \A m, n \in 1..size : m < n => logs[m] < logs[n]
      /\ \A x \in S : \E m \in 1..size : logs[m] = x
  <2>1. size \in Nat
    BY <1>1, <1>2, OrderExists
  <2>2. /\ logs \in Seq(S) /\ Len(logs) = size
        /\ \A m, n \in 1..size : m < n => logs[m] < logs[n]
    BY <1>1, <1>2, InOrderIsSorted, Zenon
  <2>3. \A x \in S : \E m \in 1..size : logs[m] = x
    BY <1>1, <1>2, InOrderHasAll, Zenon
  <2> QED
    BY <2>1, <2>2, <2>3
<1>4. logs \in Seq(DOMAIN records)
  BY <1>1, <1>3
<1>5. PICK ids : ids = <<full>> \o logs
  OBVIOUS
<1>6. /\ ids \in Seq(DOMAIN records) /\ Len(ids) = size + 1
      /\ ids[1] = full /\ \A n \in 2..size + 1 : ids[n] = logs[n - 1]
  <2>1. <<full>> \in Seq(DOMAIN records) /\ Len(<<full>>) = 1 /\ <<full>>[1] = full
    OBVIOUS
  <2> QED
    BY <1>3, <1>4, <1>5, <2>1, ConcatProperties
<1>7. DOMAIN ids = 1..Len(ids) /\ Len(ids) \in Nat
  BY <1>6, LenProperties
<1>8. BuildChain(i, key) =
          [n \in 1..Len(ids) |-> [id |-> ids[n], key |-> records[ids[n]].fileName]]
  BY <1>2, <1>5, <1>7 DEF BuildChain, LogsUpTo
<1>9. \A n \in 2..Len(ids) : n - 1 \in 1..size /\ ids[n] = logs[n - 1]
  BY <1>3, <1>6
<1>10. \A n \in 2..Len(ids) : ids[n] \in S
  <2>1. \A m \in 1..size : logs[m] \in S
    BY <1>3, ElementOfSeq
  <2> QED
    BY <1>9, <2>1
<1>11. \A m, n \in 2..Len(ids) : m < n => ids[m] < ids[n]
  <2> SUFFICES ASSUME NEW m \in 2..Len(ids), NEW n \in 2..Len(ids), m < n
               PROVE  ids[m] < ids[n]
    OBVIOUS
  <2>1. m - 1 < n - 1
    BY <1>7
  <2> QED
    BY <1>3, <1>9, <2>1
<1>12. \A x \in S : \E n \in 2..Len(ids) : ids[n] = x
  <2> SUFFICES ASSUME NEW x \in S
               PROVE  \E n \in 2..Len(ids) : ids[n] = x
    OBVIOUS
  <2>1. PICK m \in 1..size : logs[m] = x
    BY <1>3
  <2>2. m + 1 \in 2..size + 1 /\ (m + 1) - 1 = m
    BY <1>3
  <2>3. ids[m + 1] = x
    BY <1>6, <2>1, <2>2
  <2> QED
    BY <1>6, <2>2, <2>3
<1> QED
  BY <1>6, <1>7, <1>8, <1>10, <1>11, <1>12 DEF ChainIs

(* The logs of a database between a log and its full are logs of that full *)
(* when every backup in between counts.                                    *)
LEMMA BetweenAreLogs ==
    ASSUME StoreOK, OrderInv,
           NEW i \in DOMAIN records, NEW full \in DOMAIN records, full = records[i].parent,
           ~IsFull(i), \A j \in full..i : records[j].db = records[i].db => Counts(j),
           NEW k \in DOMAIN records, full < k, k < i, records[k].db = records[i].db, ~IsFull(k)
    PROVE  k \in LogsOf(full)
<1>1. DOMAIN records = 1..Len(records) /\ Len(records) \in Nat
  BY RecordsHaveTypes, LenProperties
<1>2. RecordInOrder(i) /\ RecordInOrder(k)
  BY DEF OrderInv
<1>3. PICK db : db = records[i].db
  OBVIOUS
<1>4. /\ full <= i - 1 /\ IsFull(full) /\ records[full].db = db /\ Settled(full)
      /\ \A f \in full + 1..i - 1 :
            IsFull(f) /\ records[f].db = db => f \in overlapped \/ Lost(f)
  BY <1>2, <1>3 DEF RecordInOrder, ChainedTo
<1>5. Counts(k) /\ Counts(full)
  BY <1>1, <1>3, <1>4
<1>6. PICK p \in DOMAIN records : p = records[k].parent
  BY DEF StoreOK, RecordsLinked, RecordLinked
<1>7. /\ p <= k - 1 /\ IsFull(p) /\ records[p].db = db /\ Settled(p)
      /\ \A f \in p + 1..k - 1 :
            IsFull(f) /\ records[f].db = db => f \in overlapped \/ Lost(f)
  BY <1>2, <1>3, <1>6 DEF RecordInOrder, ChainedTo
<1>8. ~(full < p)
  <2> SUFFICES ASSUME full < p
               PROVE  FALSE
    OBVIOUS
  <2>1. p \in full + 1..i - 1 /\ p \in full..i
    BY <1>1, <1>7
  <2>2. p \notin overlapped /\ records[p].status # "expired"
    BY <1>3, <1>7, <2>1 DEF Counts
  <2>3. Lost(p)
    BY <1>4, <1>7, <2>1, <2>2
  <2> QED
    BY <1>7, <2>2, <2>3 DEF Lost, Settled
<1>9. ~(p < full)
  <2> SUFFICES ASSUME p < full
               PROVE  FALSE
    OBVIOUS
  <2>1. full \in p + 1..k - 1
    BY <1>1
  <2>2. full \notin overlapped /\ records[full].status # "expired"
    BY <1>5 DEF Counts
  <2>3. Lost(full)
    BY <1>4, <1>7, <2>1, <2>2
  <2> QED
    BY <1>4, <2>2, <2>3 DEF Lost, Settled
<1>10. p = full
  BY <1>1, <1>8, <1>9
<1> QED
  BY <1>5, <1>6, <1>10 DEF Counts, LogsOf, FindChildren

LEMMA ChainsJoinFollows ==
    ASSUME StoreOK, OrderInv, JoinInv
    PROVE  ChainsJoin
<1> SUFFICES ASSUME NEW i \in DOMAIN records, records[i].status = "completed",
                    ~IsFull(i), ChainThere(i)
             PROVE  Joins(BuildChain(i, records[i].fileName))
  BY DEF ChainsJoin
<1>1. DOMAIN records = 1..Len(records) /\ Len(records) \in Nat
  BY RecordsHaveTypes, LenProperties
<1>2. PICK full \in DOMAIN records : full = records[i].parent
  BY DEF StoreOK, RecordsLinked, RecordLinked
<1>3. PICK db \in SqlServer : db = records[i].db
  BY DEF StoreOK, RecordsLinked, RecordLinked, LogsStarted
<1>4. PICK chain : chain = BuildChain(i, records[i].fileName)
  OBVIOUS
<1>5. /\ NeverRestored(db)
      /\ \A j \in full..i : records[j].db = db => Counts(j)
      /\ \A link \in Range(chain) : ObjectExists(link.key)
  BY <1>2, <1>3, <1>4 DEF ChainThere
<1>6. PICK S : S = {j \in LogsOf(full) : j <= i}
  OBVIOUS
<1>7. PICK ids, size :
         /\ size = Len(ids) /\ size \in Nat
         /\ chain = [n \in 1..size |-> [id |-> ids[n], key |-> records[ids[n]].fileName]]
         /\ ids[1] = full
         /\ \A n \in 2..size : ids[n] \in S
         /\ \A m, n \in 2..size : m < n => ids[m] < ids[n]
         /\ \A x \in S : \E n \in 2..size : ids[n] = x
  <2>1. PICK key : key = records[i].fileName
    OBVIOUS
  <2>2. chain = BuildChain(i, key) /\ records[i].db \in SqlServer
    BY <1>3, <1>4, <2>1
  <2>3. PICK seq : ChainIs(BuildChain(i, key), full, S, seq)
    BY <1>2, <1>6, <2>2, ChainInOrder
  <2> QED
    BY <2>2, <2>3, Zenon DEF ChainIs
<1>8. /\ IsFull(full) /\ records[full].db = db /\ full < i
  BY <1>1, <1>2, <1>3 DEF OrderInv, RecordInOrder, ChainedTo
<1>9. ASSUME NEW c \in S
      PROVE  /\ c \in DOMAIN records /\ c <= i /\ ~IsFull(c) /\ full < c
             /\ records[c].db = db
  <2>1. c \in DOMAIN records /\ c <= i /\ ~IsFull(c) /\ records[c].parent = full
    BY <1>6 DEF LogsOf, FindChildren
  <2>2. full <= c - 1 /\ records[full].db = records[c].db
    BY <2>1 DEF OrderInv, RecordInOrder, ChainedTo
  <2> QED
    BY <1>1, <1>8, <2>1, <2>2
<1>10. Len(chain) = size
  BY <1>7
<1>11. ASSUME NEW n \in 1..size - 1
       PROVE  /\ IsPrefix(contents[chain[n + 1].key].from, contents[chain[n].key].to)
              /\ IsPrefix(contents[chain[n].key].to, contents[chain[n + 1].key].to)
  <2>1. n \in 1..size /\ n + 1 \in 2..size /\ n + 1 \in 1..size /\ n \in Nat
    BY <1>7
  <2>2. PICK a, c : a = ids[n] /\ c = ids[n + 1]
    OBVIOUS
  <2>3. chain[n].key = records[a].fileName /\ chain[n + 1].key = records[c].fileName
    BY <1>7, <2>1, <2>2
  <2>4. chain[n].key \in bucket /\ chain[n + 1].key \in bucket
    <3>1. chain[n] \in Range(chain) /\ chain[n + 1] \in Range(chain)
      BY <1>7, <2>1 DEF Range
    <3> QED
      BY <1>5, <3>1 DEF ObjectExists
  <2>5. c \in S
    BY <1>7, <2>1, <2>2
  <2>6. a = full \/ a \in S
    <3>1. n = 1 \/ n \in 2..size
      BY <2>1
    <3> QED
      BY <1>7, <2>2, <3>1
  <2>7. a \in DOMAIN records /\ c \in DOMAIN records /\ full <= a /\ c <= i
        /\ records[a].db = db /\ records[c].db = db /\ ~IsFull(c)
    BY <1>1, <1>8, <1>9, <2>5, <2>6
  <2>8. a < c
    <3>1. CASE n = 1
      BY <1>7, <1>9, <2>2, <2>5, <3>1
    <3>2. CASE n \in 2..size
      BY <1>7, <2>1, <2>2, <3>2
    <3> QED
      BY <2>1, <3>1, <3>2
  <2>9. NoLogBetween(a, c)
    <3> SUFFICES ASSUME NEW k \in a + 1..c - 1, records[k].db = db, ~IsFull(k)
                 PROVE  FALSE
      BY <2>7 DEF NoLogBetween
    <3>1. k \in DOMAIN records /\ full < k /\ k < i /\ a < k /\ k < c /\ k \in Nat
      BY <1>1, <2>7
    <3>2. k \in S
      <4>1. k \in LogsOf(full)
        BY <1>2, <1>3, <1>5, <3>1, BetweenAreLogs
      <4> QED
        BY <1>1, <1>6, <3>1, <4>1
    <3>3. PICK m \in 2..size : ids[m] = k
      BY <1>7, <3>2
    <3>4. m # n /\ m # n + 1
      BY <1>1, <2>2, <2>7, <3>1, <3>3
    <3>5. CASE m < n
      <4>1. n \in 2..size
        BY <2>1, <3>5
      <4>2. ids[m] < ids[n]
        BY <1>7, <3>5, <4>1
      <4> QED
        BY <1>1, <2>2, <2>7, <3>1, <3>3, <4>2
    <3>6. CASE n + 1 < m
      <4>1. ids[n + 1] < ids[m]
        BY <1>7, <2>1, <3>6
      <4> QED
        BY <1>1, <2>2, <2>7, <3>1, <3>3, <4>1
    <3> QED
      BY <1>7, <2>1, <3>4, <3>5, <3>6
  <2>10. DumpJoins(a) /\ c \in DOMAIN records \ overlapped
    <3>1. a \in full..i /\ c \in full..i
      BY <1>1, <2>7, <2>8
    <3>2. a \notin overlapped /\ c \notin overlapped
      BY <1>5, <2>7, <3>1 DEF Counts
    <3> QED
      BY <1>5, <2>7, <3>2 DEF JoinInv
  <2>11. PICK data, after : data = contents[chain[n].key] /\ after = contents[chain[n + 1].key]
    OBVIOUS
  <2>12. data \in DumpsOf(a) /\ after \in DumpsOf(c)
    BY <2>3, <2>4, <2>11, InDumps DEF HeldUnder
  <2>13. IsPrefix(after.from, data.to) /\ IsPrefix(data.to, after.to)
    BY <2>7, <2>8, <2>9, <2>10, <2>12 DEF DumpJoins
  <2> QED
    BY <2>11, <2>13
<1>12. Joins(chain)
  BY <1>10, <1>11 DEF Joins
<1> QED
  BY <1>4, <1>12

(* The chains that restores replay join, whatever the applications commit, *)
(* the users delete, the backups fail at and the process dies in: a log    *)
(* goes on where the backup before it ended, and no backup of the database *)
(* that the chain leaves out has taken a part of its log.  Any number of   *)
(* backups of both types run at a time, and the chains of those that had   *)
(* none in their way join whatever happened beside them.  A time stamp is  *)
(* used once, and no dump is lost on its way out of the container.         *)
THEOREM ChainsJoinHolds ==
    ASSUME UniqueStamps, "extract" \notin Faults
    PROVE  Spec => []ChainsJoin
<1>1. Init => RestoreInv /\ OrderInv /\ JoinInv
  <2> SUFFICES ASSUME Init
               PROVE  OrderInv /\ JoinInv
    BY RestoreInvStarts
  <2>1. /\ DOMAIN records = {} /\ job = [b \in Backups |-> IdleJob]
        /\ LogsStarted = {}
    BY DEF Init, StoreInit, JobInit, AdapterInit, LogsStarted
  <2>2. \A b \in Backups : job[b].pc = "idle"
    BY <2>1 DEF IdleJob
  <2>3. Overlap = {}
    BY <2>2 DEF Overlap, Working
  <2> QED
    BY <2>1, <2>2, <2>3 DEF OrderInv, JoinInv, JobInOrder, Working, Dumped
<1>2. RestoreInv /\ OrderInv /\ JoinInv /\ [Next]_vars => RestoreInv' /\ OrderInv' /\ JoinInv'
  <2> SUFFICES ASSUME RestoreInv, OrderInv, JoinInv, [Next]_vars
               PROVE  RestoreInv' /\ OrderInv' /\ JoinInv'
    OBVIOUS
  <2>1. RestoreInv'
    BY RestoreInvKept
  <2>2. OrderInv'
    BY <2>1, OrderInvKept
  <2>3. JoinInv'
    BY <2>1, JoinInvKept
  <2> QED
    BY <2>1, <2>2, <2>3
<1>3. RestoreInv /\ OrderInv /\ JoinInv => ChainsJoin
  BY RestoreInvParts, ChainsJoinFollows
<1> QED
  BY <1>1, <1>2, <1>3, PTL DEF Spec
=============================================================================
