-------------------------- MODULE SelfBackupProofs --------------------------
(***************************************************************************)
(* Proofs about SelfBackup, for any number of hosts, any windows, any      *)
(* choice of failures and any length of the run.                           *)
(***************************************************************************)
EXTENDS SelfBackup, TLAPS

(* No name of a host begins with the name of another.                      *)
DistinctHosts == Begins = {<<h, h>> : h \in Hosts}

-----------------------------------------------------------------------------
(* Keys, and the storage adapter.                                          *)
LEMMA FullKeyFacts ==
    ASSUME NEW key \in Key, key.prefixes < 2
    PROVE  /\ FullKey(key) \in Key
           /\ FullKey(key).host = key.host
           /\ FullKey(key).prefixes = key.prefixes + StoredPrefixes
<1>1. key.prefixes \in 0..2 /\ key.prefixes + 1 \in 0..2 /\ key.prefixes + 0 = key.prefixes
  BY DEF Key
<1>2. QED
  BY <1>1 DEF Key, FullKey, StoredPrefixes

LEMMA StoredPrefixesFacts == StoredPrefixes \in 0..1 /\ (~Prefixed => StoredPrefixes = 0)
BY DEF StoredPrefixes

(* What listing for a host gives is what the host uploaded. *)
LEMMA ListsOwn ==
    ASSUME DistinctHosts, TypeOK, NEW h \in Hosts
    PROVE  ListObjects(h) = Snapshots(h)
<1>1. \A o \in objects : o.key.host \in Hosts
  BY DEF TypeOK, Snapshot, Key
<1>2. QED
  BY <1>1 DEF ListObjects, Snapshots, DistinctHosts

(* An object with another key stays, and DeleteObject adds none. *)
LEMMA DeleteFacts ==
    ASSUME NEW key, DeleteObject(key)
    PROVE  /\ objects' \subseteq objects
           /\ \A o \in objects : o \in objects' <=> o.key # FullKey(key)
BY DEF DeleteObject

(* Deleting a listed key touches that object, and under a prefix none.     *)
LEMMA DeleteListed ==
    ASSUME TypeOK, ObjectsKnown, NEW h \in Hosts, NEW key \in Key,
           key.host = h, key.prefixes = StoredPrefixes, DeleteObject(key)
    PROVE  /\ objects' \subseteq objects
           /\ \A o \in objects \ objects' : o.key = key
           /\ \A g \in Hosts \ {h} : Snapshots(g)' = Snapshots(g)
           /\ ~Prefixed => \A o \in objects' : o.key # key
<1>1. /\ objects' \subseteq objects
      /\ \A o \in objects : o \in objects' <=> o.key # FullKey(key)
  BY DeleteFacts
<1>2. CASE Prefixed
  <2>1. FullKey(key).prefixes = 2
    BY <1>2, FullKeyFacts DEF StoredPrefixes
  <2>2. \A o \in objects : o.key.prefixes = 1
    BY <1>2 DEF ObjectsKnown, StoredPrefixes
  <2>3. objects' = objects
    BY <1>1, <2>1, <2>2
  <2>4. QED
    BY <1>2, <2>3 DEF Snapshots
<1>3. CASE ~Prefixed
  <2>1. FullKey(key) = key
    BY <1>3 DEF FullKey
  <2>2. \A g \in Hosts \ {h} : Snapshots(g)' = Snapshots(g)
    BY <1>1, <2>1 DEF Snapshots
  <2>3. QED
    BY <1>1, <2>1, <2>2
<1>4. QED
  BY <1>2, <1>3

(* A key that a run made is stored with the prefix once.                   *)
LEMMA PutMade ==
    ASSUME TypeOK, ObjectsKnown, NEW h \in Hosts, NEW key \in Key, NEW version \in Version,
           key.host = h, key.prefixes = 0, PutObject(key, version)
    PROVE  /\ ObjectsKnown /\ clock' = clock => ObjectsKnown'
           /\ objects' \subseteq Snapshot
           /\ \E o \in Snapshots(h)' : o.key = FullKey(key) /\ o.modified = clock
           /\ \A g \in Hosts \ {h} : Snapshots(g)' = Snapshots(g)
<1> DEFINE o == [key |-> FullKey(key), modified |-> clock, version |-> version]
<1>1. FullKey(key) \in Key /\ FullKey(key).host = h /\ FullKey(key).prefixes = StoredPrefixes
  BY FullKeyFacts, StoredPrefixesFacts
<1>2. o \in Snapshot /\ o.key = FullKey(key) /\ o.modified = clock
  BY <1>1 DEF Snapshot, TypeOK
<1>3. objects' = {p \in objects : p.key # FullKey(key)} \cup {o}
  BY DEF PutObject
<1> HIDE DEF o
<1>4. \A p \in objects' : p = o \/ (p \in objects /\ p.key # o.key)
  BY <1>2, <1>3
<1>5. objects' \subseteq Snapshot
  BY <1>2, <1>3 DEF TypeOK
<1>6. clock <= clock
  BY DEF TypeOK, Clock, SelfBackupAssumption
<1>7. clock' = clock => ObjectsKnown'
  BY <1>1, <1>2, <1>4, <1>6 DEF ObjectsKnown, StoredPrefixes
<1>8. \A g \in Hosts \ {h} : Snapshots(g)' = Snapshots(g)
  BY <1>1, <1>2, <1>3 DEF Snapshots
<1>9. o \in Snapshots(h)'
  BY <1>1, <1>2, <1>3 DEF Snapshots
<1>10. QED
  BY <1>2, <1>5, <1>7, <1>8, <1>9

(* What is known of a host stays known when nothing of it changes.         *)
LEMMA Unaffected ==
    ASSUME TypeOK, NEW g \in Hosts, JobKnown(g), RecoveryKnown(g),
           clock' \in Nat, clock <= clock', Snapshots(g)' = Snapshots(g),
           job'[g] = job[g], recovery'[g] = recovery[g], state'[g] = state[g],
           g \in up' <=> g \in up
    PROVE  JobKnown(g)' /\ RecoveryKnown(g)'
<1>1. /\ clock \in Nat /\ RetainFor[g] \in Nat
      /\ job[g].cutoff \in Nat
  BY SelfBackupAssumption DEF TypeOK, Clock, Job
<1>2. job[g].cutoff + RetainFor[g] <= clock => job[g].cutoff + RetainFor[g] <= clock'
  BY <1>1
<1>3. JobKnown(g)'
  BY <1>2 DEF JobKnown
<1>4. RecoveryKnown(g)'
  BY DEF RecoveryKnown
<1>5. QED
  BY <1>3, <1>4

(* The same of all hosts but one; what remains is the one that acts.       *)
LEMMA OthersUnaffected ==
    ASSUME SelfInv, NEW h \in Hosts, TypeOK', ObjectsKnown', clock <= clock',
           \A g \in Hosts \ {h} :
               /\ Snapshots(g)' = Snapshots(g) /\ job'[g] = job[g]
               /\ recovery'[g] = recovery[g] /\ state'[g] = state[g]
               /\ g \in up' <=> g \in up,
           JobKnown(h)', RecoveryKnown(h)'
    PROVE  SelfInv'
<1>1. clock' \in Nat
  BY DEF TypeOK, Clock
<1>2. ASSUME NEW g \in Hosts \ {h} PROVE JobKnown(g)' /\ RecoveryKnown(g)'
  BY <1>1, Unaffected DEF SelfInv
<1>3. QED
  BY <1>2 DEF SelfInv

-----------------------------------------------------------------------------
LEMMA InitKnown == Init => SelfInv
<1> SUFFICES ASSUME Init PROVE SelfInv
  OBVIOUS
<1>1. /\ 0 \in Clock /\ 0 \in Version /\ Lost \in Version
      /\ 0 \in 0..MaxClock + 1
  BY SelfBackupAssumption DEF Clock, Version, Lost
<1>2. IdleJob(0) \in Job /\ NoRecovery \in Recovery
  BY <1>1 DEF IdleJob, Job, JobPc, NoRecovery, Recovery
<1>3. TypeOK
  BY <1>1, <1>2 DEF Init, TypeOK
<1>4. \A h \in Hosts : job[h].pc = "idle" /\ recovery[h].pc = "idle"
  BY DEF Init, IdleJob, NoRecovery
<1>5. QED
  BY <1>3, <1>4 DEF Init, SelfInv, ObjectsKnown, JobKnown, RecoveryKnown

LEMMA TickKeeps ==
    ASSUME SelfInv, Tick
    PROVE  SelfInv'
<1>1. TypeOK' /\ clock' \in Nat /\ clock \in Nat /\ clock <= clock'
  BY SelfBackupAssumption DEF SelfInv, Tick, TypeOK, Clock
<1>2. ObjectsKnown'
  <2>1. \A o \in objects : o.modified \in Nat
    BY DEF SelfInv, TypeOK, Snapshot, Clock
  <2>2. QED
    BY <1>1, <2>1 DEF SelfInv, Tick, ObjectsKnown
<1>3. ASSUME NEW g \in Hosts PROVE JobKnown(g)' /\ RecoveryKnown(g)'
  BY <1>1, Unaffected DEF SelfInv, Tick, Snapshots
<1>4. QED
  BY <1>1, <1>2, <1>3 DEF SelfInv

LEMMA ChangeKeeps ==
    ASSUME SelfInv, NEW h \in Hosts, Change(h)
    PROVE  SelfInv'
<1> USE DEF SelfInv
<1>1. state[h] + 1 \in Version
  BY SelfBackupAssumption DEF TypeOK, Change, Version, Lost
<1>2. TypeOK'
  BY <1>1 DEF TypeOK, Change
<1>3. ObjectsKnown' /\ clock <= clock'
  BY SelfBackupAssumption DEF ObjectsKnown, Change, TypeOK, Clock
<1>4. JobKnown(h)' /\ RecoveryKnown(h)'
  BY DEF Change, JobKnown, RecoveryKnown, Snapshots
<1>5. QED
  BY <1>2, <1>3, <1>4, OthersUnaffected DEF Change, TypeOK, Snapshots

(* A running host is recovering nothing, and one that is lost runs nothing. *)
LEMMA LoseKeeps ==
    ASSUME SelfInv, NEW h \in Hosts, Lose(h)
    PROVE  SelfInv'
<1> USE DEF SelfInv
<1>1. IdleJob(job[h].fires) \in Job /\ Lost \in Version
  BY SelfBackupAssumption DEF TypeOK, IdleJob, Job, JobPc, Version, Lost, Clock
<1>2. TypeOK'
  BY <1>1 DEF TypeOK, Lose
<1>3. ObjectsKnown' /\ clock <= clock'
  BY SelfBackupAssumption DEF ObjectsKnown, Lose, TypeOK, Clock
<1>4. job'[h].pc = "idle" /\ recovery'[h].pc # "download"
  BY DEF Lose, TypeOK, IdleJob, RecoveryKnown
<1>5. JobKnown(h)' /\ RecoveryKnown(h)'
  BY <1>4 DEF JobKnown, RecoveryKnown
<1>6. QED
  BY <1>2, <1>3, <1>5, OthersUnaffected DEF Lose, TypeOK, Snapshots

LEMMA StartAgainKeeps ==
    ASSUME SelfInv, NEW h \in Hosts, StartAgain(h)
    PROVE  SelfInv'
<1> USE DEF SelfInv
<1>1. IdleJob(clock + 1) \in Job
  BY SelfBackupAssumption DEF TypeOK, IdleJob, Job, JobPc, Version, Lost, Clock
<1>2. TypeOK'
  BY <1>1 DEF TypeOK, StartAgain
<1>3. ObjectsKnown' /\ clock <= clock'
  BY SelfBackupAssumption DEF ObjectsKnown, StartAgain, TypeOK, Clock
<1>4. job'[h].pc = "idle" /\ recovery'[h].pc # "download"
  BY DEF StartAgain, TypeOK, IdleJob, RecoveryKnown
<1>5. JobKnown(h)' /\ RecoveryKnown(h)'
  BY <1>4 DEF JobKnown, RecoveryKnown
<1>6. QED
  BY <1>2, <1>3, <1>5, OthersUnaffected DEF StartAgain, TypeOK, Snapshots

-----------------------------------------------------------------------------
(* Run.  Only a host that is up runs, so it is not the one that recovers.  *)
LEMMA RunBeginsKeeps ==
    ASSUME SelfInv, NEW h \in Hosts, RunBegins(h)
    PROVE  SelfInv'
<1> USE DEF SelfInv
<1> DEFINE new == [IdleJob(clock + 1) EXCEPT
                      !.pc = "upload", !.key = SnapshotKey(h), !.version = state[h]]
<1>1. SnapshotKey(h) \in Key /\ SnapshotKey(h).prefixes = 0 /\ SnapshotKey(h).host = h
  BY DEF SnapshotKey, Key, TypeOK
<1>2. new \in Job /\ new.pc = "upload" /\ new.key = SnapshotKey(h)
  <2>1. IdleJob(clock + 1) \in Job
    BY SelfBackupAssumption DEF TypeOK, IdleJob, Job, JobPc, Version, Lost, Clock
  <2>2. state[h] \in Version
    BY DEF TypeOK
  <2>3. QED
    BY ONLY <1>1, <2>1, <2>2 DEF Job, JobPc
<1>3. job' = [job EXCEPT ![h] = new]
  BY DEF RunBegins
<1> HIDE DEF new
<1>4. TypeOK'
  BY <1>2, <1>3 DEF TypeOK, RunBegins
<1>5. ObjectsKnown' /\ clock <= clock'
  BY SelfBackupAssumption DEF ObjectsKnown, RunBegins, TypeOK, Clock
<1>6. JobKnown(h)'
  BY <1>1, <1>2, <1>3 DEF JobKnown, RunBegins, TypeOK
<1>7. RecoveryKnown(h)'
  BY DEF RecoveryKnown, RunBegins
<1>8. QED
  BY <1>3, <1>4, <1>5, <1>6, <1>7, OthersUnaffected DEF RunBegins, TypeOK, Snapshots

(* The window of a host, counted back from now. *)
LEMMA CutoffFacts ==
    ASSUME TypeOK, NEW h \in Hosts
    PROVE  /\ Cutoff(h) \in Clock /\ Cutoff(h) <= clock
           /\ Cutoff(h) = 0 \/ Cutoff(h) + RetainFor[h] <= clock
<1>1. clock \in 0..MaxClock /\ MaxClock \in Nat /\ RetainFor[h] \in Nat
  BY SelfBackupAssumption DEF TypeOK, Clock
<1>2. QED
  BY <1>1 DEF Cutoff, Clock

LEMMA RunUploadsKeeps ==
    ASSUME SelfInv, NEW h \in Hosts, RunUploads(h)
    PROVE  SelfInv'
<1> USE DEF SelfInv
<1>1. /\ job[h].key \in Key /\ job[h].key.prefixes = 0 /\ job[h].key.host = h
      /\ job[h].version \in Version /\ h \in up
  BY DEF RunUploads, JobKnown, TypeOK, Job
<1>2. PutObject(job[h].key, job[h].version) /\ UNCHANGED <<clock, state, up, recovery, stuck>>
  BY DEF RunUploads
<1>3. /\ ObjectsKnown' /\ objects' \subseteq Snapshot
      /\ \E o \in Snapshots(h)' : o.key = FullKey(job[h].key) /\ o.modified = clock
      /\ \A g \in Hosts \ {h} : Snapshots(g)' = Snapshots(g)
  BY <1>1, <1>2, PutMade
<1>4. /\ job' \in [Hosts -> Job]
      /\ job'[h] = [job[h] EXCEPT !.pc = "list", !.cutoff = Cutoff(h)]
      /\ \A g \in Hosts \ {h} : job'[g] = job[g]
  BY CutoffFacts DEF RunUploads, TypeOK, Job, JobPc
<1>5. job'[h].pc = "list" /\ job'[h].cutoff = Cutoff(h) /\ job'[h].key = job[h].key
  BY <1>4 DEF TypeOK, Job
<1>6. TypeOK' /\ clock <= clock'
  BY <1>2, <1>3, <1>4, SelfBackupAssumption DEF TypeOK, Clock
<1>7. JobKnown(h)'
  BY <1>1, <1>2, <1>3, <1>5, CutoffFacts DEF JobKnown
<1>8. RecoveryKnown(h)'
  BY <1>1, <1>2 DEF RecoveryKnown
<1>9. QED
  BY <1>2, <1>3, <1>4, <1>6, <1>7, <1>8, OthersUnaffected

(* A run that ends, whether it could do all it had to or not. *)
LEMMA RunOverKeeps ==
    ASSUME SelfInv, NEW h \in Hosts, RunFails(h) \/ RunEnds(h)
    PROVE  SelfInv'
<1> USE DEF SelfInv
<1>1. /\ job' = [job EXCEPT ![h] = IdleJob(job[h].fires)]
      /\ stuck' \subseteq Hosts /\ UNCHANGED <<clock, state, up, objects, recovery>>
  BY DEF RunFails, RunEnds, TypeOK
<1>2. IdleJob(job[h].fires) \in Job /\ IdleJob(job[h].fires).pc = "idle"
  BY SelfBackupAssumption DEF TypeOK, IdleJob, Job, JobPc, Version, Lost, Clock
<1>3. TypeOK' /\ ObjectsKnown' /\ clock <= clock'
  BY <1>1, <1>2, SelfBackupAssumption DEF TypeOK, ObjectsKnown, Clock
<1>4. JobKnown(h)' /\ RecoveryKnown(h)'
  BY <1>1, <1>2 DEF JobKnown, RecoveryKnown, Snapshots, TypeOK
<1>5. QED
  BY <1>1, <1>3, <1>4, OthersUnaffected DEF TypeOK, Snapshots

(* What is listed is the host's own, and what is old has no snapshot of    *)
(* this run among it.                                                      *)
LEMMA RunListsKeeps ==
    ASSUME DistinctHosts, SelfInv, NEW h \in Hosts, RunLists(h)
    PROVE  SelfInv'
<1> USE DEF SelfInv
<1> DEFINE old == {o.key : o \in {p \in Snapshots(h) : p.modified < job[h].cutoff}}
<1>1. ListObjects(h) = Snapshots(h)
  BY ListsOwn
<1>2. /\ job' = [job EXCEPT ![h].pc = "delete", ![h].todo = old]
      /\ UNCHANGED <<clock, state, up, objects, recovery, stuck>>
  BY <1>1 DEF RunLists
<1>3. Snapshots(h) \subseteq objects /\ \A o \in Snapshots(h) : o.key \in Key /\ o.key.host = h
  BY DEF Snapshots, TypeOK, Snapshot
<1>4. \A key \in old : \E o \in Snapshots(h) : o.key = key /\ o.modified < job[h].cutoff
  OBVIOUS
<1>5. \A o \in Snapshots(h) : o.modified < job[h].cutoff => o.key \in old
  OBVIOUS
<1> HIDE DEF old
<1>6. /\ \A key \in old : key \in Key /\ key.host = h /\ key.prefixes = StoredPrefixes
      /\ \A o \in Snapshots(h) : o.key \in old => o.modified < job[h].cutoff
  BY <1>3, <1>4 DEF ObjectsKnown
<1>7. /\ job' \in [Hosts -> Job]
      /\ job'[h] = [job[h] EXCEPT !.pc = "delete", !.todo = old]
      /\ \A g \in Hosts \ {h} : job'[g] = job[g]
  <2>1. job \in [Hosts -> Job] /\ job[h] \in Job /\ old \in SUBSET Key
    BY <1>6 DEF TypeOK
  <2>2. [job[h] EXCEPT !.pc = "delete", !.todo = old] \in Job
    BY ONLY <2>1 DEF Job, JobPc
  <2>3. job' = [job EXCEPT ![h] = [job[h] EXCEPT !.pc = "delete", !.todo = old]]
    BY <1>2
  <2>4. QED
    BY ONLY <2>1, <2>2, <2>3, h \in Hosts
<1>8. /\ job'[h].pc = "delete" /\ job'[h].todo = old /\ job'[h].cutoff = job[h].cutoff
      /\ job'[h].key = job[h].key /\ job[h].pc = "list"
  <2>1. job[h] \in Job /\ job[h].pc = "list"
    BY DEF TypeOK, RunLists
  <2>2. QED
    BY ONLY <1>7, <2>1 DEF Job
<1>9. TypeOK' /\ ObjectsKnown' /\ clock <= clock'
  BY <1>2, <1>7, SelfBackupAssumption DEF TypeOK, ObjectsKnown, Clock
<1>10. job[h].cutoff \in Nat /\ \A o \in Snapshots(h) : o.modified \in Nat
  BY <1>3 DEF TypeOK, Job, Snapshot, Clock
<1>11. Snapshots(h)' = Snapshots(h)
  BY <1>2 DEF Snapshots
<1>12. JobKnown(h)'
  <2>1. /\ h \in up /\ job[h].key \in Key /\ job[h].key.prefixes = 0 /\ job[h].key.host = h
        /\ job[h].cutoff = 0 \/ job[h].cutoff + RetainFor[h] <= clock
        /\ \E o \in Snapshots(h) :
              o.key = FullKey(job[h].key) /\ o.modified >= job[h].cutoff
    BY <1>8 DEF JobKnown
  <2>2. \A o \in Snapshots(h) : o.modified >= job[h].cutoff \/ o.key \in old
    BY <1>5, <1>10
  <2>3. QED
    BY ONLY <1>2, <1>6, <1>8, <1>11, <2>1, <2>2 DEF JobKnown
<1>13. RecoveryKnown(h)'
  BY <1>2, <1>11 DEF RecoveryKnown
<1>14. QED
  BY <1>2, <1>7, <1>9, <1>12, <1>13, OthersUnaffected DEF Snapshots

(* What one deletion of a run takes away.  The snapshot the run uploaded   *)
(* is young, what it is about to prune is not.                             *)
LEMMA RunDeletesOwnOld ==
    ASSUME SelfInv, NEW h \in Hosts, RunDeletes(h)
    PROVE  /\ objects' \subseteq objects
           /\ \A o \in objects \ objects' : o \in Snapshots(h) /\ o.modified < job[h].cutoff
           /\ \A g \in Hosts \ {h} : Snapshots(g)' = Snapshots(g)
           /\ \E o \in Snapshots(h)' :
                 o.key = FullKey(job[h].key) /\ o.modified >= job[h].cutoff
<1> USE DEF SelfInv
<1>1. PICK key \in job[h].todo :
          \/ DeleteObject(key) \/ UNCHANGED objects
  BY DEF RunDeletes
<1>2. key \in Key /\ key.host = h /\ key.prefixes = StoredPrefixes
  BY DEF RunDeletes, JobKnown, TypeOK, Job
<1>3. /\ objects' \subseteq objects
      /\ \A o \in objects \ objects' : o.key = key
      /\ \A g \in Hosts \ {h} : Snapshots(g)' = Snapshots(g)
  <2>1. CASE DeleteObject(key)
    BY <1>2, <2>1, DeleteListed
  <2>2. CASE UNCHANGED objects
    BY <2>2 DEF Snapshots
  <2>3. QED
    BY <1>1, <2>1, <2>2
<1>4. \A o \in objects \ objects' : o \in Snapshots(h) /\ o.modified < job[h].cutoff
  BY <1>2, <1>3 DEF RunDeletes, JobKnown, Snapshots
<1>5. PICK o \in Snapshots(h) : o.key = FullKey(job[h].key) /\ o.modified >= job[h].cutoff
  BY DEF RunDeletes, JobKnown
<1>6. o.modified \in Nat /\ job[h].cutoff \in Nat
  BY <1>5 DEF TypeOK, Snapshots, Snapshot, Job, Clock
<1>7. o \in Snapshots(h)'
  BY <1>4, <1>5, <1>6 DEF Snapshots
<1>8. QED
  BY <1>3, <1>4, <1>5, <1>7

LEMMA RunDeletesKeeps ==
    ASSUME SelfInv, NEW h \in Hosts, RunDeletes(h)
    PROVE  SelfInv'
<1> USE DEF SelfInv
<1>1. PICK key \in job[h].todo :
          \/ /\ DeleteObject(key)
             /\ job' = [job EXCEPT ![h].todo = @ \ {key}]
          \/ /\ UNCHANGED objects
             /\ job' = [job EXCEPT ![h].todo = @ \ {key}, ![h].failed = @ \cup {key}]
  BY DEF RunDeletes
<1>2. /\ job[h].pc = "delete" /\ job[h] \in Job /\ job \in [Hosts -> Job]
      /\ UNCHANGED <<clock, state, up, recovery, stuck>>
  BY DEF RunDeletes, TypeOK
<1>3. key \in Key /\ key.host = h /\ key.prefixes = StoredPrefixes
  BY <1>2 DEF JobKnown, Job
<1>4. PICK failed \in SUBSET Key :
          /\ job' = [job EXCEPT ![h] = [job[h] EXCEPT !.todo = @ \ {key}, !.failed = failed]]
          /\ failed = job[h].failed \/ failed = job[h].failed \cup {key}
  <2>1. CASE job' = [job EXCEPT ![h].todo = @ \ {key}]
    <3>1. job' = [job EXCEPT ![h] = [job[h] EXCEPT !.todo = @ \ {key},
                                                  !.failed = job[h].failed]]
      BY ONLY <1>2, <2>1 DEF Job
    <3>2. job[h].failed \in SUBSET Key
      BY ONLY <1>2 DEF Job
    <3>3. QED
      BY <3>1, <3>2
  <2>2. CASE job' = [job EXCEPT ![h].todo = @ \ {key}, ![h].failed = @ \cup {key}]
    <3>1. job' = [job EXCEPT ![h] = [job[h] EXCEPT !.todo = @ \ {key},
                                                  !.failed = job[h].failed \cup {key}]]
      BY ONLY <1>2, <2>2 DEF Job
    <3>2. job[h].failed \cup {key} \in SUBSET Key
      BY ONLY <1>2, <1>3 DEF Job
    <3>3. QED
      BY <3>1, <3>2
  <2>3. QED
    BY <1>1, <2>1, <2>2
<1>5. /\ job' \in [Hosts -> Job]
      /\ \A g \in Hosts \ {h} : job'[g] = job[g]
      /\ job'[h].pc = "delete" /\ job'[h].key = job[h].key
      /\ job'[h].cutoff = job[h].cutoff /\ job'[h].failed = failed
      /\ job'[h].todo = job[h].todo \ {key}
  BY ONLY <1>2, <1>4, h \in Hosts DEF Job
<1>6. /\ objects' \subseteq objects
      /\ \A g \in Hosts \ {h} : Snapshots(g)' = Snapshots(g)
      /\ \E o \in Snapshots(h)' :
            o.key = FullKey(job[h].key) /\ o.modified >= job[h].cutoff
  BY RunDeletesOwnOld
<1>7. /\ Snapshots(h)' \subseteq Snapshots(h)
      /\ \A o \in Snapshots(h)' : o.key # key \/ Prefixed \/ key \in failed
  <2>1. CASE DeleteObject(key)
    BY <1>3, <1>6, <2>1, DeleteListed DEF Snapshots
  <2>2. CASE job' = [job EXCEPT ![h].todo = @ \ {key}, ![h].failed = @ \cup {key}]
    <3>1. job'[h].failed = job[h].failed \cup {key}
      BY ONLY <1>2, <2>2, h \in Hosts DEF Job
    <3>2. QED
      BY <1>5, <1>6, <3>1 DEF Snapshots
  <2>3. QED
    BY <1>1, <2>1, <2>2
<1>8. TypeOK' /\ ObjectsKnown' /\ clock <= clock'
  BY <1>2, <1>5, <1>6, SelfBackupAssumption DEF TypeOK, ObjectsKnown, Clock
<1>9. JobKnown(h)'
  <2>1. /\ h \in up /\ job[h].key \in Key /\ job[h].key.prefixes = 0 /\ job[h].key.host = h
        /\ job[h].cutoff = 0 \/ job[h].cutoff + RetainFor[h] <= clock
        /\ \A k \in job[h].todo : k.host = h /\ k.prefixes = StoredPrefixes
        /\ \A o \in Snapshots(h) : o.key \in job[h].todo => o.modified < job[h].cutoff
        /\ ~Prefixed => \A o \in Snapshots(h) :
              o.modified >= job[h].cutoff \/ o.key \in job[h].todo \cup job[h].failed
    BY <1>2 DEF JobKnown
  <2>2. ~Prefixed => \A o \in Snapshots(h)' :
            o.modified >= job[h].cutoff \/ o.key \in (job[h].todo \ {key}) \cup failed
    BY ONLY <1>4, <1>7, <2>1
  <2>3. QED
    BY ONLY <1>2, <1>5, <1>6, <1>7, <2>1, <2>2 DEF JobKnown
<1>10. RecoveryKnown(h)'
  BY <1>2 DEF RecoveryKnown, JobKnown
<1>11. QED
  BY <1>2, <1>5, <1>6, <1>8, <1>9, <1>10, OthersUnaffected

-----------------------------------------------------------------------------
(* recover.  What it chose stays the newest, for the host is down.         *)
LEMMA RecoverListsKeeps ==
    ASSUME DistinctHosts, SelfInv, NEW h \in Hosts, RecoverLists(h)
    PROVE  SelfInv'
<1> USE DEF SelfInv
<1>1. ListObjects(h) = Snapshots(h)
  BY ListsOwn
<1>2. PICK r : /\ recovery' = [recovery EXCEPT ![h] = r]
               /\ \/ r = [pc |-> "failed", key |-> NoKey]
                  \/ \E o \in Snapshots(h) :
                        LatestOf(h, o) /\ r = [pc |-> "download", key |-> o.key]
  BY <1>1 DEF RecoverLists
<1>3. /\ h \notin up /\ state[h] = Lost
      /\ UNCHANGED <<clock, state, up, objects, job, stuck>>
  BY DEF RecoverLists
<1>4. \A o \in Snapshots(h) : o.key \in Key
  BY DEF Snapshots, TypeOK, Snapshot
<1>5. r \in Recovery
  BY <1>2, <1>4 DEF Recovery
<1>6. TypeOK' /\ ObjectsKnown' /\ clock <= clock'
  BY <1>2, <1>3, <1>5, SelfBackupAssumption DEF TypeOK, ObjectsKnown, Clock
<1>7. recovery'[h] = r /\ \A g \in Hosts \ {h} : recovery'[g] = recovery[g]
  BY <1>2 DEF TypeOK
<1>8. JobKnown(h)' /\ RecoveryKnown(h)'
  BY <1>1, <1>2, <1>3, <1>7 DEF JobKnown, RecoveryKnown, Snapshots, LatestOf
<1>9. QED
  BY <1>3, <1>6, <1>7, <1>8, OthersUnaffected DEF Snapshots

(* A recovery that ends: the file is there, or it has failed. *)
LEMMA RecoverOverKeeps ==
    ASSUME SelfInv, NEW h \in Hosts, RecoverDownloads(h) \/ RecoverFails(h)
    PROVE  SelfInv'
<1> USE DEF SelfInv
<1>1. PICK r \in Recovery : recovery' = [recovery EXCEPT ![h] = r] /\ r.pc # "download"
  <2>1. NoRecovery \in Recovery /\ NoRecovery.pc # "download"
    BY DEF Recovery, NoRecovery
  <2>2. [pc |-> "failed", key |-> NoKey] \in Recovery
    BY DEF Recovery
  <2>3. QED
    BY <2>1, <2>2 DEF RecoverDownloads, RecoverFails
<1>2. \A o \in objects : o.version \in Version
  BY DEF TypeOK, Snapshot
<1>3. PICK v \in Version : state' = [state EXCEPT ![h] = v]
  BY <1>2 DEF RecoverDownloads, RecoverFails, TypeOK
<1>4. UNCHANGED <<clock, up, objects, job, stuck>> /\ h \notin up
  BY DEF RecoverDownloads, RecoverFails, RecoveryKnown
<1>5. TypeOK' /\ ObjectsKnown' /\ clock <= clock'
  BY <1>1, <1>3, <1>4, SelfBackupAssumption DEF TypeOK, ObjectsKnown, Clock
<1>6. JobKnown(h)' /\ RecoveryKnown(h)'
  BY <1>1, <1>4 DEF JobKnown, RecoveryKnown, Snapshots, TypeOK
<1>7. QED
  BY <1>1, <1>3, <1>4, <1>5, <1>6, OthersUnaffected DEF TypeOK, Snapshots

-----------------------------------------------------------------------------
LEMMA NextKeeps ==
    ASSUME DistinctHosts, SelfInv, [Next]_vars
    PROVE  SelfInv'
<1>1. CASE Tick
  BY <1>1, TickKeeps
<1>2. CASE UNCHANGED vars
  BY <1>2 DEF SelfInv, TypeOK, ObjectsKnown, JobKnown, RecoveryKnown, Snapshots, vars
<1>3. ASSUME NEW h \in Hosts, Change(h) \/ Lose(h) \/ StartAgain(h)
      PROVE  SelfInv'
  BY <1>3, ChangeKeeps, LoseKeeps, StartAgainKeeps
<1>4. ASSUME NEW h \in Hosts, RunStep(h)
      PROVE  SelfInv'
  BY <1>4, RunBeginsKeeps, RunUploadsKeeps, RunOverKeeps, RunListsKeeps, RunDeletesKeeps
     DEF RunStep
<1>5. ASSUME NEW h \in Hosts, RecoverStep(h)
      PROVE  SelfInv'
  BY <1>5, RecoverListsKeeps, RecoverOverKeeps DEF RecoverStep
<1>6. QED
  BY <1>1, <1>2, <1>3, <1>4, <1>5 DEF Next

(* What each host holds, runs and recovers keeps together: the types, and  *)
(* what SelfInv says of the keys in the bucket, of a run and of a recovery *)
(* (self_backup.go, self_restore.go and the keys of adapter.go).           *)
THEOREM SelfInvHolds == ASSUME DistinctHosts PROVE Spec => []SelfInv
<1>1. Init => SelfInv
  BY InitKnown
<1>2. SelfInv /\ [Next]_vars => SelfInv'
  BY NextKeeps
<1>3. QED
  BY <1>1, <1>2, PTL DEF Spec

(* What is in the bucket after a step: only a deletion takes snapshots     *)
(* away, and only those of the host that deletes.                          *)
LEMMA SnapshotsLeft ==
    ASSUME DistinctHosts, SelfInv, [Next]_vars, NEW h \in Hosts, Snapshots(h) # {}
    PROVE  Snapshots(h)' # {}
<1> USE DEF SelfInv
<1>1. CASE UNCHANGED objects
  BY <1>1 DEF Snapshots
<1>2. ASSUME NEW g \in Hosts, RunUploads(g)
      PROVE  Snapshots(h)' # {}
  <2>1. /\ job[g].key \in Key /\ job[g].key.prefixes = 0 /\ job[g].key.host = g
        /\ job[g].version \in Version /\ PutObject(job[g].key, job[g].version)
    BY <1>2 DEF RunUploads, JobKnown, TypeOK, Job
  <2>2. Snapshots(g)' # {} /\ \A k \in Hosts \ {g} : Snapshots(k)' = Snapshots(k)
    BY <2>1, PutMade
  <2>3. QED
    BY <2>2
<1>3. ASSUME NEW g \in Hosts, RunDeletes(g)
      PROVE  Snapshots(h)' # {}
  <2>1. Snapshots(g)' # {} /\ \A k \in Hosts \ {g} : Snapshots(k)' = Snapshots(k)
    BY <1>3, RunDeletesOwnOld
  <2>2. QED
    BY <2>1
<1>4. UNCHANGED objects \/ \E g \in Hosts : RunUploads(g) \/ RunDeletes(g)
  BY DEF Next, vars, Tick, Change, Lose, StartAgain, RunStep, RunBegins, RunFails, RunLists,
         RunEnds, RecoverStep, RecoverLists, RecoverDownloads, RecoverFails
<1>5. QED
  BY <1>1, <1>2, <1>3, <1>4

(* Pruning, whichever host does it and however long it was away, leaves    *)
(* every host a snapshot to recover from: Run deletes after it has         *)
(* uploaded, and only what was modified before the cutoff (with a          *)
(* PathPrefix or without one).                                             *)
THEOREM SnapshotKeptHolds == ASSUME DistinctHosts PROVE Spec => SnapshotKept
<1>1. SelfInv /\ [Next]_vars => SnapshotKeptStep
  BY SnapshotsLeft DEF SnapshotKeptStep
<1>2. SelfInv /\ [Next]_vars => [SnapshotKeptStep]_vars
  BY <1>1
<1>3. QED
  BY <1>2, SelfInvHolds, PTL DEF Spec, SnapshotKept

LEMMA PrunedOwnOld ==
    ASSUME SelfInv, NEW h \in Hosts, RunDeletes(h), NEW o \in objects \ objects'
    PROVE  /\ o.key.host = h
           /\ o.modified + RetainFor[h] < clock
           /\ \E p \in objects' : p.key.host = h /\ p.modified > o.modified
<1> USE DEF SelfInv
<1>1. o \in Snapshots(h) /\ o.modified < job[h].cutoff
  BY RunDeletesOwnOld
<1>2. PICK p \in Snapshots(h)' : p.modified >= job[h].cutoff
  BY RunDeletesOwnOld
<1>3. job[h].cutoff = 0 \/ job[h].cutoff + RetainFor[h] <= clock
  BY DEF RunDeletes, JobKnown
<1>4. p \in objects' /\ p.key.host = h /\ o.key.host = h
  BY <1>1, <1>2 DEF Snapshots
<1>5. objects' \subseteq objects
  BY RunDeletesOwnOld
<1>6. /\ o.modified \in Nat /\ p.modified \in Nat /\ job[h].cutoff \in Nat
      /\ RetainFor[h] \in Nat /\ clock \in Nat
  BY <1>4, <1>5, SelfBackupAssumption DEF TypeOK, Snapshot, Job, Clock
<1>7. o.modified + RetainFor[h] < clock /\ p.modified > o.modified
  BY <1>1, <1>2, <1>3, <1>6
<1>8. QED
  BY <1>4, <1>7

(* What a host prunes is its own, outside its window, and older than some  *)
(* snapshot of that host that stays (Run: cutoff, ListObjects,             *)
(* DeleteObject).                                                          *)
THEOREM PrunesOwnOldHolds == ASSUME DistinctHosts PROVE Spec => PrunesOwnOld
<1>1. SelfInv => [PrunesOwnOldStep]_vars
  BY PrunedOwnOld DEF PrunesOwnOldStep
<1>2. QED
  BY <1>1, SelfInvHolds, PTL DEF Spec, PrunesOwnOld

(* When a run ends, what is left of its host is within the window, but for *)
(* what could not be deleted.  In a bucket without a PathPrefix: with one, *)
(* DeleteObject is given keys that have it already.                        *)
THEOREM PrunesAllHolds == ASSUME DistinctHosts, ~Prefixed PROVE Spec => PrunesAll
<1>1. SelfInv => [PrunesAllStep]_vars
  BY DEF SelfInv, PrunesAllStep, RunEnds, JobKnown
<1>2. QED
  BY <1>1, SelfInvHolds, PTL DEF Spec, PrunesAll

(* The snapshot that recover chose is in the bucket under the key that     *)
(* Download asks for, until it has been downloaded.  In a bucket without a *)
(* PathPrefix: with one, Download asks for the prefix twice.               *)
THEOREM RecoveryFindsHolds == ASSUME DistinctHosts, ~Prefixed PROVE Spec => []RecoveryFinds
<1>1. SelfInv => RecoveryFinds
  BY DEF SelfInv, RecoveryFinds, RecoveryKnown, Snapshots, FullKey
<1>2. QED
  BY <1>1, SelfInvHolds, PTL

(* What recover puts in place of the lost file is a snapshot of that host, *)
(* and the host has none that is newer, though other hosts upload and      *)
(* prune between the listing and the download.                             *)
THEOREM RecoversNewestHolds == ASSUME DistinctHosts, ~Prefixed PROVE Spec => RecoversNewest
<1>1. ASSUME SelfInv, NEW h \in Hosts, RecoverDownloads(h)
      PROVE  \E o \in Snapshots(h) :
                /\ o.version = state'[h]
                /\ \A p \in Snapshots(h) : p.modified <= o.modified
  <2>1. PICK o \in objects : o.key = recovery[h].key /\ state' = [state EXCEPT ![h] = o.version]
    BY <1>1 DEF RecoverDownloads, FullKey
  <2>2. PICK q \in Snapshots(h) :
            q.key = recovery[h].key /\ \A p \in Snapshots(h) : p.modified <= q.modified
    BY <1>1 DEF SelfInv, RecoverDownloads, RecoveryKnown
  <2>3. o = q
    BY <1>1, <2>1, <2>2 DEF SelfInv, ObjectsKnown, Snapshots
  <2>4. state'[h] = o.version
    BY <1>1, <2>1 DEF SelfInv, TypeOK
  <2>5. QED
    BY <2>2, <2>3, <2>4
<1>2. SelfInv => [RecoversNewestStep]_vars
  BY <1>1 DEF RecoversNewestStep
<1>3. QED
  BY <1>2, SelfInvHolds, PTL DEF Spec, RecoversNewest
=============================================================================
