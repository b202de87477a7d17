----------------------------- MODULE SelfBackup -----------------------------
(***************************************************************************)
(* SelfBackupUseCase and SelfRestoreUseCase: every host that runs the      *)
(* program uploads snapshots of its own bbolt file, prunes the old ones,   *)
(* and, when its server is lost, recovers the newest.  Hosts share the     *)
(* bucket.  Time goes by in half days, the interval of the cron entry; a   *)
(* window of RetainDays is a number of them.                               *)
(*                                                                         *)
(* The storage adapter puts the PathPrefix of the bucket before every key  *)
(* it is given, and lists keys with it.                                    *)
(***************************************************************************)
EXTENDS Naturals, FiniteSets

CONSTANTS
    Hosts,
    Begins,         \* <<h, g>>: the name of g begins with that of h
    Prefixed,       \* the bucket has a PathPrefix
    RetainFor,      \* the window of each host, in half days
    Faults,         \* which failures happen
    MaxClock,       \* bound: half days that pass
    MaxVersion      \* bound: changes to the state of a host

FaultKinds == {"upload", "list", "delete", "download"}

ASSUME SelfBackupAssumption ==
    /\ Begins \subseteq Hosts \X Hosts
    /\ \A h \in Hosts : <<h, h>> \in Begins
    /\ Prefixed \in BOOLEAN
    /\ RetainFor \in [Hosts -> Nat \ {0}]
    /\ Faults \subseteq FaultKinds
    /\ MaxClock \in Nat /\ MaxVersion \in Nat

VARIABLES
    clock,
    state,          \* the version of each host's bbolt file
    up,             \* the hosts on which the program runs
    objects,        \* the snapshots in the bucket
    job,            \* Run of SelfBackupUseCase on each host
    recovery,       \* the recover command on each host
    stuck           \* the hosts that a run, now over, left reading its bbolt file

vars == <<clock, state, up, objects, job, recovery, stuck>>

Clock == 0..MaxClock
Lost == MaxVersion + 1
Version == 0..Lost

(* A key has been given the PathPrefix zero times, once or twice. *)
Key == [prefixes : 0..2, host : Hosts, stamp : Clock]
Snapshot == [key : Key, modified : Clock, version : Version]

SnapshotKey(h) == [prefixes |-> 0, host |-> h, stamp |-> clock]
NoKey == [prefixes |-> 0]

JobPc == {"idle", "upload", "list", "delete"}
Job ==
    [pc      : JobPc,
     key     : Key \cup {NoKey},
     version : Version,            \* what the read transaction sees
     cutoff  : Clock,
     todo    : SUBSET Key,         \* the old snapshots still to be deleted
     failed  : SUBSET Key,         \* history: those whose deletion failed
     fires   : 0..MaxClock + 1]    \* when the entry fires next

Recovery == [pc : {"idle", "download", "failed"}, key : Key \cup {NoKey}]

IdleJob(next) ==
    [pc |-> "idle", key |-> NoKey, version |-> Lost, cutoff |-> 0, todo |-> {},
     failed |-> {}, fires |-> next]
NoRecovery == [pc |-> "idle", key |-> NoKey]

Init ==
    /\ clock = 0
    /\ state = [h \in Hosts |-> 0]
    /\ up = Hosts
    /\ objects = {}
    /\ job = [h \in Hosts |-> IdleJob(0)]
    /\ recovery = [h \in Hosts |-> NoRecovery]
    /\ stuck = {}

TypeOK ==
    /\ clock \in Clock
    /\ state \in [Hosts -> Version]
    /\ up \subseteq Hosts
    /\ objects \subseteq Snapshot
    /\ job \in [Hosts -> Job]
    /\ recovery \in [Hosts -> Recovery]
    /\ stuck \subseteq Hosts

-----------------------------------------------------------------------------
(* The storage adapter.  Mistaken variant: as with a prefix, always. *)
FullKeyAlways(key) == [key EXCEPT !.prefixes = @ + 1]

FullKey(key) ==
    IF Prefixed THEN [key EXCEPT !.prefixes = @ + 1] ELSE key

PutObject(key, version) ==
    objects' = {o \in objects : o.key # FullKey(key)}
                   \cup {[key |-> FullKey(key), modified |-> clock, version |-> version]}

DeleteObject(key) == objects' = {o \in objects : o.key # FullKey(key)}

(* All objects whose key begins with "_backiie-meta/<host>".  Mistaken     *)
(* variant: the date is part of the prefix that is listed.                 *)
ListToday(h) == {o \in objects : <<h, o.key.host>> \in Begins /\ o.key.stamp = clock}

ListObjects(h) == {o \in objects : <<h, o.key.host>> \in Begins}

-----------------------------------------------------------------------------
(* The life of a host.  A lost server loses its file, and whatever runs.   *)
Tick ==
    /\ clock < MaxClock
    /\ clock' = clock + 1
    /\ UNCHANGED <<state, up, objects, job, recovery, stuck>>

Change(h) ==
    /\ h \in up
    /\ state[h] < MaxVersion
    /\ state' = [state EXCEPT ![h] = @ + 1]
    /\ UNCHANGED <<clock, up, objects, job, recovery, stuck>>

Lose(h) ==
    /\ h \in up
    /\ up' = up \ {h}
    /\ state' = [state EXCEPT ![h] = Lost]
    /\ job' = [job EXCEPT ![h] = IdleJob(job[h].fires)]
    /\ stuck' = stuck \ {h}
    /\ UNCHANGED <<clock, objects, recovery>>

(* "Now you can start BackiieTUI normally".  The entry waits for its next  *)
(* time, which there is within the bound.                                  *)
StartAgain(h) ==
    /\ h \notin up
    /\ clock < MaxClock
    /\ state[h] # Lost
    /\ up' = up \cup {h}
    /\ job' = [job EXCEPT ![h] = IdleJob(clock + 1)]
    /\ UNCHANGED <<clock, state, objects, recovery, stuck>>

-----------------------------------------------------------------------------
(* Run: the cron entry fires once each half day. *)
RunBegins(h) ==
    /\ h \in up
    /\ job[h].pc = "idle"
    /\ job[h].fires <= clock
    /\ job' = [job EXCEPT ![h] = [IdleJob(clock + 1) EXCEPT
                  !.pc = "upload", !.key = SnapshotKey(h), !.version = state[h]]]
    /\ UNCHANGED <<clock, state, up, objects, recovery, stuck>>

Cutoff(h) == IF clock > RetainFor[h] THEN clock - RetainFor[h] ELSE 0

RunUploads(h) ==
    /\ job[h].pc = "upload"
    /\ PutObject(job[h].key, job[h].version)
    /\ job' = [job EXCEPT ![h].pc = "list", ![h].cutoff = Cutoff(h)]
    /\ UNCHANGED <<clock, state, up, recovery, stuck>>

(* A run that cannot upload, or list, ends there.  Nothing closes the pipe *)
(* that the upload read from: unless it had come to the end of the         *)
(* snapshot, the goroutine that writes to it waits for ever, with its read *)
(* transaction.                                                            *)
RunFails(h) ==
    /\ \/ /\ "upload" \in Faults /\ job[h].pc = "upload"
          /\ stuck' \in {stuck, stuck \cup {h}}
       \/ /\ "list" \in Faults /\ job[h].pc = "list"
          /\ UNCHANGED stuck
    /\ job' = [job EXCEPT ![h] = IdleJob(job[h].fires)]
    /\ UNCHANGED <<clock, state, up, objects, recovery>>

(* Mistaken variants: the window is forgotten; a snapshot of the day of    *)
(* the cutoff counts as kept, and those after it as old.                   *)
RunListsAll(h) ==
    /\ job[h].pc = "list"
    /\ job' = [job EXCEPT ![h].pc = "delete",
                          ![h].todo = {o.key : o \in ListObjects(h)}]
    /\ UNCHANGED <<clock, state, up, objects, recovery, stuck>>

RunListsYoung(h) ==
    /\ job[h].pc = "list"
    /\ job' = [job EXCEPT ![h].pc = "delete",
                          ![h].todo = {o.key : o \in {p \in ListObjects(h) :
                                                          p.modified > job[h].cutoff}}]
    /\ UNCHANGED <<clock, state, up, objects, recovery, stuck>>

RunLists(h) ==
    /\ job[h].pc = "list"
    /\ job' = [job EXCEPT ![h].pc = "delete",
                          ![h].todo = {o.key : o \in {p \in ListObjects(h) :
                                                          p.modified < job[h].cutoff}}]
    /\ UNCHANGED <<clock, state, up, objects, recovery, stuck>>

(* The keys as listed go to DeleteObject; an error is passed over. *)
RunDeletes(h) ==
    /\ job[h].pc = "delete"
    /\ \E key \in job[h].todo :
          \/ /\ DeleteObject(key)
             /\ job' = [job EXCEPT ![h].todo = @ \ {key}]
          \/ /\ "delete" \in Faults
             /\ UNCHANGED objects
             /\ job' = [job EXCEPT ![h].todo = @ \ {key}, ![h].failed = @ \cup {key}]
    /\ UNCHANGED <<clock, state, up, recovery, stuck>>

RunEnds(h) ==
    /\ job[h].pc = "delete"
    /\ job[h].todo = {}
    /\ job' = [job EXCEPT ![h] = IdleJob(job[h].fires)]
    /\ UNCHANGED <<clock, state, up, objects, recovery, stuck>>

RunStep(h) ==
    \/ RunBegins(h)
    \/ RunUploads(h)
    \/ RunFails(h)
    \/ RunLists(h)
    \/ RunDeletes(h)
    \/ RunEnds(h)

-----------------------------------------------------------------------------
(* Mistaken variant: sorted the other way. *)
OldestOf(h, o) ==
    o \in ListObjects(h) /\ \A p \in ListObjects(h) : p.modified >= o.modified

LatestOf(h, o) ==
    o \in ListObjects(h) /\ \A p \in ListObjects(h) : p.modified <= o.modified

(* recover: the listing, of which the last modified is taken. *)
RecoverLists(h) ==
    /\ h \notin up
    /\ state[h] = Lost
    /\ recovery[h].pc # "download"
    /\ \/ /\ ListObjects(h) = {} \/ "list" \in Faults
          /\ recovery' = [recovery EXCEPT ![h] = [pc |-> "failed", key |-> NoKey]]
       \/ \E o \in ListObjects(h) :
             /\ LatestOf(h, o)
             /\ recovery' = [recovery EXCEPT ![h] = [pc |-> "download", key |-> o.key]]
    /\ UNCHANGED <<clock, state, up, objects, job, stuck>>

(* The download, into a temporary file that takes the place of the lost    *)
(* one when it is complete.                                                *)
RecoverDownloads(h) ==
    /\ recovery[h].pc = "download"
    /\ \E o \in objects :
          /\ o.key = FullKey(recovery[h].key)
          /\ state' = [state EXCEPT ![h] = o.version]
    /\ recovery' = [recovery EXCEPT ![h] = NoRecovery]
    /\ UNCHANGED <<clock, up, objects, job, stuck>>

RecoverFails(h) ==
    /\ recovery[h].pc = "download"
    /\ \/ \A o \in objects : o.key # FullKey(recovery[h].key)
       \/ "download" \in Faults
    /\ recovery' = [recovery EXCEPT ![h] = [pc |-> "failed", key |-> NoKey]]
    /\ UNCHANGED <<clock, state, up, objects, job, stuck>>

RecoverStep(h) == RecoverLists(h) \/ RecoverDownloads(h) \/ RecoverFails(h)

Next ==
    \/ Tick
    \/ \E h \in Hosts :
          \/ Change(h)
          \/ Lose(h)
          \/ StartAgain(h)
          \/ RunStep(h)
          \/ RecoverStep(h)

Spec == Init /\ [][Next]_vars

-----------------------------------------------------------------------------
Snapshots(h) == {o \in objects : o.key.host = h}

(* recover "downloads the latest one" "for the given hostname": what the   *)
(* file becomes is a snapshot of that host, and none it uploaded is newer. *)
RecoversNewestStep ==
    \A h \in Hosts :
        RecoverDownloads(h) =>
            \E o \in Snapshots(h) :
                /\ o.version = state'[h]
                /\ \A p \in Snapshots(h) : p.modified <= o.modified

RecoversNewest == [][RecoversNewestStep]_vars

(* Pruning, by whatever host, and however long it was away, never removes  *)
(* the last snapshot a host has to recover from.                           *)
SnapshotKeptStep == \A h \in Hosts : Snapshots(h) # {} => Snapshots(h)' # {}

SnapshotKept == [][SnapshotKeptStep]_vars

(* What a host prunes is its own, outside its window, and not the newest   *)
(* of what it has.                                                         *)
PrunesOwnOldStep ==
    \A h \in Hosts :
        RunDeletes(h) =>
            \A o \in objects \ objects' :
                /\ o.key.host = h
                /\ o.modified + RetainFor[h] < clock
                /\ \E p \in objects' : p.key.host = h /\ p.modified > o.modified

PrunesOwnOld == [][PrunesOwnOldStep]_vars

(* Run "prunes ones older than the global retention window": when it ends, *)
(* the snapshots of its host that are left are within the window, but for  *)
(* those whose deletion failed.                                            *)
PrunesAllStep ==
    \A h \in Hosts :
        RunEnds(h) =>
            \A o \in Snapshots(h) : o.modified >= job[h].cutoff \/ o.key \in job[h].failed

PrunesAll == [][PrunesAllStep]_vars

(* recover "will download the most recent snapshot": what it chose is in   *)
(* the bucket under the key that Download is going to ask for.             *)
RecoveryFinds ==
    \A h \in Hosts : recovery[h].pc = "download" =>
        \E o \in objects : o.key = FullKey(recovery[h].key)

(* What makes the above inductive.  A key in the bucket has the prefix     *)
(* once; what a run is about to prune is its own and old; the snapshot it  *)
(* uploaded itself stays; and a host that recovers is not running.         *)
StoredPrefixes == IF Prefixed THEN 1 ELSE 0

ObjectsKnown ==
    /\ \A o \in objects : o.key.prefixes = StoredPrefixes /\ o.modified <= clock
    /\ \A o, p \in objects : o.key = p.key => o = p

JobKnown(h) ==
    /\ h \notin up => job[h].pc = "idle"
    /\ job[h].pc # "idle" =>
          job[h].key \in Key /\ job[h].key.prefixes = 0 /\ job[h].key.host = h
    /\ job[h].pc \in {"list", "delete"} =>
          /\ job[h].cutoff = 0 \/ job[h].cutoff + RetainFor[h] <= clock
          /\ \E o \in Snapshots(h) :
                o.key = FullKey(job[h].key) /\ o.modified >= job[h].cutoff
    /\ job[h].pc = "delete" =>
          /\ \A key \in job[h].todo : key.host = h /\ key.prefixes = StoredPrefixes
          /\ \A o \in Snapshots(h) :
                o.key \in job[h].todo => o.modified < job[h].cutoff
          /\ ~Prefixed => \A o \in Snapshots(h) :
                o.modified >= job[h].cutoff \/ o.key \in job[h].todo \cup job[h].failed

RecoveryKnown(h) ==
    recovery[h].pc = "download" =>
        /\ h \notin up /\ state[h] = Lost
        /\ \E o \in Snapshots(h) :
              o.key = recovery[h].key /\ \A p \in Snapshots(h) : p.modified <= o.modified

SelfInv ==
    /\ TypeOK
    /\ ObjectsKnown
    /\ \A h \in Hosts : JobKnown(h) /\ RecoveryKnown(h)

-----------------------------------------------------------------------------
(* What the code does not do: a run that is over holds no read transaction *)
(* of the bbolt file, for whose end Close waits when the process exits.    *)
ReadersEnd == stuck = {}
=============================================================================
