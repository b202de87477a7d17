----------------------------- MODULE Retention -----------------------------
(***************************************************************************)
(* BackupQueryUseCase.ApplyRetention, called by the 1 AM cron entry and by *)
(* a goroutine at startup: the date-based expiry of the other engines,     *)
(* then ApplySQLServerRetention with its golden rule.                      *)
(*                                                                         *)
(* A record that completed never changes its file name again, so the key   *)
(* a sweep read with its snapshot of the completed fulls is the record's   *)
(* current one, and the sweep's local state holds record numbers only.     *)
(* The policy lookup of retainDaysFor returns any of RetainDays: policies  *)
(* are edited from the TUI at any time.                                    *)
(***************************************************************************)
EXTENDS BackupQuery

VARIABLE sweep     \* the local state of each ApplyRetention

SweepPc == {"idle", "expired", "expiring", "groups", "candidate", "verify", "deleting"}

SweepState ==
    [pc        : SweepPc,
     expired   : SUBSET RecId,          \* FindExpired, not yet deleted
     snap      : SUBSET RecId,          \* completed fulls of the groups to come
     fulls     : SUBSET RecId,          \* the group being swept
     deleted   : SUBSET RecId,          \* deleted[id] of the group
     cutoff    : Int,
     candidate : RecId \cup {NoId},
     unchecked : SUBSET RecId,          \* others whose object is still to be looked up
     verified  : SUBSET RecId]          \* others whose object was found

IdleSweep ==
    [pc |-> "idle", expired |-> {}, snap |-> {}, fulls |-> {}, deleted |-> {},
     cutoff |-> 0, candidate |-> NoId, unchecked |-> {}, verified |-> {}]

SweepInit == sweep = [s \in Sweeps |-> IdleSweep]

SweepTypeOK == sweep \in [Sweeps -> SweepState]

-----------------------------------------------------------------------------
(* Mistaken variant: the SQL Server records expire by date like the others. *)
SweepBeginsWithAll(s) ==
    /\ sweep[s].pc = "idle"
    /\ sweep' = [sweep EXCEPT ![s].pc = "expired", ![s].expired = FindExpired]
    /\ UNCHANGED <<records, bucket, now, del>>

(* ApplyRetention: FindExpired, without the SQL Server records. *)
SweepBegins(s) ==
    /\ sweep[s].pc = "idle"
    /\ sweep' = [sweep EXCEPT
                   ![s].pc = "expired",
                   ![s].expired = {i \in FindExpired : records[i].db \notin SqlServer}]
    /\ UNCHANGED <<records, bucket, now, del>>

SweepExpired(s) ==
    /\ sweep[s].pc = "expired"
    /\ \E i \in sweep[s].expired :
          /\ sweep' = [sweep EXCEPT ![s].pc = "expiring", ![s].expired = @ \ {i}]
          /\ del' = [del EXCEPT ![s] = CallDelete(i)]
    /\ UNCHANGED <<records, bucket, now>>

(* An error of DeleteBackup only leaves the count alone.                   *)
SweepExpiredReturns(s) ==
    /\ sweep[s].pc = "expiring"
    /\ del[s].pc \in {"ok", "err"}
    /\ sweep' = [sweep EXCEPT ![s].pc = "expired"]
    /\ del' = [del EXCEPT ![s] = IdleDel]
    /\ UNCHANGED <<records, bucket, now>>

(* ApplySQLServerRetention: FindAll, keeping the completed SQL Server fulls. *)
SweepSnapshot(s) ==
    /\ sweep[s].pc = "expired"
    /\ sweep[s].expired = {}
    /\ sweep' = [sweep EXCEPT ![s].pc = "groups",
                              ![s].snap = UNION {CompletedFulls(db) : db \in SqlServer}]
    /\ UNCHANGED <<records, bucket, now, del>>

(* The S3 configuration cannot be read or used: the sweep returns.         *)
SweepNoStorage(s) ==
    /\ "config" \in Faults
    /\ sweep[s].pc = "expired"
    /\ sweep[s].expired = {}
    /\ sweep' = [sweep EXCEPT ![s] = IdleSweep]
    /\ UNCHANGED <<records, bucket, now, del>>

(* The next group, in the map's order, with the cutoff as of now.          *)
SweepGroup(s) ==
    /\ sweep[s].pc = "groups"
    /\ \E i \in sweep[s].snap, days \in RetainDays :
          LET group == {j \in sweep[s].snap : records[j].db = records[i].db} IN
          sweep' = [sweep EXCEPT ![s].pc = "candidate",
                                 ![s].snap = @ \ group,
                                 ![s].fulls = group,
                                 ![s].deleted = {},
                                 ![s].cutoff = now - days]
    /\ UNCHANGED <<records, bucket, now, del>>

SweepReturns(s) ==
    /\ sweep[s].pc = "groups"
    /\ sweep[s].snap = {}
    /\ sweep' = [sweep EXCEPT ![s] = IdleSweep]
    /\ UNCHANGED <<records, bucket, now, del>>

(* The loop goes oldest first and stops at its first full it may not       *)
(* delete, so the fulls still to come are the group's without the deleted. *)
Remaining(s) == sweep[s].fulls \ sweep[s].deleted

(* Mistaken variant: one tick too old. *)
WellBeforeCutoff(s, i) == records[i].startedAt + 1 < sweep[s].cutoff

BeforeCutoff(s, i) == records[i].startedAt < sweep[s].cutoff

NextGroup(s) ==
    sweep' = [sweep EXCEPT ![s] =
                 [IdleSweep EXCEPT !.pc = "groups", !.snap = sweep[s].snap]]

(* Mistaken variants: the newest first; the candidate counted with the rest. *)
SweepNewestCandidate(s) ==
    /\ sweep[s].pc = "candidate"
    /\ \E c \in Remaining(s) :
          /\ Newest(c, Remaining(s))
          /\ BeforeCutoff(s, c)
          /\ sweep' = [sweep EXCEPT ![s].pc = "verify",
                                    ![s].candidate = c,
                                    ![s].unchecked = Remaining(s) \ {c},
                                    ![s].verified = {}]
    /\ UNCHANGED <<records, bucket, now, del>>

SweepCandidateCounted(s) ==
    /\ sweep[s].pc = "candidate"
    /\ \E c \in Remaining(s) :
          /\ Oldest(c, Remaining(s))
          /\ BeforeCutoff(s, c)
          /\ sweep' = [sweep EXCEPT ![s].pc = "verify",
                                    ![s].candidate = c,
                                    ![s].unchecked = Remaining(s),
                                    ![s].verified = {}]
    /\ UNCHANGED <<records, bucket, now, del>>

SweepCandidate(s) ==
    /\ sweep[s].pc = "candidate"
    /\ \E c \in Remaining(s) :
          /\ Oldest(c, Remaining(s))
          /\ BeforeCutoff(s, c)
          /\ sweep' = [sweep EXCEPT ![s].pc = "verify",
                                    ![s].candidate = c,
                                    ![s].unchecked = Remaining(s) \ {c},
                                    ![s].verified = {}]
    /\ UNCHANGED <<records, bucket, now, del>>

SweepGroupDone(s) ==
    /\ sweep[s].pc = "candidate"
    /\ \A c \in Remaining(s) : Oldest(c, Remaining(s)) => ~BeforeCutoff(s, c)
    /\ NextGroup(s)
    /\ UNCHANGED <<records, bucket, now, del>>

(* existsInS3 of the next of the other fulls: one ListObjects request. *)
SweepVerify(s) ==
    /\ sweep[s].pc = "verify"
    /\ \E i \in sweep[s].unchecked :
          /\ Oldest(i, sweep[s].unchecked)
          /\ sweep' = [sweep EXCEPT
                         ![s].unchecked = @ \ {i},
                         ![s].verified = IF ObjectExists(records[i].fileName)
                                         THEN @ \cup {i} ELSE @]
    /\ UNCHANGED <<records, bucket, now, del>>

(* ListObjects failed: the full counts as not verified. *)
SweepVerifyFail(s) ==
    /\ "list" \in Faults
    /\ sweep[s].pc = "verify"
    /\ \E i \in sweep[s].unchecked :
          /\ Oldest(i, sweep[s].unchecked)
          /\ sweep' = [sweep EXCEPT ![s].unchecked = @ \ {i}]
    /\ UNCHANGED <<records, bucket, now, del>>

(* verified >= MinVerifiedFullBackups, which is 2. *)
AtLeastMinVerified(S) == \E i, j \in S : i # j

(* Mistaken variant: one verified full is enough. *)
SweepDeletesAtOne(s) ==
    /\ sweep[s].pc = "verify"
    /\ sweep[s].unchecked = {}
    /\ sweep[s].verified # {}
    /\ sweep' = [sweep EXCEPT ![s].pc = "deleting"]
    /\ del' = [del EXCEPT ![s] = CallDelete(sweep[s].candidate)]
    /\ UNCHANGED <<records, bucket, now>>

SweepDeletes(s) ==
    /\ sweep[s].pc = "verify"
    /\ sweep[s].unchecked = {}
    /\ AtLeastMinVerified(sweep[s].verified)
    /\ sweep' = [sweep EXCEPT ![s].pc = "deleting"]
    /\ del' = [del EXCEPT ![s] = CallDelete(sweep[s].candidate)]
    /\ UNCHANGED <<records, bucket, now>>

SweepGoldenRule(s) ==
    /\ sweep[s].pc = "verify"
    /\ sweep[s].unchecked = {}
    /\ ~AtLeastMinVerified(sweep[s].verified)
    /\ NextGroup(s)
    /\ UNCHANGED <<records, bucket, now, del>>

SweepDeleted(s) ==
    /\ sweep[s].pc = "deleting"
    /\ del[s].pc = "ok"
    /\ sweep' = [sweep EXCEPT ![s].pc = "candidate",
                              ![s].deleted = @ \cup {sweep[s].candidate},
                              ![s].candidate = NoId,
                              ![s].verified = {}]
    /\ del' = [del EXCEPT ![s] = IdleDel]
    /\ UNCHANGED <<records, bucket, now>>

SweepDeleteFailed(s) ==
    /\ sweep[s].pc = "deleting"
    /\ del[s].pc = "err"
    /\ NextGroup(s)
    /\ del' = [del EXCEPT ![s] = IdleDel]
    /\ UNCHANGED <<records, bucket, now>>

SweepStep(s) ==
    \/ SweepExpired(s)
    \/ SweepExpiredReturns(s)
    \/ SweepSnapshot(s)
    \/ SweepNoStorage(s)
    \/ SweepGroup(s)
    \/ SweepReturns(s)
    \/ SweepCandidate(s)
    \/ SweepGroupDone(s)
    \/ SweepVerify(s)
    \/ SweepVerifyFail(s)
    \/ SweepDeletes(s)
    \/ SweepGoldenRule(s)
    \/ SweepDeleted(s)
    \/ SweepDeleteFailed(s)
=============================================================================
