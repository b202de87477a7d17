----------------------------- MODULE InstanceRun -----------------------------
(***************************************************************************)
(* runForInstance: one goroutine that backs up the databases of an         *)
(* instance one after the other, each through the pipes of its engine to   *)
(* S3, with the notifications from which the interface lists what is in    *)
(* progress.  RunBackup has the same goroutine with one step for the whole *)
(* transfer; here the transfer is taken apart.                             *)
(***************************************************************************)
EXTENDS DumpPipes, RedisAdapter

CONSTANTS
    MaxDatabases,  \* databases the instance lists, in the order of their names
    Excluded,      \* ExcludedDatabases
    SimpleModel,   \* SQL Server databases of recovery model SIMPLE
    RunFaults      \* the failures of S3 and of the listing

ASSUME RunAssumption ==
    /\ MaxDatabases \in Nat
    /\ Excluded \subseteq 1..MaxDatabases
    /\ SimpleModel \subseteq 1..MaxDatabases
    /\ RunFaults \subseteq {"list", "upload", "answer", "delete"}

VARIABLES
    type,          \* BackupTypeFull or BackupTypeLog
    run,           \* the goroutine
    status,        \* of the record of each database
    stored,        \* what its object holds
    activeJobs     \* of the interface

vars == <<pipesVars, redisVars, type, run, status, stored, activeJobs>>

Databases == 1..MaxDatabases

RunPc == {"listing", "next", "started", "dumping", "scanning", "uploading", "closing",
          "waiting", "discarding", "failing", "failed", "completing", "completed", "over"}

RunTypeOK ==
    /\ type \in {"full", "log"}
    /\ run \in [pc : RunPc, db : 0..MaxDatabases, read : 0..size, waited : 0..2,
                uploaded : BOOLEAN, closeErr : BOOLEAN]
    /\ status \in [Databases -> {"none", "running", "completed", "failed"}]
    /\ stored \in [Databases -> {"nothing", "part", "whole"}]
    /\ activeJobs \subseteq Databases

TypeOK ==
    /\ PipesTypeOK
    /\ RedisTypeOK
    /\ RunTypeOK

Init ==
    /\ PipesInit
    /\ RedisInit /\ (engine = "redis" \/ store = [k \in Keys |-> Absent])
    /\ type \in IF engine = "sqlserver" THEN {"full", "log"} ELSE {"full"}
    /\ run = [pc |-> "listing", db |-> 0, read |-> 0, waited |-> 0,
              uploaded |-> FALSE, closeErr |-> FALSE]
    /\ status = [d \in Databases |-> "none"]
    /\ stored = [d \in Databases |-> "nothing"]
    /\ activeJobs = {}

At(pc) == run.pc = pc
To(pc) == run' = [run EXCEPT !.pc = pc]

-----------------------------------------------------------------------------
(* The loop over the databases. *)
ListDatabases ==
    /\ At("listing")
    /\ To("next") \/ ("list" \in RunFaults /\ To("over"))
    /\ UNCHANGED <<pipesVars, redisVars, type, status, stored, activeJobs>>

(* An excluded database is passed over, and in a log backup one without a  *)
(* completed full.                                                         *)
PassOver ==
    /\ At("next")
    /\ run.db < MaxDatabases
    /\ run.db + 1 \in Excluded \/ type = "log"
    /\ run' = [run EXCEPT !.db = @ + 1]
    /\ UNCHANGED <<pipesVars, redisVars, type, status, stored, activeJobs>>

(* Mistaken variant: the count of the database before goes on. *)
BeginCountsOn ==
    /\ At("next")
    /\ run.db < MaxDatabases
    /\ run.db + 1 \notin Excluded
    /\ run' = [run EXCEPT !.pc = "started", !.db = @ + 1, !.uploaded = FALSE]
    /\ status' = [status EXCEPT ![run.db + 1] = "running"]
    /\ UNCHANGED <<pipesVars, redisVars, type, stored, activeJobs>>

(* backupDatabase: the record is saved ... *)
Begin ==
    /\ At("next")
    /\ run.db < MaxDatabases
    /\ run.db + 1 \notin Excluded
    /\ run' = [pc |-> "started", db |-> run.db + 1, read |-> 0, waited |-> 0,
               uploaded |-> FALSE, closeErr |-> FALSE]
    /\ status' = [status EXCEPT ![run.db + 1] = "running"]
    /\ UNCHANGED <<pipesVars, redisVars, type, stored, activeJobs>>

(* ... and then shown. *)
NotifyStarted ==
    /\ At("started")
    /\ activeJobs' = activeJobs \cup {run.db}
    /\ To("dumping")
    /\ UNCHANGED <<pipesVars, redisVars, type, status, stored>>

RunEnds ==
    /\ At("next")
    /\ run.db = MaxDatabases
    /\ To("over")
    /\ UNCHANGED <<pipesVars, redisVars, type, status, stored, activeJobs>>

-----------------------------------------------------------------------------
(* doBackup. *)

(* ErrLogBackupNotApplicable: the record fails, and the loop goes on       *)
(* without a notification.                                                 *)
NotApplicable ==
    /\ At("dumping")
    /\ type = "log" /\ run.db \in SimpleModel
    /\ status' = [status EXCEPT ![run.db] = "failed"]
    /\ To("next")
    /\ UNCHANGED <<pipesVars, redisVars, type, stored, activeJobs>>

Applicable == ~(type = "log" /\ run.db \in SimpleModel)

StartDump ==
    /\ At("dumping")
    /\ Applicable
    /\ \/ StartCommands /\ engine # "redis" /\ To("uploading") /\ UNCHANGED redisVars
       \/ StartFails /\ To("failing") /\ UNCHANGED redisVars
       \/ engine = "redis" /\ ScanBegins /\ To("scanning") /\ UNCHANGED pipesVars
    /\ UNCHANGED <<type, status, stored, activeJobs>>

(* Redis: the reader is handed over when the walk has ended. *)
Scan ==
    /\ At("scanning")
    /\ \/ ~ScanEnded /\ ScanStep /\ UNCHANGED <<run, pipesVars>>
       \/ MarshalDump /\ StartCommands /\ To("uploading")
       \/ "scan" \in RedisFaults /\ To("failing") /\ UNCHANGED <<pipesVars, redisVars>>
    /\ UNCHANGED <<type, status, stored, activeJobs>>

-----------------------------------------------------------------------------
(* The upload, which reads until the stream ends, and never knows whether  *)
(* that was all.                                                           *)
Read ==
    /\ At("uploading")
    /\ ReadChunk
    /\ run' = [run EXCEPT !.read = @ + 1]
    /\ UNCHANGED <<redisVars, type, status, stored, activeJobs>>

Uploaded ==
    stored' = [stored EXCEPT ![run.db] = IF run.read = size THEN "whole" ELSE "part"]

UploadEnds ==
    /\ At("uploading")
    /\ AtEnd
    /\ Uploaded
    /\ run' = [run EXCEPT !.pc = "closing", !.uploaded = TRUE]
    /\ UNCHANGED <<pipesVars, redisVars, type, status, activeJobs>>

(* With "answer" the error is of an upload that was carried out. *)
UploadFails ==
    /\ At("uploading")
    /\ \/ "upload" \in RunFaults /\ UNCHANGED stored
       \/ "answer" \in RunFaults /\ AtEnd /\ Uploaded
    /\ To("closing")
    /\ UNCHANGED <<pipesVars, redisVars, type, status, activeJobs>>

-----------------------------------------------------------------------------
(* reader.Close. *)
CloseReader ==
    /\ At("closing")
    /\ CloseOut
    /\ To("waiting")
    /\ UNCHANGED <<redisVars, type, status, stored, activeJobs>>

WaitForCommand ==
    /\ At("waiting")
    /\ run.waited < Len(Commands)
    /\ LET c == Commands[run.waited + 1] IN
       /\ Wait(c)
       /\ run' = [run EXCEPT !.waited = @ + 1, !.closeErr = @ \/ Reported(c)]
    /\ UNCHANGED <<redisVars, type, status, stored, activeJobs>>

(* Mistaken variant: an upload that failed does not wait for the commands. *)
WaitedIfUploaded == run.uploaded => run.waited = Len(Commands)

Waited == run.waited = Len(Commands)

Closed ==
    /\ At("waiting")
    /\ Waited
    /\ To(IF ~run.uploaded THEN "failing"
          ELSE IF run.closeErr THEN "discarding" ELSE "completing")
    /\ UNCHANGED <<pipesVars, redisVars, type, status, stored, activeJobs>>

Discard ==
    /\ At("discarding")
    /\ \/ stored' = [stored EXCEPT ![run.db] = "nothing"]
       \/ "delete" \in RunFaults /\ UNCHANGED stored
    /\ To("failing")
    /\ UNCHANGED <<pipesVars, redisVars, type, status, activeJobs>>

(* Mistaken variant: the loop ends at the first failure. *)
FailEndsRun ==
    /\ At("failing")
    /\ status' = [status EXCEPT ![run.db] = "failed"]
    /\ To("over")
    /\ UNCHANGED <<pipesVars, redisVars, type, stored, activeJobs>>

Fail ==
    /\ At("failing")
    /\ status' = [status EXCEPT ![run.db] = "failed"]
    /\ To("failed")
    /\ UNCHANGED <<pipesVars, redisVars, type, stored, activeJobs>>

Complete ==
    /\ At("completing")
    /\ status' = [status EXCEPT ![run.db] = "completed"]
    /\ To("completed")
    /\ UNCHANGED <<pipesVars, redisVars, type, stored, activeJobs>>

(* BackupFailed or BackupCompleted takes the job off the list.             *)
NotifyEnded ==
    /\ At("failed") \/ At("completed")
    /\ activeJobs' = activeJobs \ {run.db}
    /\ To("next")
    /\ UNCHANGED <<pipesVars, redisVars, type, status, stored>>

-----------------------------------------------------------------------------
RunStep ==
    \/ ListDatabases \/ PassOver \/ Begin \/ NotifyStarted \/ RunEnds
    \/ NotApplicable \/ StartDump \/ Scan
    \/ Read \/ UploadEnds \/ UploadFails
    \/ CloseReader \/ WaitForCommand \/ Closed
    \/ Discard \/ Fail \/ Complete \/ NotifyEnded

runVars == <<type, run, status, stored, activeJobs>>

Commanded(c) == CommandStep(c) /\ UNCHANGED <<redisVars, runVars>>

BreaksOff(c) == BreakOff(c) /\ UNCHANGED <<redisVars, runVars>>

(* The application of the Redis database. *)
Application ==
    /\ engine = "redis"
    /\ \E k \in Keys : Touch(k)
    /\ UNCHANGED <<pipesVars, runVars>>

(* A restore of the last object of the run. *)
RestoreRedis ==
    /\ At("over") /\ run.db > 0
    /\ engine = "redis"
    /\ status[run.db] = "completed"
    /\ ReplayBegins \/ ReplayStep
    /\ UNCHANGED <<pipesVars, runVars>>

Next ==
    \/ RunStep
    \/ \E c \in Command : Commanded(c) \/ BreaksOff(c)
    \/ Application
    \/ RestoreRedis

Fairness ==
    /\ WF_vars(RunStep)
    /\ \A c \in Command : WF_vars(Commanded(c))

Spec == Init /\ [][Next]_vars /\ Fairness

-----------------------------------------------------------------------------
(* Properties.                                                             *)

(* Each backup of the run keeps the promise of BackupOutcome: whatever     *)
(* command breaks off, and wherever, "Verify the dump process exited       *)
(* successfully" finds it out before the record says Completed.            *)
Outcome == INSTANCE BackupOutcome
ImplementsOutcome == Outcome!Spec

(* A backup that has ended, well or not, has left no command running and   *)
(* no pipe open, and the interface lists a database from BackupStarted,    *)
(* just after its record says Running, to BackupCompleted or BackupFailed, *)
(* just after it says something else.  A log backup that does not apply    *)
(* has neither, and stays on the list.                                     *)
NoCommandLeft ==
    At("next") \/ At("over") =>
        held = {} /\ \A c \in Command : proc[c] = "none"

ShownWhileRunning ==
    LET running == {d \in Databases : status[d] = "running"} IN
    /\ running \ activeJobs \subseteq (IF At("started") THEN {run.db} ELSE {})
    /\ type = "full" =>
          activeJobs \ running \subseteq
              (IF At("failed") \/ At("completed") THEN {run.db} ELSE {})

NothingLeft == NoCommandLeft /\ ShownWhileRunning

(* A database whose backup fails does not keep the others from theirs:     *)
(* each that is listed and not excluded is backed up or recorded as        *)
(* Failed, as long as gzip reads what mysqldump writes.                    *)
EachHasItsTurn ==
    ([](proc["gzip"] # "died") /\ [](run.db = 0 => ~At("over"))) =>
        \A d \in Databases \ Excluded :
            type = "full" => <>(status[d] \in {"completed", "failed"})

(* What makes the above inductive.  Commands are at work only during a     *)
(* transfer, and are waited for one by one; the chunks add up; who exited  *)
(* well has passed on all it had.                                          *)
Transfer == At("uploading") \/ At("closing") \/ At("waiting")

Position(c) == IF c = "dump" THEN 1 ELSE 2

AtWork(c) == Transfer /\ run.waited < Position(c) /\ Position(c) <= Len(Commands)

CommandsKnown ==
    /\ \A c \in Command : proc[c] # "none" <=> AtWork(c)
    /\ run.waited <= Len(Commands)
    /\ At("uploading") \/ At("closing") => run.waited = 0
    /\ "out" \in held <=> engine # "redis" /\ (At("uploading") \/ At("closing"))
    /\ "raw" \in held <=> engine = "mysql" /\ Transfer /\ run.waited = 0

ChunksCounted ==
    /\ At("uploading") => made = run.read + pipe["raw"] + pipe["out"]
    /\ engine # "mysql" => pipe["raw"] = 0
    /\ proc["dump"] = "exited" => made = size
    /\ proc["gzip"] = "exited" => pipe["raw"] = 0 /\ proc["dump"] # "running"
    /\ engine = "redis" => size = 0

(* What the run knows of the database it is at, and has made of the        *)
(* others.                                                                 *)
Uploading == At("uploading") \/ (run.uploaded /\ Transfer)

WholeOrKnown ==
    /\ Uploading /\ engine = "sqlserver" => proc["dump"] # "died"
    /\ run.uploaded /\ Transfer =>
          /\ \A c \in Command : OutOf(c) = "out" => proc[c] # "running"
          /\ \/ stored[run.db] = "whole"
             \/ run.closeErr
             \/ engine # "sqlserver" /\ \E c \in Command : proc[c] = "died"
    /\ At("uploading") => ~run.uploaded
    /\ At("completing") => stored[run.db] = "whole"
    /\ At("failing") \/ (Transfer /\ ~run.uploaded) => stored[run.db] = "nothing"

Busy == run.pc \notin {"listing", "next", "failed", "completed", "over"}

EachAtItsStage ==
    /\ Busy => run.db \in Databases
    /\ \A d \in Databases :
          /\ status[d] = "running" <=> Busy /\ d = run.db
          /\ d > run.db => status[d] = "none"
          /\ status[d] \in {"none", "failed"} => stored[d] = "nothing"
    /\ At("started") \/ At("dumping") \/ At("scanning") =>
          /\ stored[run.db] = "nothing"
          /\ run.read = 0 /\ run.waited = 0 /\ ~run.uploaded /\ ~run.closeErr

(* What the dump of Redis holds, as far as the walk has come; and what is  *)
(* back, as far as the restore has come.                                   *)
Seen == UNION {KeyPages[i] : i \in 1..scan.page}

Carrying == Transfer \/ At("completing")

Written == Carrying \/ (run.db > 0 /\ status[run.db] = "completed")

KeysKnown ==
    /\ At("scanning") =>
          /\ scan.left \subseteq Seen
          /\ \A k \in Keys \ Seen : dumped[k] = NoValue
          /\ \A k \in quiet : IF k \in scan.left THEN store[k] # Absent
                              ELSE k \in Seen => dumped[k] = store[k].value
    /\ engine = "redis" /\ Carrying => \A k \in quiet : dumped[k] = store[k].value
    /\ engine = "redis" /\ Written => object = [k \in Keys |-> Marshalled(dumped[k])]
    /\ replay.state # "none" => At("over") /\ engine = "redis" /\ Written
    /\ replay.state # "running" => replay.left = {}
    /\ \A k \in replay.left : object[k] # NoValue
    /\ replay.state \in {"running", "ok"} =>
          \A k \in quiet \ replay.left :
              dumped[k] # NoValue => store[k] # Absent /\ store[k].value = dumped[k]

RunInv ==
    /\ TypeOK
    /\ CommandsKnown
    /\ ChunksCounted
    /\ WholeOrKnown
    /\ KeysKnown
    /\ EachAtItsStage
    /\ ShownWhileRunning

(* Of the keys that nobody wrote since it began, a backup of Redis holds   *)
(* each that is there and no other, and with its value those whose payload *)
(* JSON can carry.  Of the others it has the names only.                   *)
QuietKeysKept ==
    engine = "redis" /\ Carrying =>
        \A k \in quiet :
            /\ object[k] = NoValue <=> store[k] = Absent
            /\ store[k].value \in Utf8 => object[k] = store[k].value

(* A restore of Redis that reports success has brought every key the walk  *)
(* met back to the value it had then, but for those the application wrote  *)
(* meanwhile: of a dump that JSON spoiled no restore reports success.      *)
RestoredAsDumped ==
    replay.state = "ok" =>
        \A k \in quiet :
            dumped[k] # NoValue => store[k] # Absent /\ store[k].value = dumped[k]
-----------------------------------------------------------------------------
(* What the comments say of a run, and the code does not do.               *)

(* Every BackupStarted has its end: no job that is over stays listed.      *)
NoJobLeft == At("over") => activeJobs = {}

(* Redis: "dumps all keys from the current database as JSON", "key -> DUMP *)
(* value": the object has what DUMP returned.                              *)
ValuesKept ==
    engine = "redis" /\ Carrying => \A k \in quiet : object[k] = store[k].value

(* A restore of Redis, "replaying DUMP/RESTORE for every key", takes the   *)
(* time to live off no key.                                                *)
TimeToLiveStep == \A k \in Keys : store[k].ttl /\ writes' = writes => store'[k].ttl

TimeToLiveKept == [][TimeToLiveStep]_vars
=============================================================================
