------------------------------ MODULE DumpPipes ------------------------------
(***************************************************************************)
(* What a dump is streamed through: the commands an adapter starts, the    *)
(* pipes of the operating system between them, and the reader it hands to  *)
(* backupDatabase, whose Close waits for the commands.                     *)
(*                                                                         *)
(*   PostgreSQL      pg_dump            | reader                           *)
(*   SQL Server      docker exec cat    | reader                           *)
(*   MySQL, MariaDB  mysqldump   | gzip | reader                           *)
(*   Redis           no command: the reader is a buffer in memory          *)
(*                                                                         *)
(* A dump counts in chunks.  A pipe holds PipeCap of them: its writer      *)
(* waits when it is full, its reader when it is empty, and who writes into *)
(* a pipe that nobody can read from any more is killed.                    *)
(***************************************************************************)
EXTENDS Naturals, Sequences

CONSTANTS
    Engines,       \* the engines an instance may have
    MaxChunks,     \* bound: chunks in a dump
    PipeCap,       \* chunks a pipe holds
    PipeFaults     \* the failures the environment may inject here

ASSUME PipesAssumption ==
    /\ Engines \subseteq {"sqlserver", "postgres", "mysql", "redis"}
    /\ MaxChunks \in Nat
    /\ PipeCap \in Nat \ {0}
    /\ PipeFaults \subseteq {"start", "gzip", "exit", "extract"}

VARIABLES
    engine,        \* of the instance
    size,          \* chunks the dump that is being taken has
    made,          \* chunks its first command has written
    proc,          \* the state of each command
    pipe,          \* the chunks in each pipe
    held           \* the pipes whose read end this process has open

pipesVars == <<engine, size, made, proc, pipe, held>>

Command == {"dump", "gzip"}
Pipe == {"raw", "out"}

(* pipeReader.cmds, in the order in which Close waits for them.            *)
Commands ==
    CASE engine = "mysql" -> <<"dump", "gzip">>
      [] engine = "redis" -> <<>>
      [] OTHER -> <<"dump">>

OutOf(c) == IF engine = "mysql" /\ c = "dump" THEN "raw" ELSE "out"

PipesTypeOK ==
    /\ engine \in Engines
    /\ size \in 0..MaxChunks
    /\ made \in 0..size
    /\ proc \in [Command -> {"none", "running", "exited", "died"}]
    /\ pipe \in [Pipe -> 0..PipeCap]
    /\ held \subseteq Pipe

PipesInit ==
    /\ engine \in Engines
    /\ size = 0
    /\ made = 0
    /\ proc = [c \in Command |-> "none"]
    /\ pipe = [p \in Pipe |-> 0]
    /\ held = {}

-----------------------------------------------------------------------------
(* The commands.                                                           *)

(* gzip reads "raw", and so does, as the operating system sees it, this    *)
(* process: gzip.Stdin is the end that StdoutPipe left open here.          *)
Readable(p) == p \in held \/ (p = "raw" /\ proc["gzip"] = "running")

HasInput(c) == IF c = "dump" THEN made < size ELSE pipe["raw"] > 0

Write(c) ==
    /\ proc[c] = "running"
    /\ HasInput(c)
    /\ Readable(OutOf(c))
    /\ pipe[OutOf(c)] < PipeCap
    /\ IF c = "dump"
       THEN made' = made + 1 /\ pipe' = [pipe EXCEPT ![OutOf(c)] = @ + 1]
       ELSE UNCHANGED made /\ pipe' = [pipe EXCEPT !["out"] = @ + 1, !["raw"] = @ - 1]
    /\ UNCHANGED <<engine, size, proc, held>>

BrokenPipe(c) ==
    /\ proc[c] = "running"
    /\ HasInput(c)
    /\ ~Readable(OutOf(c))
    /\ proc' = [proc EXCEPT ![c] = "died"]
    /\ UNCHANGED <<engine, size, made, pipe, held>>

(* gzip reads to the end of its input, which is where mysqldump ended,     *)
(* well or not.                                                            *)
Exit(c) ==
    /\ proc[c] = "running"
    /\ ~HasInput(c)
    /\ c = "gzip" => proc["dump"] # "running"
    /\ proc' = [proc EXCEPT ![c] = "exited"]
    /\ UNCHANGED <<engine, size, made, pipe, held>>

(* A command breaks off: the connection is lost, it is killed.             *)
BreakOff(c) ==
    /\ (IF engine = "sqlserver" THEN "extract" ELSE "exit") \in PipeFaults
    /\ proc[c] = "running"
    /\ proc' = [proc EXCEPT ![c] = "died"]
    /\ UNCHANGED <<engine, size, made, pipe, held>>

CommandStep(c) == Write(c) \/ BrokenPipe(c) \/ Exit(c)

-----------------------------------------------------------------------------
(* What the adapters and their readers do with them.                       *)

(* Start; the dump is of the moment it begins. *)
StartCommands ==
    /\ size' \in IF engine = "redis" THEN {0} ELSE 0..MaxChunks
    /\ made' = 0
    /\ proc' = [c \in Command |->
                   IF \E i \in DOMAIN Commands : Commands[i] = c THEN "running" ELSE "none"]
    /\ pipe' = [p \in Pipe |-> 0]
    /\ held' = CASE engine = "mysql" -> {"raw", "out"}
                 [] engine = "redis" -> {}
                 [] OTHER -> {"out"}
    /\ UNCHANGED engine

(* The first command does not start; or gzip does not, and mysqldump is    *)
(* killed and neither waited for nor its pipe closed.                      *)
StartFails ==
    \/ /\ "start" \in PipeFaults
       /\ engine # "redis"
       /\ UNCHANGED pipesVars
    \/ /\ "gzip" \in PipeFaults
       /\ engine = "mysql"
       /\ proc' = [proc EXCEPT !["dump"] = "died"]
       /\ held' = {"raw"}
       /\ UNCHANGED <<engine, size, made, pipe>>

ReadChunk ==
    /\ pipe["out"] > 0
    /\ pipe' = [pipe EXCEPT !["out"] = @ - 1]
    /\ UNCHANGED <<engine, size, made, proc, held>>

(* The end of the stream: all was read, and who wrote it is gone.          *)
AtEnd ==
    /\ pipe["out"] = 0
    /\ \A c \in Command : OutOf(c) = "out" => proc[c] # "running"

(* The read end of the last pipe is closed; what it held is lost.          *)
CloseOut ==
    /\ held' = held \ {"out"}
    /\ pipe' = [pipe EXCEPT !["out"] = 0]
    /\ UNCHANGED <<engine, size, made, proc>>

(* cmd.Wait closes the ends that were left open for the command when it    *)
(* has ended.                                                              *)
Wait(c) ==
    /\ proc[c] \in {"exited", "died"}
    /\ proc' = [proc EXCEPT ![c] = "none"]
    /\ held' = held \ {OutOf(c)}
    /\ UNCHANGED <<engine, size, made, pipe>>

(* Mistaken variant: the exit status of gzip is not looked at. *)
ReportedOfDump(c) == c = "dump" /\ proc[c] = "died" /\ engine # "sqlserver"

(* The error Wait's caller makes of it: dockerReader drops it.             *)
Reported(c) == proc[c] = "died" /\ engine # "sqlserver"
=============================================================================
