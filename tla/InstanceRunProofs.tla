------------------------- MODULE InstanceRunProofs -------------------------
(***************************************************************************)
(* Proofs about InstanceRun, for any number of databases, chunks, keys and *)
(* values, any capacity of the pipes and any choice of engine.             *)
(***************************************************************************)
EXTENDS InstanceRun, TLAPS

(* The failures from which the code does not recover are left out.         *)
Reliable ==
    /\ "gzip" \notin PipeFaults /\ "extract" \notin PipeFaults
    /\ "answer" \notin RunFaults /\ "delete" \notin RunFaults
    /\ "key" \notin RedisFaults

(* pipeReader.cmds: which commands an engine has, in which order.          *)
LEMMA EngineFacts ==
    ASSUME engine \in Engines
    PROVE  /\ Len(Commands) \in 0..2
           /\ DOMAIN Commands = 1..Len(Commands)
           /\ \A i \in 1..Len(Commands) : Commands[i] \in Command /\ Position(Commands[i]) = i
           /\ \A c \in Command : (\E i \in DOMAIN Commands : Commands[i] = c)
                                     <=> Position(c) <= Len(Commands)
           /\ engine = "mysql" => Len(Commands) = 2
           /\ engine = "redis" => Len(Commands) = 0
           /\ engine \notin {"mysql", "redis"} => Len(Commands) = 1
           /\ engine' = engine => Commands' = Commands
<1>1. engine \in {"sqlserver", "postgres", "mysql", "redis"}
  BY PipesAssumption
<1>2. engine' = engine => Commands' = Commands
  BY DEF Commands
<1>3. CASE engine = "mysql"
  <2>1. Commands = <<"dump", "gzip">>
    BY <1>3 DEF Commands
  <2>2. Len(Commands) = 2 /\ DOMAIN Commands = 1..2
    BY <2>1
  <2>3. Commands[1] = "dump" /\ Commands[2] = "gzip"
    BY <2>1
  <2>4. QED
    BY <1>2, <1>3, <2>2, <2>3 DEF Command, Position
<1>4. CASE engine = "redis"
  <2>1. Commands = <<>>
    BY <1>4 DEF Commands
  <2>2. Len(Commands) = 0 /\ DOMAIN Commands = 1..0
    BY <2>1
  <2>3. QED
    BY <1>2, <1>4, <2>2 DEF Command, Position
<1>5. CASE engine \in {"sqlserver", "postgres"}
  <2>1. Commands = <<"dump">>
    BY <1>5 DEF Commands
  <2>2. Len(Commands) = 1 /\ DOMAIN Commands = 1..1
    BY <2>1
  <2>3. Commands[1] = "dump"
    BY <2>1
  <2>4. QED
    BY <1>2, <1>5, <2>2, <2>3 DEF Command, Position
<1>6. QED
  BY <1>1, <1>3, <1>4, <1>5

(* The databases the instance lists, in the order of the loop.             *)
LEMMA DatabasesNat == MaxDatabases \in Nat /\ Databases = 1..MaxDatabases
BY RunAssumption DEF Databases

(* A step outside of a transfer leaves the commands alone. *)
LEMMA CommandsLeftAlone ==
    ASSUME PipesTypeOK, CommandsKnown, ChunksCounted, UNCHANGED pipesVars,
           ~Transfer, ~Transfer', run'.waited \in {0, run.waited}
    PROVE  PipesTypeOK' /\ CommandsKnown' /\ ChunksCounted'
<1>1. PipesTypeOK'
  BY DEF PipesTypeOK, pipesVars
<1>2. CommandsKnown'
  BY EngineFacts DEF PipesTypeOK, pipesVars, CommandsKnown, AtWork, Transfer, At
<1>3. ChunksCounted'
  BY DEF pipesVars, ChunksCounted, Transfer
<1>4. QED
  BY <1>1, <1>2, <1>3

(* A step of the run that is none of Redis leaves its keys alone.          *)
LEMMA KeysLeftAlone ==
    ASSUME RedisTypeOK, KeysKnown, UNCHANGED <<redisVars, engine>>,
           At("over") => UNCHANGED <<run, status>>, At("scanning")' => At("scanning"),
           Carrying' => Carrying \/ engine # "redis", Written' => Written \/ engine # "redis"
    PROVE  RedisTypeOK' /\ KeysKnown'
<1>1. RedisTypeOK'
  BY DEF RedisTypeOK, redisVars
<1>2. KeysKnown'
  BY DEF KeysKnown, Seen, redisVars, At, Written, Carrying, Transfer
<1>3. QED
  BY <1>1, <1>2

-----------------------------------------------------------------------------
(* The loop over the databases, and the ends of a backup.                  *)
LEMMA ListDatabasesKeeps ==
    ASSUME RunInv, Reliable, ListDatabases
    PROVE  RunInv'
<1> USE DEF RunInv, TypeOK
<1>1. RedisTypeOK' /\ KeysKnown'
  BY KeysLeftAlone DEF Written, EachAtItsStage, RunTypeOK, At, Carrying, Transfer,
     pipesVars, ListDatabases, To
<1>2. PipesTypeOK' /\ CommandsKnown' /\ ChunksCounted'
  BY CommandsLeftAlone DEF RunTypeOK, RunPc, ListDatabases, To, Transfer, At
<1>3. RunTypeOK'
  BY DEF RunTypeOK, RunPc, At, ListDatabases, To, PipesTypeOK, pipesVars
<1>4. WholeOrKnown'
  BY DEF RunTypeOK, WholeOrKnown, Uploading, Transfer, At, ListDatabases, To
<1>5. EachAtItsStage'
  BY DEF RunTypeOK, EachAtItsStage, Busy, At, ListDatabases, To, Reliable
<1>6. ShownWhileRunning'
  BY DEF RunPc, ShownWhileRunning, EachAtItsStage, Busy, At, ListDatabases, To
<1>7. QED
  BY <1>1, <1>2, <1>3, <1>4, <1>5, <1>6

LEMMA PassOverKeeps ==
    ASSUME RunInv, Reliable, PassOver
    PROVE  RunInv'
<1> USE DEF RunInv, TypeOK
<1>1. RedisTypeOK' /\ KeysKnown'
  <2>1. run.db \in Nat /\ run.db + 1 \in Databases /\ run.db + 1 > run.db
    BY DatabasesNat DEF RunTypeOK, PassOver
  <2>2. ~Written' /\ ~Carrying' /\ ~At("over") /\ ~At("scanning")'
    BY <2>1 DEF Written, EachAtItsStage, RunTypeOK, At, Carrying, Transfer, PassOver
  <2>3. QED
    BY <2>2, KeysLeftAlone DEF pipesVars, PassOver
<1>2. PipesTypeOK' /\ CommandsKnown' /\ ChunksCounted'
  BY CommandsLeftAlone DEF RunTypeOK, RunPc, PassOver, Transfer, At
<1>3. RunTypeOK'
  <2>1. run.db + 1 \in 0..MaxDatabases
    BY DatabasesNat DEF RunTypeOK, PassOver
  <2>2. run' \in [pc : RunPc, db : 0..MaxDatabases, read : 0..size, waited : 0..2,
             uploaded : BOOLEAN, closeErr : BOOLEAN]
    BY <2>1 DEF RunTypeOK, RunPc, PassOver
  <2>3. QED
    BY <2>2 DEF RunTypeOK, PassOver, pipesVars
<1>4. WholeOrKnown'
  BY DEF WholeOrKnown, Uploading, Transfer, At, Busy, PassOver, Reliable
<1>5. EachAtItsStage'
  BY DatabasesNat DEF RunTypeOK, EachAtItsStage, Busy, At, PassOver, Reliable
<1>6. ShownWhileRunning'
  BY DEF RunTypeOK, RunPc, ShownWhileRunning, EachAtItsStage, Busy, At, PassOver
<1>7. QED
  BY <1>1, <1>2, <1>3, <1>4, <1>5, <1>6

LEMMA BeginKeeps ==
    ASSUME RunInv, Reliable, Begin
    PROVE  RunInv'
<1> USE DEF RunInv, TypeOK
<1>1. RedisTypeOK' /\ KeysKnown'
  <2>1. run.db \in Nat /\ run.db + 1 \in Databases /\ run.db + 1 > run.db
    BY DatabasesNat DEF RunTypeOK, Begin
  <2>2. ~Written' /\ ~Carrying' /\ ~At("over") /\ ~At("scanning")'
    BY <2>1 DEF Written, EachAtItsStage, RunTypeOK, At, Carrying, Transfer, Begin
  <2>3. QED
    BY <2>2, KeysLeftAlone DEF pipesVars, Begin
<1>2. PipesTypeOK' /\ CommandsKnown' /\ ChunksCounted'
  BY CommandsLeftAlone DEF RunTypeOK, RunPc, Begin, Transfer, At
<1>3. RunTypeOK'
  <2>1. run.db + 1 \in 1..MaxDatabases /\ 0 \in 0..size
    BY DatabasesNat DEF RunTypeOK, Begin, PipesTypeOK
  <2>2. run' \in [pc : RunPc, db : 0..MaxDatabases, read : 0..size, waited : 0..2,
             uploaded : BOOLEAN, closeErr : BOOLEAN]
    BY <2>1 DEF RunTypeOK, RunPc, Begin
  <2>3. QED
    BY <2>1, <2>2, DatabasesNat DEF RunTypeOK, Begin, pipesVars
<1>4. WholeOrKnown'
  BY DEF WholeOrKnown, Uploading, Transfer, At, Busy, Begin, Reliable
<1>5. EachAtItsStage'
  BY DatabasesNat DEF RunTypeOK, EachAtItsStage, Busy, At, Begin, Reliable
<1>6. ShownWhileRunning'
  BY DatabasesNat DEF RunTypeOK, ShownWhileRunning, EachAtItsStage, Busy, At, Begin
<1>7. QED
  BY <1>1, <1>2, <1>3, <1>4, <1>5, <1>6

LEMMA NotifyStartedKeeps ==
    ASSUME RunInv, Reliable, NotifyStarted
    PROVE  RunInv'
<1> USE DEF RunInv, TypeOK
<1>1. RedisTypeOK' /\ KeysKnown'
  BY KeysLeftAlone DEF Written, EachAtItsStage, RunTypeOK, At, Carrying, Transfer,
     pipesVars, To, NotifyStarted
<1>2. PipesTypeOK' /\ CommandsKnown' /\ ChunksCounted'
  BY CommandsLeftAlone DEF RunTypeOK, RunPc, NotifyStarted, To, Transfer, At
<1>3. RunTypeOK'
  BY DEF RunTypeOK, RunPc, At, To, NotifyStarted, PipesTypeOK, pipesVars,
     EachAtItsStage,
     Busy
<1>4. WholeOrKnown'
  BY DEF WholeOrKnown, Uploading, Transfer, At, To, RunTypeOK, NotifyStarted
<1>5. EachAtItsStage'
  <2>1. /\ run.pc = "started" /\ run'.pc = "dumping" /\ Busy /\ Busy'
        /\ run'.db = run.db /\ run'.read = run.read /\ run'.waited = run.waited
        /\ run'.uploaded = run.uploaded /\ run'.closeErr = run.closeErr
        /\ UNCHANGED <<status, stored>>
    BY DEF RunTypeOK, At, Busy, To, NotifyStarted
  <2>2. QED
    BY <2>1 DEF EachAtItsStage, At
<1>6. ShownWhileRunning'
  BY DatabasesNat DEF RunTypeOK, ShownWhileRunning, EachAtItsStage, Busy, At, To,
     NotifyStarted
<1>7. QED
  BY <1>1, <1>2, <1>3, <1>4, <1>5, <1>6

LEMMA RunEndsKeeps ==
    ASSUME RunInv, Reliable, RunEnds
    PROVE  RunInv'
<1> USE DEF RunInv, TypeOK
<1>1. RedisTypeOK' /\ KeysKnown'
  BY KeysLeftAlone DEF Written, EachAtItsStage, RunTypeOK, At, Carrying, Transfer,
     pipesVars, RunEnds, To
<1>2. PipesTypeOK' /\ CommandsKnown' /\ ChunksCounted'
  BY CommandsLeftAlone DEF RunTypeOK, RunPc, RunEnds, To, Transfer, At
<1>3. RunTypeOK'
  BY DEF RunTypeOK, RunPc, At, RunEnds, To, PipesTypeOK, pipesVars
<1>4. WholeOrKnown'
  BY DEF WholeOrKnown, Uploading, Transfer, At, RunEnds, To, Reliable
<1>5. EachAtItsStage'
  BY DEF EachAtItsStage, Busy, At, WholeOrKnown, RunEnds, To, Reliable
<1>6. ShownWhileRunning'
  BY DEF RunPc, ShownWhileRunning, EachAtItsStage, Busy, At, RunEnds, To
<1>7. QED
  BY <1>1, <1>2, <1>3, <1>4, <1>5, <1>6

LEMMA NotApplicableKeeps ==
    ASSUME RunInv, Reliable, NotApplicable
    PROVE  RunInv'
<1> USE DEF RunInv, TypeOK
<1>1. RedisTypeOK' /\ KeysKnown'
  BY KeysLeftAlone DEF Written, EachAtItsStage, RunTypeOK, At, Carrying, Transfer,
     pipesVars, NotApplicable, To
<1>2. PipesTypeOK' /\ CommandsKnown' /\ ChunksCounted'
  BY CommandsLeftAlone DEF RunTypeOK, RunPc, NotApplicable, To, Transfer, At
<1>3. RunTypeOK'
  BY DEF RunTypeOK, RunPc, At, NotApplicable, To, PipesTypeOK, pipesVars
<1>4. WholeOrKnown'
  BY DEF WholeOrKnown, Uploading, At, EachAtItsStage, NotApplicable, To, Reliable
<1>5. EachAtItsStage'
  BY DEF RunTypeOK, EachAtItsStage, Busy, At, NotApplicable, To, Reliable
<1>6. ShownWhileRunning'
  BY DEF RunPc, ShownWhileRunning, EachAtItsStage, Busy, At, NotApplicable, To
<1>7. QED
  BY <1>1, <1>2, <1>3, <1>4, <1>5, <1>6

LEMMA DiscardKeeps ==
    ASSUME RunInv, Reliable, Discard
    PROVE  RunInv'
<1> USE DEF RunInv, TypeOK
<1>1. RedisTypeOK' /\ KeysKnown'
  BY KeysLeftAlone DEF Written, EachAtItsStage, RunTypeOK, At, Carrying, Transfer,
     pipesVars, Discard, To
<1>2. PipesTypeOK' /\ CommandsKnown' /\ ChunksCounted'
  BY CommandsLeftAlone DEF RunTypeOK, RunPc, Discard, To, Transfer, At
<1>3. RunTypeOK'
  BY DEF RunTypeOK, RunPc, At, Discard, To, PipesTypeOK, pipesVars
<1>4. WholeOrKnown'
  BY DEF RunTypeOK, WholeOrKnown, Uploading, Transfer, At, EachAtItsStage, Busy,
     Discard, To, Reliable
<1>5. EachAtItsStage'
  BY DEF RunTypeOK, EachAtItsStage, Busy, At, Discard, To, Reliable
<1>6. ShownWhileRunning'
  BY DEF RunPc, ShownWhileRunning, EachAtItsStage, Busy, At, Discard, To
<1>7. QED
  BY <1>1, <1>2, <1>3, <1>4, <1>5, <1>6

LEMMA FailKeeps ==
    ASSUME RunInv, Reliable, Fail
    PROVE  RunInv'
<1> USE DEF RunInv, TypeOK
<1>1. RedisTypeOK' /\ KeysKnown'
  BY KeysLeftAlone DEF Written, EachAtItsStage, RunTypeOK, At, Carrying, Transfer,
     pipesVars, Fail, To
<1>2. PipesTypeOK' /\ CommandsKnown' /\ ChunksCounted'
  BY CommandsLeftAlone DEF RunTypeOK, RunPc, Fail, To, Transfer, At
<1>3. RunTypeOK'
  BY DEF RunTypeOK, RunPc, At, Fail, To, PipesTypeOK, pipesVars
<1>4. WholeOrKnown'
  BY DEF WholeOrKnown, Uploading, Transfer, At, Fail, To, Reliable
<1>5. EachAtItsStage'
  BY DEF RunTypeOK, EachAtItsStage, Busy, At, WholeOrKnown, Fail, To
<1>6. ShownWhileRunning'
  BY DEF RunTypeOK, ShownWhileRunning, EachAtItsStage, Busy, At, Fail, To
<1>7. QED
  BY <1>1, <1>2, <1>3, <1>4, <1>5, <1>6

LEMMA CompleteKeeps ==
    ASSUME RunInv, Reliable, Complete
    PROVE  RunInv'
<1> USE DEF RunInv, TypeOK
<1>1. RedisTypeOK' /\ KeysKnown'
  BY KeysLeftAlone DEF Written, EachAtItsStage, RunTypeOK, At, Carrying, Transfer,
     pipesVars, Complete, To
<1>2. PipesTypeOK' /\ CommandsKnown' /\ ChunksCounted'
  BY CommandsLeftAlone DEF RunTypeOK, RunPc, Complete, To, Transfer, At
<1>3. RunTypeOK'
  BY DEF RunTypeOK, RunPc, At, Complete, To, PipesTypeOK, pipesVars
<1>4. WholeOrKnown'
  BY DEF WholeOrKnown, Uploading, Transfer, At, Complete, To, Reliable
<1>5. EachAtItsStage'
  BY DEF RunTypeOK, EachAtItsStage, Busy, At, Complete, To, Reliable
<1>6. ShownWhileRunning'
  BY DEF RunTypeOK, ShownWhileRunning, EachAtItsStage, Busy, At, Complete, To
<1>7. QED
  BY <1>1, <1>2, <1>3, <1>4, <1>5, <1>6

LEMMA NotifyEndedKeeps ==
    ASSUME RunInv, Reliable, NotifyEnded
    PROVE  RunInv'
<1> USE DEF RunInv, TypeOK
<1>1. RedisTypeOK' /\ KeysKnown'
  BY KeysLeftAlone DEF Written, EachAtItsStage, RunTypeOK, At, Carrying, Transfer,
     pipesVars, NotifyEnded, To
<1>2. PipesTypeOK' /\ CommandsKnown' /\ ChunksCounted'
  BY CommandsLeftAlone DEF RunTypeOK, RunPc, NotifyEnded, To, Transfer, At
<1>3. RunTypeOK'
  BY DEF RunTypeOK, RunPc, At, NotifyEnded, To, PipesTypeOK, pipesVars
<1>4. WholeOrKnown'
  BY DEF WholeOrKnown, Uploading, Transfer, At, NotifyEnded, To, Reliable
<1>5. EachAtItsStage'
  BY DEF RunTypeOK, EachAtItsStage, Busy, At, WholeOrKnown, NotifyEnded, To
<1>6. ShownWhileRunning'
  BY DEF RunTypeOK, ShownWhileRunning, EachAtItsStage, Busy, At, NotifyEnded, To
<1>7. QED
  BY <1>1, <1>2, <1>3, <1>4, <1>5, <1>6

-----------------------------------------------------------------------------
(* The upload, and reader.Close.                                           *)
LEMMA ReadKeeps ==
    ASSUME RunInv, Reliable, Read
    PROVE  RunInv'
<1> USE DEF RunInv, TypeOK
<1>1. RedisTypeOK' /\ KeysKnown'
  BY KeysLeftAlone DEF Written, EachAtItsStage, RunTypeOK, At, Carrying, Transfer,
     pipesVars, Read, ReadChunk
<1>2. PipesTypeOK'
  BY PipesAssumption DEF PipesTypeOK, Read, ReadChunk, pipesVars, Pipe, Command
<1>3. CommandsKnown'
  BY EngineFacts DEF PipesTypeOK, CommandsKnown, AtWork, Transfer, At, Read, ReadChunk
<1>4. ChunksCounted'
  BY DEF RunTypeOK, PipesTypeOK, Pipe, ChunksCounted, At, Read, ReadChunk
<1>5. RunTypeOK'
  <2>1. run.read + 1 \in 0..size
    BY DEF RunTypeOK, Read, ReadChunk, ChunksCounted, PipesTypeOK, Pipe
  <2>2. run' \in [pc : RunPc, db : 0..MaxDatabases, read : 0..size, waited : 0..2,
             uploaded : BOOLEAN, closeErr : BOOLEAN]
    BY <2>1 DEF RunTypeOK, RunPc, Read
  <2>3. QED
    BY <2>2 DEF RunTypeOK, Read, ReadChunk
<1>6. WholeOrKnown'
  BY DEF WholeOrKnown, Uploading, Transfer, At, Read, ReadChunk, Reliable
<1>7. EachAtItsStage'
  BY DEF EachAtItsStage, Busy, At, Transfer, Read, ReadChunk, Reliable
<1>8. ShownWhileRunning'
  BY DEF ShownWhileRunning, At, To, Read, ReadChunk
<1>9. QED
  BY <1>1, <1>2, <1>3, <1>4, <1>5, <1>6, <1>7, <1>8

LEMMA UploadEndsKeeps ==
    ASSUME RunInv, Reliable, UploadEnds
    PROVE  RunInv'
<1> USE DEF RunInv, TypeOK
<1>1. RedisTypeOK' /\ KeysKnown'
  BY KeysLeftAlone DEF Written, EachAtItsStage, RunTypeOK, At, Carrying, Transfer,
     pipesVars, UploadEnds
<1>2. PipesTypeOK'
  BY DEF PipesTypeOK, UploadEnds, AtEnd, Uploaded, pipesVars, Pipe, Command
<1>3. CommandsKnown'
  BY EngineFacts DEF PipesTypeOK, pipesVars, CommandsKnown, AtWork, Transfer, At,
     UploadEnds
<1>4. ChunksCounted'
  BY DEF pipesVars, Pipe, Command, ChunksCounted, At, UploadEnds, AtEnd
<1>5. RunTypeOK'
  BY DEF RunTypeOK, RunPc, pipesVars, At, UploadEnds, AtEnd, Uploaded
<1>6. WholeOrKnown'
  BY EngineFacts DEF RunTypeOK, PipesTypeOK, pipesVars, ChunksCounted, CommandsKnown,
     AtWork, Position, Command, OutOf, WholeOrKnown, Uploading, Transfer, At,
     EachAtItsStage, Busy, UploadEnds, AtEnd, Uploaded
<1>7. EachAtItsStage'
  BY DEF EachAtItsStage, Busy, At, UploadEnds, AtEnd, Uploaded, Reliable
<1>8. ShownWhileRunning'
  BY DEF ShownWhileRunning, At, To, UploadEnds, AtEnd
<1>9. QED
  BY <1>1, <1>2, <1>3, <1>4, <1>5, <1>6, <1>7, <1>8

LEMMA UploadFailsKeeps ==
    ASSUME RunInv, Reliable, UploadFails
    PROVE  RunInv'
<1> USE DEF RunInv, TypeOK
<1>1. RedisTypeOK' /\ KeysKnown'
  BY KeysLeftAlone DEF Written, EachAtItsStage, RunTypeOK, At, Carrying, Transfer,
     pipesVars, UploadFails, To
<1>2. PipesTypeOK'
  BY DEF PipesTypeOK, UploadFails, To, pipesVars, Pipe, Command
<1>3. CommandsKnown'
  BY EngineFacts DEF PipesTypeOK, pipesVars, CommandsKnown, AtWork, Transfer, At,
     UploadFails, To
<1>4. ChunksCounted'
  BY DEF pipesVars, Pipe, Command, ChunksCounted, At, UploadFails, To
<1>5. RunTypeOK'
  <2>1. run' \in [pc : RunPc, db : 0..MaxDatabases, read : 0..size, waited : 0..2,
             uploaded : BOOLEAN, closeErr : BOOLEAN]
    BY DEF RunTypeOK, RunPc, UploadFails, To
  <2>2. stored' = stored
    BY DEF UploadFails, Reliable
  <2>3. QED
    BY <2>1, <2>2 DEF RunTypeOK, UploadFails, pipesVars
<1>6. WholeOrKnown'
  BY DEF WholeOrKnown, Uploading, Transfer, At, UploadFails, To, Reliable
<1>7. EachAtItsStage'
  BY DEF EachAtItsStage, Busy, At, Transfer, UploadFails, To, Reliable
<1>8. ShownWhileRunning'
  BY DEF ShownWhileRunning, At, UploadFails, To
<1>9. QED
  BY <1>1, <1>2, <1>3, <1>4, <1>5, <1>6, <1>7, <1>8

LEMMA CloseReaderKeeps ==
    ASSUME RunInv, Reliable, CloseReader
    PROVE  RunInv'
<1> USE DEF RunInv, TypeOK
<1>1. RedisTypeOK' /\ KeysKnown'
  BY KeysLeftAlone DEF Written, EachAtItsStage, RunTypeOK, At, Carrying, Transfer,
     CloseReader, To, CloseOut
<1>2. PipesTypeOK'
  BY PipesAssumption DEF PipesTypeOK, CloseReader, CloseOut, pipesVars, Pipe, Command
<1>3. CommandsKnown'
  BY EngineFacts DEF PipesTypeOK, CommandsKnown, AtWork, Transfer, At, CloseReader,
     CloseOut, To
<1>4. ChunksCounted'
  BY DEF Pipe, Command, ChunksCounted, At, CloseReader, CloseOut, To
<1>5. RunTypeOK'
  BY DEF RunTypeOK, RunPc, Busy, At, CloseReader, CloseOut, To
<1>6. WholeOrKnown'
  BY DEF OutOf, WholeOrKnown, Uploading, Transfer, At, CloseReader, CloseOut, To
<1>7. EachAtItsStage'
  BY DEF EachAtItsStage, Busy, At, CloseReader, CloseOut, To, Reliable
<1>8. ShownWhileRunning'
  BY DEF ShownWhileRunning, At, To, CloseReader, CloseOut
<1>9. QED
  BY <1>1, <1>2, <1>3, <1>4, <1>5, <1>6, <1>7, <1>8

LEMMA WaitForCommandKeeps ==
    ASSUME RunInv, Reliable, WaitForCommand
    PROVE  RunInv'
<1> USE DEF RunInv, TypeOK
<1>1. RedisTypeOK' /\ KeysKnown'
  BY KeysLeftAlone DEF Written, EachAtItsStage, RunTypeOK, At, Carrying, Transfer,
     pipesVars, WaitForCommand, Wait
<1>2. PipesTypeOK'
  BY DEF PipesTypeOK, WaitForCommand, Wait, Reported, pipesVars, Pipe, Command
<1>3. CommandsKnown'
  BY EngineFacts DEF RunTypeOK, PipesTypeOK, CommandsKnown, AtWork, Transfer, At,
     Position, OutOf, WaitForCommand, Wait
<1>4. ChunksCounted'
  BY DEF pipesVars, Pipe, Command, ChunksCounted, At, WaitForCommand, Wait
<1>5. RunTypeOK'
  <2>1. run.waited + 1 \in 0..2
    BY EngineFacts DEF PipesTypeOK, RunTypeOK, WaitForCommand
  <2>2. (run.closeErr \/ Reported(Commands[run.waited + 1])) \in BOOLEAN
    OBVIOUS
  <2>3. run' \in [pc : RunPc, db : 0..MaxDatabases, read : 0..size, waited : 0..2,
             uploaded : BOOLEAN, closeErr : BOOLEAN]
    BY <2>1, <2>2 DEF RunTypeOK, RunPc, WaitForCommand
  <2>4. QED
    BY <2>3 DEF RunTypeOK, WaitForCommand, Wait
<1>6. WholeOrKnown'
  BY DEF RunTypeOK, OutOf, WholeOrKnown, Uploading, Transfer, At, WaitForCommand, Wait,
     Reported
<1>7. EachAtItsStage'
  BY DEF EachAtItsStage, Busy, At, WaitForCommand, Wait, Reported, Reliable
<1>8. ShownWhileRunning'
  BY DEF ShownWhileRunning, At, To, WaitForCommand, Wait
<1>9. QED
  BY <1>1, <1>2, <1>3, <1>4, <1>5, <1>6, <1>7, <1>8

LEMMA ClosedKeeps ==
    ASSUME RunInv, Reliable, Closed
    PROVE  RunInv'
<1> USE DEF RunInv, TypeOK
<1>1. RedisTypeOK' /\ KeysKnown'
  BY KeysLeftAlone DEF Written, EachAtItsStage, RunTypeOK, At, Carrying, Transfer,
     pipesVars, Closed, To
<1>2. PipesTypeOK'
  BY DEF PipesTypeOK, Closed, Waited, To, pipesVars, Pipe, Command
<1>3. CommandsKnown'
  BY EngineFacts DEF PipesTypeOK, pipesVars, CommandsKnown, AtWork, At, Closed, Waited,
     To
<1>4. ChunksCounted'
  BY DEF pipesVars, Command, ChunksCounted, At, Closed, Waited, To
<1>5. RunTypeOK'
  BY DEF RunTypeOK, RunPc, pipesVars, At, Closed, Waited, To
<1>6. WholeOrKnown'
  BY DEF CommandsKnown, AtWork, Position, WholeOrKnown, Uploading, Transfer, At, Closed,
     Waited, To
<1>7. EachAtItsStage'
  BY DEF EachAtItsStage, Busy, At, Closed, Waited, To, Reliable
<1>8. ShownWhileRunning'
  BY DEF ShownWhileRunning, At, To, Closed, Waited
<1>9. QED
  BY <1>1, <1>2, <1>3, <1>4, <1>5, <1>6, <1>7, <1>8

-----------------------------------------------------------------------------
(* The commands of a transfer start.                                       *)
LEMMA TransferBegins ==
    ASSUME RunInv, At("dumping") \/ At("scanning"), StartCommands, To("uploading"),
           UNCHANGED <<type, status, stored, activeJobs>>, RedisTypeOK' /\ KeysKnown'
    PROVE  RunInv'
<1> USE DEF RunInv, TypeOK
<1>1. PipesTypeOK'
  BY PipesAssumption DEF PipesTypeOK, StartCommands, Command, Pipe
<1>2. CommandsKnown'
  <2>1. engine \in Engines /\ engine' = engine
    BY DEF PipesTypeOK, StartCommands
  <2>2. run'.pc = "uploading" /\ run'.waited = 0
    BY DEF To, RunTypeOK, EachAtItsStage
  <2>3. \A c \in Command : proc'[c] # "none" <=> AtWork(c)'
    BY <2>1, <2>2, EngineFacts DEF StartCommands, AtWork, Transfer, At
  <2>4. QED
    BY <2>1, <2>2, <2>3 DEF CommandsKnown, StartCommands, Transfer, At
<1>3. ChunksCounted'
  <2>1. engine \in Engines /\ engine' = engine
    BY DEF PipesTypeOK, StartCommands
  <2>2. run'.read = 0
    BY DEF To, RunTypeOK, EachAtItsStage
  <2>3. \A c \in Command : proc'[c] \in {"running", "none"}
    BY DEF StartCommands
  <2>4. QED
    BY <2>1, <2>2, <2>3 DEF ChunksCounted, StartCommands, Pipe, Command
<1>4. RunTypeOK'
  <2>1. run' = [run EXCEPT !.pc = "uploading"] /\ run.read = 0 /\ 0 \in 0..size'
    BY <1>1 DEF To, EachAtItsStage, PipesTypeOK
  <2>2. run' \in [pc : RunPc, db : 0..MaxDatabases, read : 0..size', waited : 0..2,
                   uploaded : BOOLEAN, closeErr : BOOLEAN]
    BY <2>1 DEF RunTypeOK, RunPc
  <2>3. QED
    BY <2>2 DEF RunTypeOK
<1>5. WholeOrKnown'
  <2>1. run' = [run EXCEPT !.pc = "uploading"] /\ ~run.uploaded /\ stored[run.db] = "nothing"
    BY DEF To, EachAtItsStage
  <2>2. run'.pc = "uploading" /\ ~run'.uploaded /\ stored'[run'.db] = "nothing"
    BY <2>1 DEF RunTypeOK
  <2>3. proc'["dump"] # "died"
    BY DEF StartCommands, Command
  <2>4. QED
    BY <2>2, <2>3 DEF WholeOrKnown, Uploading, Transfer, At
<1>6. EachAtItsStage'
  BY DEF EachAtItsStage, Busy, At, To
<1>7. ShownWhileRunning'
  BY DEF ShownWhileRunning, At, To
<1>8. QED
  BY <1>1, <1>2, <1>3, <1>4, <1>5, <1>6, <1>7

(* A dump that does not start, or is given up before it has a reader; and  *)
(* the walk over the keys of Redis, which begins.                          *)
LEMMA NoTransfer ==
    ASSUME RunInv, At("dumping") \/ At("scanning"), To("failing") \/ To("scanning"),
           UNCHANGED <<pipesVars, type, status, stored, activeJobs>>, RedisTypeOK' /\ KeysKnown'
    PROVE  RunInv'
<1> USE DEF RunInv, TypeOK
<1>1. PipesTypeOK' /\ CommandsKnown' /\ ChunksCounted'
  BY CommandsLeftAlone DEF RunTypeOK, To, Transfer, At
<1>2. RunTypeOK'
  BY DEF RunTypeOK, RunPc, To, pipesVars
<1>3. WholeOrKnown'
  BY DEF RunTypeOK, WholeOrKnown, Uploading, Transfer, At, To, EachAtItsStage
<1>4. EachAtItsStage'
  BY DEF EachAtItsStage, Busy, At, To, RunTypeOK
<1>5. ShownWhileRunning'
  BY DEF ShownWhileRunning, At, To
<1>6. QED
  BY <1>1, <1>2, <1>3, <1>4, <1>5

(* Steps of which the run notices nothing. *)
LEMMA RunLeftAlone ==
    ASSUME RunInv, UNCHANGED <<pipesVars, runVars>>, RedisTypeOK' /\ KeysKnown'
    PROVE  RunInv'
<1> USE DEF RunInv, TypeOK, pipesVars, runVars
<1>1. PipesTypeOK'
  BY DEF PipesTypeOK
<1>2. CommandsKnown'
  BY EngineFacts DEF PipesTypeOK, CommandsKnown, AtWork, Transfer, At
<1>3. ChunksCounted'
  BY DEF ChunksCounted, At
<1>4. RunTypeOK'
  BY DEF RunTypeOK
<1>5. WholeOrKnown'
  BY DEF WholeOrKnown, Uploading, Transfer, At, OutOf
<1>6. EachAtItsStage'
  BY DEF EachAtItsStage, Busy, At
<1>7. ShownWhileRunning'
  BY DEF ShownWhileRunning, At, To
<1>8. QED
  BY <1>1, <1>2, <1>3, <1>4, <1>5, <1>6, <1>7

-----------------------------------------------------------------------------
(* The walk over the keys of Redis.                                        *)
(* The last page makes it all the keys.                                    *)
LEMMA SeenAll ==
    ASSUME RedisTypeOK
    PROVE  /\ Seen \subseteq Keys
           /\ LastPage => Seen = Keys
<1>1. Len(KeyPages) \in Nat /\ DOMAIN KeyPages = 1..Len(KeyPages)
  BY RedisAssumption
<1>2. QED
  BY <1>1 DEF Seen, Keys, LastPage, RedisTypeOK

LEMMA ScanBeginsKeeps ==
    ASSUME RedisTypeOK, KeysKnown, EachAtItsStage, RunTypeOK, At("dumping"),
           ScanBegins, To("scanning"), UNCHANGED <<engine, status>>
    PROVE  RedisTypeOK' /\ KeysKnown'
<1>1. RedisTypeOK'
  BY RedisAssumption DEF ScanBegins, RedisTypeOK
<1>2. At("scanning")' /\ ~At("over") /\ ~Carrying' /\ ~Written'
  BY DEF RunTypeOK, To, At, Carrying, Transfer, Written, EachAtItsStage, Busy
<1>3. Seen' = {}
  BY DEF ScanBegins, Seen
<1>4. QED
  BY <1>1, <1>2, <1>3 DEF KeysKnown, ScanBegins

LEMMA ScanPageKeeps ==
    ASSUME RedisTypeOK, KeysKnown, EachAtItsStage, At("scanning"), ScanPage,
           UNCHANGED <<engine, run, status>>
    PROVE  RedisTypeOK' /\ KeysKnown'
<1>1. Len(KeyPages) \in Nat
  BY RedisAssumption
<1>2. scan.page + 1 \in 1..Len(KeyPages)
  BY <1>1 DEF ScanPage, LastPage, RedisTypeOK
<1>3. KeyPages[scan.page + 1] \subseteq Keys
  BY <1>2, RedisAssumption
<1>4. scan'.page = scan.page + 1 /\ scan'.left = {k \in KeyPages[scan.page + 1] : store[k] # Absent}
  BY DEF ScanPage
<1>5. RedisTypeOK'
  BY <1>2, <1>3 DEF ScanPage, RedisTypeOK
<1>6. Seen' = Seen \cup KeyPages[scan.page + 1]
  <2>1. scan.page \in Nat
    BY DEF RedisTypeOK
  <2>2. 1..(scan.page + 1) = (1..scan.page) \cup {scan.page + 1}
    BY <2>1
  <2>3. QED
    BY <1>4, <2>2 DEF Seen
<1>7. At("scanning")' /\ ~At("over") /\ ~Carrying' /\ ~Written'
  BY DEF At, Carrying, Transfer, Written, EachAtItsStage, Busy
<1>8. scan'.left \subseteq Seen'
  BY <1>4, <1>6
<1>9. \A k \in Keys \ Seen' : dumped'[k] = NoValue
  BY <1>6 DEF KeysKnown, ScanPage
<1>10. ASSUME NEW k \in quiet'
       PROVE  IF k \in scan'.left THEN store'[k] # Absent
              ELSE k \in Seen' => dumped'[k] = store'[k].value
  <2>1. k \in quiet /\ k \in Keys /\ scan.left = {} /\ UNCHANGED <<store, dumped>>
    BY <1>10 DEF ScanPage, RedisTypeOK
  <2>2. CASE k \in Seen
    BY <2>1, <2>2, <1>4 DEF KeysKnown
  <2>3. CASE k \notin Seen
    <3>1. dumped[k] = NoValue
      BY <2>1, <2>3 DEF KeysKnown
    <3>2. QED
      BY <2>1, <2>3, <3>1, <1>4, <1>6 DEF Absent
  <2>4. QED
    BY <2>2, <2>3
<1>11. QED
  BY <1>5, <1>7, <1>8, <1>9, <1>10 DEF KeysKnown, ScanPage

LEMMA DumpKeyKeeps ==
    ASSUME RedisTypeOK, KeysKnown, EachAtItsStage, At("scanning"), NEW d \in Keys,
           DumpKey(d), UNCHANGED <<engine, run, status>>
    PROVE  RedisTypeOK' /\ KeysKnown'
<1>1. d \in Seen /\ Seen' = Seen
  BY DEF KeysKnown, DumpKey, Seen
<1>2. store[d] # Absent => store[d].value \in Values
  BY DEF RedisTypeOK, Entry
<1>3. scan'.left = scan.left \ {d}
  BY DEF DumpKey, RedisTypeOK
<1>4. dumped' = IF store[d] = Absent THEN dumped ELSE [dumped EXCEPT ![d] = store[d].value]
  BY DEF DumpKey
<1>5. RedisTypeOK'
  <2>1. dumped' \in [Keys -> Values \cup {NoValue}]
    BY <1>2, <1>4 DEF RedisTypeOK
  <2>2. scan' \in [page : 0..Len(KeyPages), left : SUBSET Keys]
    BY DEF DumpKey, RedisTypeOK
  <2>3. QED
    BY <2>1, <2>2 DEF DumpKey, RedisTypeOK
<1>6. At("scanning")' /\ ~At("over") /\ ~Carrying' /\ ~Written'
  BY DEF At, Carrying, Transfer, Written, EachAtItsStage, Busy
<1>7. scan'.left \subseteq Seen' /\ \A k \in Keys \ Seen' : dumped'[k] = NoValue
  BY <1>1, <1>3, <1>4 DEF KeysKnown
<1>8. ASSUME NEW k \in quiet'
      PROVE  IF k \in scan'.left THEN store'[k] # Absent
             ELSE k \in Seen' => dumped'[k] = store'[k].value
  <2>1. k \in quiet /\ k \in Keys /\ UNCHANGED store
    BY <1>8 DEF DumpKey, RedisTypeOK
  <2>2. CASE k = d
    BY <2>1, <2>2, <1>3, <1>4 DEF KeysKnown, DumpKey, RedisTypeOK
  <2>3. CASE k # d
    BY <2>1, <2>3, <1>1, <1>3, <1>4 DEF KeysKnown
  <2>4. QED
    BY <2>2, <2>3
<1>9. QED
  BY <1>5, <1>6, <1>7, <1>8 DEF KeysKnown, DumpKey

LEMMA ScanStepKeeps ==
    ASSUME RedisTypeOK, KeysKnown, EachAtItsStage, Reliable, At("scanning"), ScanStep,
           UNCHANGED <<engine, run, status>>
    PROVE  RedisTypeOK' /\ KeysKnown'
BY ScanPageKeeps, DumpKeyKeeps DEF ScanStep, DumpKeyFails, Reliable

LEMMA ScanEndsKeeps ==
    ASSUME RedisTypeOK, KeysKnown, RunTypeOK, At("scanning"), MarshalDump, To("uploading"),
           UNCHANGED engine
    PROVE  RedisTypeOK' /\ KeysKnown'
<1>1. RedisTypeOK'
  BY RedisAssumption DEF RedisTypeOK, MarshalDump, Marshalled
<1>2. \A k \in quiet : dumped[k] = store[k].value
  BY SeenAll DEF KeysKnown, MarshalDump, ScanEnded, RedisTypeOK
<1>3. ~At("scanning")' /\ ~At("over")
  BY DEF RunTypeOK, To, At
<1>4. QED
  BY <1>1, <1>2, <1>3 DEF KeysKnown, MarshalDump

(* The application writes a key, which is quiet no more.                   *)
LEMMA TouchKeeps ==
    ASSUME RedisTypeOK, KeysKnown, NEW d \in Keys, Touch(d),
           UNCHANGED <<engine, run, status>>
    PROVE  RedisTypeOK' /\ KeysKnown'
<1>1. PICK e \in (Entry \cup {Absent}) \ {store[d]} : store' = [store EXCEPT ![d] = e]
  BY DEF Touch
<1>2. writes' \in 0..MaxWrites
  BY RedisAssumption DEF Touch, RedisTypeOK
<1>3. RedisTypeOK'
  BY <1>1, <1>2 DEF Touch, RedisTypeOK
<1>4. quiet' \subseteq quiet /\ quiet' \subseteq Keys /\ \A k \in quiet' : store'[k] = store[k]
  BY <1>1 DEF Touch, RedisTypeOK
<1>5. Seen' = Seen /\ UNCHANGED <<engine, run, scan, dumped, object, replay>>
  BY DEF Touch, Seen
<1>6. QED
  BY <1>3, <1>4, <1>5 DEF KeysKnown, At, Carrying, Transfer, Written

(* A restore puts back a key after the other.                              *)
LEMMA ReplayKeeps ==
    ASSUME RedisTypeOK, KeysKnown, RunTypeOK, At("over"), ReplayBegins \/ ReplayStep,
           engine = "redis", run.db > 0, status[run.db] = "completed",
           UNCHANGED <<engine, run, status>>
    PROVE  RedisTypeOK' /\ KeysKnown'
<1>1. At("over")' /\ ~At("scanning")' /\ ~Carrying' /\ Written'
      /\ object = [k \in Keys |-> Marshalled(dumped[k])]
  BY DEF At, Carrying, Transfer, Written, KeysKnown
<1>2. CASE ReplayBegins
  <2>1. RedisTypeOK'
    BY <1>2 DEF ReplayBegins, RedisTypeOK
  <2>2. QED
    BY <1>1, <1>2, <2>1 DEF ReplayBegins, KeysKnown, Marshalled, NoValue, Spoiled
<1>3. CASE ReplayEnds
  <2>1. RedisTypeOK'
    BY <1>3 DEF ReplayEnds, RedisTypeOK
  <2>2. UNCHANGED <<store, dumped, object, quiet>>
    BY <1>3 DEF ReplayEnds
  <2>3. replay'.state # "running" /\ replay'.left = {}
    BY <1>3 DEF ReplayEnds, RedisTypeOK
  <2>4. replay'.state = "ok" => replay.state = "running" /\ replay.left = {}
    BY <1>3 DEF ReplayEnds, RedisTypeOK
  <2>5. QED
    BY <1>1, <2>1, <2>2, <2>3, <2>4 DEF KeysKnown
<1>4. ASSUME NEW d \in Keys, ReplayKey(d)
      PROVE  RedisTypeOK' /\ KeysKnown'
  <2>1. object[d] \in Values /\ object[d] = dumped[d]
    BY <1>1, <1>4 DEF ReplayKey, KeysKnown, RedisTypeOK, Marshalled
  <2>2. store' = [store EXCEPT ![d] = RestoreReplace(d)]
    BY <1>4 DEF ReplayKey
  <2>3. RestoreReplace(d) \in Entry
    BY <2>1 DEF RestoreReplace, Entry
  <2>4. RestoreReplace(d) # Absent /\ RestoreReplace(d).value = dumped[d]
    BY <2>1, RedisAssumption DEF RestoreReplace, Absent
  <2>5. replay'.left = replay.left \ {d} /\ replay'.state = "running" /\ UNCHANGED <<dumped, object, quiet>>
    BY <1>4 DEF ReplayKey, RedisTypeOK
  <2>6. RedisTypeOK'
    BY <1>4, <2>2, <2>3 DEF ReplayKey, RedisTypeOK
  <2>7. ASSUME NEW k \in quiet' \ replay'.left, dumped'[k] # NoValue
        PROVE  store'[k] # Absent /\ store'[k].value = dumped'[k]
    <3>1. CASE k = d
      BY <2>2, <2>4, <2>5, <3>1 DEF RedisTypeOK
    <3>2. CASE k # d
      <4>1. k \in quiet \ replay.left /\ dumped[k] # NoValue /\ k \in Keys
        BY <2>5, <2>7, <3>2 DEF RedisTypeOK
      <4>2. store'[k] = store[k]
        BY <2>2, <3>2, <4>1
      <4>3. QED
        BY <1>4, <2>5, <4>1, <4>2 DEF KeysKnown, ReplayKey
    <3>3. QED
      BY <3>1, <3>2
  <2>8. \A k \in replay'.left : object'[k] # NoValue
    BY <2>5 DEF KeysKnown
  <2>9. QED
    BY <1>1, <2>5, <2>6, <2>7, <2>8 DEF KeysKnown
<1>5. ASSUME NEW d \in Keys, ReplayRefused(d)
      PROVE  RedisTypeOK' /\ KeysKnown'
  BY <1>1, <1>5 DEF ReplayRefused, RedisTypeOK, KeysKnown
<1>6. QED
  BY <1>2, <1>3, <1>4, <1>5 DEF ReplayStep

-----------------------------------------------------------------------------
(* BackupDatabase of the adapters.                                         *)
LEMMA StartDumpKeeps ==
    ASSUME RunInv, Reliable, StartDump
    PROVE  RunInv'
<1> USE DEF RunInv, TypeOK
<1>1. CASE StartCommands /\ engine # "redis" /\ To("uploading") /\ UNCHANGED redisVars
  <2>1. RedisTypeOK' /\ KeysKnown'
    BY <1>1, KeysLeftAlone DEF Written, EachAtItsStage, RunTypeOK, StartDump,
       StartCommands, At,
       Carrying, To
  <2>2. QED
    BY <1>1, <2>1, TransferBegins DEF StartDump
<1>2. CASE StartFails /\ To("failing") /\ UNCHANGED redisVars
  <2>1. UNCHANGED pipesVars
    BY <1>2 DEF StartFails, Reliable
  <2>2. RedisTypeOK' /\ KeysKnown'
    BY <1>2, <2>1, KeysLeftAlone DEF Written, EachAtItsStage, RunTypeOK, StartDump,
       At, Carrying, Transfer, To, pipesVars
  <2>3. QED
    BY <1>2, <2>1, <2>2, NoTransfer DEF StartDump
<1>3. CASE engine = "redis" /\ ScanBegins /\ To("scanning") /\ UNCHANGED pipesVars
  <2>1. RedisTypeOK' /\ KeysKnown'
    BY <1>3, ScanBeginsKeeps DEF StartDump, pipesVars
  <2>2. QED
    BY <1>3, <2>1, NoTransfer DEF StartDump
<1>4. QED
  BY <1>1, <1>2, <1>3 DEF StartDump

LEMMA ScanKeeps ==
    ASSUME RunInv, Reliable, Scan
    PROVE  RunInv'
<1> USE DEF RunInv, TypeOK
<1>1. CASE ~ScanEnded /\ ScanStep /\ UNCHANGED <<run, pipesVars>>
  <2>1. RedisTypeOK' /\ KeysKnown'
    BY <1>1, ScanStepKeeps DEF Scan, pipesVars
  <2>2. QED
    BY <1>1, <2>1, RunLeftAlone DEF Scan, runVars
<1>2. CASE MarshalDump /\ StartCommands /\ To("uploading")
  <2>1. RedisTypeOK' /\ KeysKnown'
    BY <1>2, ScanEndsKeeps DEF Scan, StartCommands
  <2>2. QED
    BY <1>2, <2>1, TransferBegins DEF Scan
<1>3. CASE "scan" \in RedisFaults /\ To("failing") /\ UNCHANGED <<pipesVars, redisVars>>
  <2>1. RedisTypeOK' /\ KeysKnown'
    BY <1>3, KeysLeftAlone DEF Written, EachAtItsStage, RunTypeOK, Scan, At, Carrying,
       Transfer, To, pipesVars
  <2>2. QED
    BY <1>3, <2>1, NoTransfer DEF Scan
<1>4. QED
  BY <1>1, <1>2, <1>3 DEF Scan

(* The application of a Redis database, a restore of it, and nothing.      *)
LEMMA OthersKeep ==
    ASSUME RunInv, Application \/ RestoreRedis \/ UNCHANGED vars
    PROVE  RunInv'
<1> USE DEF RunInv, TypeOK
<1>1. CASE Application
  <2>1. RedisTypeOK' /\ KeysKnown'
    BY <1>1, TouchKeeps DEF Application, pipesVars, runVars
  <2>2. QED
    BY <1>1, <2>1, RunLeftAlone DEF Application
<1>2. CASE RestoreRedis
  <2>1. RedisTypeOK' /\ KeysKnown'
    BY <1>2, ReplayKeeps DEF RestoreRedis, pipesVars, runVars
  <2>2. QED
    BY <1>2, <2>1, RunLeftAlone DEF RestoreRedis
<1>3. CASE UNCHANGED vars
  <2>1. RedisTypeOK' /\ KeysKnown'
    BY <1>3, KeysLeftAlone DEF Written, EachAtItsStage, RunTypeOK, vars, pipesVars,
       At, Carrying, Transfer
  <2>2. QED
    BY <1>3, <2>1, RunLeftAlone DEF vars, runVars
<1>4. QED
  BY <1>1, <1>2, <1>3

(* A command writes, or ends: well, of a broken pipe, or in the middle.    *)
LEMMA CommandKeeps ==
    ASSUME RunInv, Reliable, NEW c \in Command, Commanded(c) \/ BreaksOff(c)
    PROVE  RunInv'
<1> USE DEF RunInv, TypeOK
<1>1. Write(c) \/ BrokenPipe(c) \/ Exit(c) \/ BreakOff(c)
  BY DEF Commanded, BreaksOff, CommandStep
<1>2. UNCHANGED <<engine, size, held, redisVars, runVars>>
  BY DEF Commanded, BreaksOff, CommandStep, Write, BrokenPipe, Exit, BreakOff
<1>3. RedisTypeOK' /\ KeysKnown'
  BY <1>2, KeysLeftAlone DEF Written, EachAtItsStage, RunTypeOK, runVars, At,
     Carrying, Transfer
<1>4. PipesTypeOK'
  <2>1. CASE Write("dump")
    <3>1. PICK p \in Pipe : p = OutOf("dump") /\ pipe[p] < PipeCap
                            /\ pipe' = [pipe EXCEPT ![p] = @ + 1]
      BY <2>1 DEF Write, OutOf, Pipe
    <3>2. pipe[p] + 1 \in 0..PipeCap
      BY <3>1, PipesAssumption DEF PipesTypeOK
    <3>3. made + 1 \in 0..size
      BY <2>1 DEF PipesTypeOK, Write, HasInput
    <3>4. QED
      BY <2>1, <3>1, <3>2, <3>3 DEF PipesTypeOK, Write
  <2>2. CASE Write("gzip")
    <3>1. pipe["out"] + 1 \in 0..PipeCap /\ pipe["raw"] - 1 \in 0..PipeCap
      BY <2>2, PipesAssumption DEF PipesTypeOK, Pipe, Write, HasInput, OutOf
    <3>2. pipe' = [pipe EXCEPT !["out"] = @ + 1, !["raw"] = @ - 1]
      BY <2>2 DEF Write
    <3>3. pipe' \in [Pipe -> 0..PipeCap]
      BY <3>1, <3>2 DEF PipesTypeOK
    <3>4. QED
      BY <2>2, <3>3 DEF PipesTypeOK, Write
  <2>3. CASE BrokenPipe(c) \/ Exit(c) \/ BreakOff(c)
    BY <2>3 DEF PipesTypeOK, BrokenPipe, Exit, BreakOff
  <2>4. QED
    BY <1>1, <2>1, <2>2, <2>3 DEF Command
<1>5. CommandsKnown'
  BY <1>1, <1>2, EngineFacts DEF PipesTypeOK, CommandsKnown, AtWork, Transfer, At,
     runVars, Write, BrokenPipe, Exit, BreakOff
<1>6. ChunksCounted'
  <2> USE DEF PipesTypeOK, ChunksCounted, runVars, At
  <2>1. CASE Write("dump")
    BY <1>2, <2>1 DEF Pipe, RunTypeOK, Write, HasInput, OutOf
  <2>2. CASE Write("gzip")
    <3>1. engine = "mysql"
      BY <1>2, <2>2, EngineFacts DEF Command, Write, CommandsKnown, AtWork, Position
    <3>2. /\ pipe'["out"] = pipe["out"] + 1
          /\ pipe'["raw"] = pipe["raw"] - 1
          /\ pipe["raw"] > 0 /\ made' = made /\ proc' = proc
      BY <2>2 DEF Pipe, Write, HasInput
    <3>3. pipe["raw"] \in Nat /\ pipe["out"] \in Nat /\ made \in Nat
      BY DEF Pipe
    <3>4. proc["gzip"] = "running"
      BY <2>2 DEF Write
    <3>5. QED
      BY <1>2, <3>1, <3>2, <3>3, <3>4 DEF RunTypeOK
  <2>3. CASE BrokenPipe(c)
    BY <1>2, <2>3 DEF Command, BrokenPipe
  <2>4. CASE Exit("dump")
    BY <1>2, <2>4 DEF Command, Exit, HasInput
  <2>5. CASE Exit("gzip")
    BY <1>2, <2>5 DEF Pipe, Command, Exit, HasInput
  <2>6. CASE BreakOff(c)
    BY <1>2, <2>6 DEF Command, BreakOff
  <2>7. QED
    BY <1>1, <2>1, <2>2, <2>3, <2>4, <2>5, <2>6 DEF Command
<1>7. RunTypeOK'
  BY <1>2 DEF RunTypeOK, runVars
<1>8. WholeOrKnown'
  BY <1>1, <1>2 DEF PipesTypeOK, Command, WholeOrKnown, Uploading, Transfer, At,
     CommandsKnown, runVars, OutOf, Readable, Reliable, Write, BrokenPipe, Exit,
     BreakOff
<1>9. EachAtItsStage'
  BY <1>2 DEF EachAtItsStage, Busy, At, runVars
<1>10. ShownWhileRunning'
  BY <1>2 DEF ShownWhileRunning, At, To, runVars
<1>11. QED
  BY <1>3, <1>4, <1>5, <1>6, <1>7, <1>8, <1>9, <1>10

-----------------------------------------------------------------------------
(* The invariant.                                                          *)
LEMMA InitInv ==
    ASSUME Init
    PROVE  RunInv
<1> USE DEF Init
<1>1. PipesTypeOK
  BY PipesAssumption DEF PipesInit, PipesTypeOK
<1>2. RedisTypeOK
  <2>1. [value : Values, ttl : {FALSE}] \subseteq Entry
    BY DEF Entry
  <2>2. store \in [Keys -> Entry \cup {Absent}]
    BY <2>1 DEF RedisInit
  <2>3. 0 \in 0..MaxWrites /\ 0 \in 0..Len(KeyPages)
    BY RedisAssumption
  <2>4. QED
    BY <2>2, <2>3 DEF RedisInit, RedisTypeOK
<1>3. RunTypeOK
  BY <1>1, DatabasesNat DEF RunTypeOK, RunPc, PipesInit
<1>4. CommandsKnown
  BY <1>1 DEF PipesTypeOK, CommandsKnown, AtWork, Transfer, At, PipesInit
<1>5. ChunksCounted
  BY DEF ChunksCounted, At, PipesInit, Pipe, Command
<1>6. WholeOrKnown
  BY DEF WholeOrKnown, Uploading, Transfer, At
<1>7. KeysKnown
  BY DEF KeysKnown, Carrying, Transfer, At, RedisInit, Written
<1>8. EachAtItsStage
  BY DEF EachAtItsStage, Busy, At
<1>9. ShownWhileRunning
  BY DEF ShownWhileRunning
<1>10. QED
  BY <1>1, <1>2, <1>3, <1>4, <1>5, <1>6, <1>7, <1>8, <1>9 DEF RunInv, TypeOK

LEMMA NextKeeps ==
    ASSUME RunInv, Reliable, [Next]_vars
    PROVE  RunInv'
<1>1. CASE RunStep
  BY <1>1, ListDatabasesKeeps, PassOverKeeps, BeginKeeps, RunEndsKeeps,
     NotApplicableKeeps, StartDumpKeeps, ScanKeeps, ReadKeeps, UploadEndsKeeps,
     UploadFailsKeeps, CloseReaderKeeps, WaitForCommandKeeps, ClosedKeeps, DiscardKeeps,
     FailKeeps, CompleteKeeps, NotifyStartedKeeps, NotifyEndedKeeps DEF RunStep
<1>2. ASSUME NEW c \in Command, Commanded(c) \/ BreaksOff(c)
      PROVE  RunInv'
  BY <1>2, CommandKeeps
<1>3. CASE Application \/ RestoreRedis \/ UNCHANGED vars
  BY <1>3, OthersKeep
<1>4. QED
  BY <1>1, <1>2, <1>3 DEF Next

-----------------------------------------------------------------------------
(* runForInstance: commands are at work only while a database is           *)
(* transferred, the chunks made are those read and those in the pipes, and *)
(* what the run knows of a transfer is enough to judge it by.              *)
THEOREM RunInvHolds == ASSUME Reliable PROVE Spec => []RunInv
<1>1. Init => RunInv
  BY InitInv
<1>2. RunInv /\ [Next]_vars => RunInv'
  BY NextKeeps
<1>3. QED
  BY <1>1, <1>2, PTL DEF Spec

(* pipeReader.Close and the notifications: a backup that has ended leaves  *)
(* no command and no pipe behind, and the interface lists what runs.       *)
THEOREM NothingLeftHolds == ASSUME Reliable PROVE Spec => []NothingLeft
<1>1. RunInv => NothingLeft
  <2> SUFFICES ASSUME RunInv PROVE NothingLeft
    OBVIOUS
  <2>1. NoCommandLeft
    BY DEF RunInv, TypeOK, PipesTypeOK, Pipe, NoCommandLeft, CommandsKnown, AtWork,
       Transfer, At
  <2>2. QED
    BY <2>1 DEF RunInv, NothingLeft
<1>2. QED
  BY <1>1, RunInvHolds, PTL

(* The SCAN of the Redis adapter and json.Marshal: of the keys that nobody *)
(* wrote meanwhile the object names all, and has the values JSON carries.  *)
THEOREM QuietKeysKeptHolds == ASSUME Reliable PROVE Spec => []QuietKeysKept
<1>1. RunInv => QuietKeysKept
  <2> SUFFICES ASSUME RunInv, engine = "redis", Carrying, NEW k \in quiet
               PROVE  /\ object[k] = NoValue <=> store[k] = Absent
                      /\ store[k].value \in Utf8 => object[k] = store[k].value
    BY DEF QuietKeysKept
  <2>1. k \in Keys /\ object[k] = Marshalled(store[k].value)
    BY DEF RunInv, TypeOK, RedisTypeOK, KeysKnown, Written
  <2>2. store[k] = Absent <=> store[k].value = NoValue
    BY <2>1, RedisAssumption DEF RunInv, TypeOK, RedisTypeOK, Entry, Absent
  <2>3. QED
    BY <2>1, <2>2 DEF Marshalled, NoValue, Spoiled
<1>2. QED
  BY <1>1, RunInvHolds, PTL

(* Its RESTORE ... REPLACE: a restore without an error has put back every  *)
(* key of the dump, with the value DUMP had returned.                      *)
THEOREM RestoredAsDumpedHolds == ASSUME Reliable PROVE Spec => []RestoredAsDumped
<1>1. RunInv => RestoredAsDumped
  <2> SUFFICES ASSUME RunInv, replay.state = "ok", NEW k \in quiet, dumped[k] # NoValue
               PROVE  store[k] # Absent /\ store[k].value = dumped[k]
    BY DEF RestoredAsDumped
  <2>1. k \notin replay.left
    BY DEF RunInv, KeysKnown
  <2>2. QED
    BY <2>1 DEF RunInv, KeysKnown
<1>2. QED
  BY <1>1, RunInvHolds, PTL

-----------------------------------------------------------------------------
(* The refinement: what each step is to BackupOutcome.                     *)
LEMMA OutcomeBegins == ASSUME RunInv, Begin PROVE Outcome!Next
<1>1. run.db + 1 \in Databases /\ run.db + 1 > run.db
  BY DatabasesNat DEF RunInv, TypeOK, RunTypeOK, Begin
<1>2. status[run.db + 1] = "none"
  BY <1>1 DEF RunInv, EachAtItsStage
<1>3. Outcome!Begin(run.db + 1)
  BY <1>2 DEF Begin, Outcome!Begin
<1>4. QED
  BY <1>1, <1>3 DEF Outcome!Next

(* The database a busy run is at is the one whose record says Running.     *)
LEMMA OutcomeAtDatabase ==
    ASSUME RunInv, Busy
    PROVE  run.db \in Databases /\ status[run.db] = "running"
BY DEF RunInv, EachAtItsStage

(* The object of a database is stored, or removed.                         *)
LEMMA OutcomeStored ==
    ASSUME RunInv, Reliable, UploadEnds \/ UploadFails \/ Discard
    PROVE  [Outcome!Next]_Outcome!vars
<1>1. Busy
  BY DEF UploadEnds, UploadFails, Discard, Busy, At
<1>2. CASE UploadEnds
  <2>1. stored[run.db] = "nothing"
    BY <1>2 DEF UploadEnds, RunInv, WholeOrKnown, Transfer
  <2>2. Outcome!Store(run.db)
    BY <1>1, <1>2, <2>1, OutcomeAtDatabase DEF UploadEnds, Uploaded, Outcome!Store
  <2>3. QED
    BY <1>1, <2>2, OutcomeAtDatabase DEF Outcome!Next
<1>3. CASE UploadFails
  BY <1>3 DEF UploadFails, Reliable, Outcome!vars
<1>4. CASE Discard
  <2>1. Outcome!Remove(run.db)
    BY <1>1, <1>4, OutcomeAtDatabase DEF Discard, Reliable, Outcome!Remove
  <2>2. QED
    BY <1>1, <2>1, OutcomeAtDatabase DEF Outcome!Next
<1>5. QED
  BY <1>2, <1>3, <1>4

(* Its record is completed, or fails.                                      *)
LEMMA OutcomeEnds ==
    ASSUME RunInv, NotApplicable \/ Fail \/ Complete
    PROVE  Outcome!Next
<1>1. Busy
  BY DEF NotApplicable, Fail, Complete, Busy, At
<1>2. CASE NotApplicable \/ Fail
  <2>1. stored[run.db] = "nothing"
    BY <1>2 DEF NotApplicable, Fail, RunInv, WholeOrKnown, EachAtItsStage
  <2>2. Outcome!Fail(run.db)
    BY <1>1, <1>2, <2>1, OutcomeAtDatabase DEF NotApplicable, Fail, Outcome!Fail
  <2>3. QED
    BY <1>1, <2>2, OutcomeAtDatabase DEF Outcome!Next
<1>3. CASE Complete
  <2>1. stored[run.db] = "whole"
    BY <1>3 DEF Complete, RunInv, WholeOrKnown
  <2>2. Outcome!Complete(run.db)
    BY <1>1, <1>3, <2>1, OutcomeAtDatabase DEF Complete, Outcome!Complete
  <2>3. QED
    BY <1>1, <2>2, OutcomeAtDatabase DEF Outcome!Next
<1>4. QED
  BY <1>2, <1>3

(* Every other step is none to BackupOutcome. *)
LEMMA OutcomeSteps ==
    ASSUME RunInv, Reliable, [Next]_vars
    PROVE  [Outcome!Next]_Outcome!vars
<1> USE DEF Outcome!vars
<1>1. CASE Begin
  BY <1>1, OutcomeBegins
<1>2. CASE UploadEnds \/ UploadFails \/ Discard
  BY <1>2, OutcomeStored
<1>3. CASE NotApplicable \/ Fail \/ Complete
  BY <1>3, OutcomeEnds
<1>4. CASE ListDatabases \/ PassOver \/ RunEnds \/ StartDump \/ Scan
  BY <1>4 DEF ListDatabases, PassOver, RunEnds, StartDump, Scan
<1>5. CASE Read \/ CloseReader \/ WaitForCommand \/ Closed \/ NotifyStarted \/ NotifyEnded
  BY <1>5 DEF Read, CloseReader, WaitForCommand, Closed, NotifyStarted, NotifyEnded
<1>6. ASSUME NEW c \in Command, Commanded(c) \/ BreaksOff(c)
      PROVE  UNCHANGED <<status, stored>>
  BY <1>6 DEF Commanded, BreaksOff, runVars
<1>7. CASE Application \/ RestoreRedis \/ UNCHANGED vars
  BY <1>7 DEF Application, RestoreRedis, runVars, vars
<1>8. QED
  BY <1>1, <1>2, <1>3, <1>4, <1>5, <1>6, <1>7 DEF Next, RunStep

(* "Verify the dump process exited successfully": a record of the run that *)
(* says Completed has the whole dump, whatever breaks off and wherever.    *)
THEOREM OutcomeKept == ASSUME Reliable PROVE Spec => ImplementsOutcome
<1>1. Init => Outcome!Init
  BY DEF Init, Outcome!Init
<1>2. RunInv /\ [Next]_vars => [Outcome!Next]_Outcome!vars
  BY OutcomeSteps
<1>3. QED
  BY <1>1, <1>2, RunInvHolds, PTL DEF Spec, ImplementsOutcome, Outcome!Spec

=============================================================================
