---------------------------- MODULE RedisAdapter ----------------------------
(***************************************************************************)
(* The Redis adapter: a backup walks the keys with SCAN and takes each by  *)
(* DUMP, a restore puts each back by RESTORE ... REPLACE, while the        *)
(* application that uses the database goes on.  No command spans two keys. *)
(*                                                                         *)
(* A key has a value and may have a time to live; a value as DUMP writes   *)
(* it has none.  On its way into the object and out again a value goes     *)
(* through JSON, whose strings are UTF-8: the bytes of DUMP mostly are     *)
(* not.  The names of the keys are taken to be.                            *)
(***************************************************************************)
EXTENDS Naturals, Sequences, FiniteSets

CONSTANTS
    KeyPages,      \* the keys each call of SCAN looks at
    Values,
    Utf8,          \* those that DUMP happens to write as valid UTF-8
    MaxWrites,     \* bound: what the application does
    RedisFaults    \* the failures the environment may inject here

Keys == UNION {KeyPages[i] : i \in DOMAIN KeyPages}

NoValue == "none"
Spoiled == "spoiled"
Absent == [value |-> NoValue, ttl |-> FALSE]

ASSUME RedisAssumption ==
    /\ KeyPages \in Seq(SUBSET Keys)
    /\ {NoValue, Spoiled} \cap Values = {}
    /\ Utf8 \subseteq Values
    /\ MaxWrites \in Nat
    /\ RedisFaults \subseteq {"scan", "key", "restore"}

VARIABLES
    store,         \* what the database holds
    writes,        \* how often the application wrote
    scan,          \* the walk of a backup: the page, and its keys not yet taken
    dumped,        \* the map it builds of what DUMP returned
    object,        \* that map as json.Unmarshal will give it back
    replay,        \* the keys a restore has still to put back, and its state
    quiet          \* history: the keys nobody else wrote since the walk, or
                   \* the restore, began

redisVars == <<store, writes, scan, dumped, object, replay, quiet>>

Entry == [value : Values, ttl : BOOLEAN]

RedisTypeOK ==
    /\ store \in [Keys -> Entry \cup {Absent}]
    /\ writes \in 0..MaxWrites
    /\ scan \in [page : 0..Len(KeyPages), left : SUBSET Keys]
    /\ dumped \in [Keys -> Values \cup {NoValue}]
    /\ object \in [Keys -> Values \cup {NoValue, Spoiled}]
    /\ replay \in [state : {"none", "running", "ok", "error"}, left : SUBSET Keys]
    /\ quiet \subseteq Keys

RedisInit ==
    /\ store \in [Keys -> [value : Values, ttl : {FALSE}] \cup {Absent}]
    /\ writes = 0
    /\ scan = [page |-> 0, left |-> {}]
    /\ dumped = [k \in Keys |-> NoValue]
    /\ object = [k \in Keys |-> NoValue]
    /\ replay = [state |-> "none", left |-> {}]
    /\ quiet = {}

-----------------------------------------------------------------------------
(* The application writes a key, removes it, or a time to live ends.       *)
Touch(k) ==
    /\ writes < MaxWrites
    /\ writes' = writes + 1
    /\ store' \in {[store EXCEPT ![k] = e] : e \in (Entry \cup {Absent}) \ {store[k]}}
    /\ quiet' = quiet \ {k}
    /\ UNCHANGED <<scan, dumped, object, replay>>

-----------------------------------------------------------------------------
(* Backup.  It walks the database the client is connected to, whatever the *)
(* name it is called with.                                                 *)
ScanBegins ==
    /\ scan' = [page |-> 0, left |-> {}]
    /\ dumped' = [k \in Keys |-> NoValue]
    /\ quiet' = Keys
    /\ UNCHANGED <<store, writes, object, replay>>

(* Mistaken variant: the walk ends one call early. *)
LastPageMissed == scan.page + 1 >= Len(KeyPages)

LastPage == scan.page = Len(KeyPages)

ScanPage ==
    /\ ~LastPage
    /\ scan.left = {}
    /\ scan' = [page |-> scan.page + 1,
                left |-> {k \in KeyPages[scan.page + 1] : store[k] # Absent}]
    /\ UNCHANGED <<store, writes, dumped, object, replay, quiet>>

(* A key that is gone by now is passed over ... *)
DumpKey(k) ==
    /\ k \in scan.left
    /\ scan' = [scan EXCEPT !.left = @ \ {k}]
    /\ dumped' = IF store[k] = Absent THEN dumped
                 ELSE [dumped EXCEPT ![k] = store[k].value]
    /\ UNCHANGED <<store, writes, object, replay, quiet>>

(* ... and so is a key that could not be read.                             *)
DumpKeyFails(k) ==
    /\ "key" \in RedisFaults
    /\ k \in scan.left
    /\ scan' = [scan EXCEPT !.left = @ \ {k}]
    /\ UNCHANGED <<store, writes, dumped, object, replay, quiet>>

ScanStep == ScanPage \/ \E k \in Keys : DumpKey(k) \/ DumpKeyFails(k)

ScanEnded == LastPage /\ scan.left = {}

(* json.Marshal puts U+FFFD for every byte that is not UTF-8, and          *)
(* json.Unmarshal cannot tell.                                             *)
Marshalled(v) == IF v \in Utf8 \cup {NoValue} THEN v ELSE Spoiled

(* The object is written, as a whole, when the walk has ended. *)
MarshalDump ==
    /\ ScanEnded
    /\ object' = [k \in Keys |-> Marshalled(dumped[k])]
    /\ UNCHANGED <<store, writes, scan, dumped, replay, quiet>>

-----------------------------------------------------------------------------
(* Restore of the object, key by key in any order, up to the first error.  *)
(* Keys the dump does not have stay.                                       *)
ReplayBegins ==
    /\ replay.state # "running"
    /\ replay' = [state |-> "running", left |-> {k \in Keys : object[k] # NoValue}]
    /\ quiet' = Keys
    /\ UNCHANGED <<store, writes, scan, dumped, object>>

(* Mistaken variant: a key that is there is left alone. *)
RestoreMissing(k) ==
    IF store[k] = Absent THEN [value |-> object[k], ttl |-> FALSE] ELSE store[k]

(* RestoreReplace with a time to live of 0: none.                          *)
RestoreReplace(k) == [value |-> object[k], ttl |-> FALSE]

ReplayKey(k) ==
    /\ replay.state = "running"
    /\ k \in replay.left
    /\ object[k] # Spoiled
    /\ store' = [store EXCEPT ![k] = RestoreReplace(k)]
    /\ replay' = [replay EXCEPT !.left = @ \ {k}]
    /\ UNCHANGED <<writes, scan, dumped, object, quiet>>

(* Redis refuses a payload whose checksum is wrong, and the restore ends.  *)
ReplayRefused(k) ==
    /\ replay.state = "running"
    /\ k \in replay.left
    /\ object[k] = Spoiled
    /\ replay' = [state |-> "error", left |-> {}]
    /\ UNCHANGED <<store, writes, scan, dumped, object, quiet>>

ReplayEnds ==
    /\ replay.state = "running"
    /\ \/ replay.left = {} /\ replay' = [replay EXCEPT !.state = "ok"]
       \/ "restore" \in RedisFaults /\ replay' = [state |-> "error", left |-> {}]
    /\ UNCHANGED <<store, writes, scan, dumped, object, quiet>>

ReplayStep == ReplayEnds \/ \E k \in Keys : ReplayKey(k) \/ ReplayRefused(k)
=============================================================================
