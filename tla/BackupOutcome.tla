---------------------------- MODULE BackupOutcome ----------------------------
(***************************************************************************)
(* What a run of an instance promises of each of its databases: a record   *)
(* that says Completed has an object that holds the whole dump, one that   *)
(* says Failed has none, and neither is ever taken back.                   *)
(***************************************************************************)
CONSTANT Databases

VARIABLES
    status,        \* of the record of each database
    stored         \* what its object holds

vars == <<status, stored>>

Init ==
    /\ status = [d \in Databases |-> "none"]
    /\ stored = [d \in Databases |-> "nothing"]

Begin(d) ==
    /\ status[d] = "none"
    /\ status' = [status EXCEPT ![d] = "running"]
    /\ UNCHANGED stored

Store(d) ==
    /\ status[d] = "running"
    /\ stored[d] = "nothing"
    /\ \E what \in {"part", "whole"} : stored' = [stored EXCEPT ![d] = what]
    /\ UNCHANGED status

Remove(d) ==
    /\ status[d] = "running"
    /\ stored' = [stored EXCEPT ![d] = "nothing"]
    /\ UNCHANGED status

Complete(d) ==
    /\ status[d] = "running"
    /\ stored[d] = "whole"
    /\ status' = [status EXCEPT ![d] = "completed"]
    /\ UNCHANGED stored

Fail(d) ==
    /\ status[d] = "running"
    /\ stored[d] = "nothing"
    /\ status' = [status EXCEPT ![d] = "failed"]
    /\ UNCHANGED stored

Next ==
    \E d \in Databases : Begin(d) \/ Store(d) \/ Remove(d) \/ Complete(d) \/ Fail(d)

Spec == Init /\ [][Next]_vars
=============================================================================
