--------------------------- MODULE VerifiedFulls ---------------------------
(***************************************************************************)
(* What the application promises about the full backups of a SQL Server    *)
(* database, whatever its goroutines do: fulls come and are retired one at *)
(* a time, and a full is retired only while two newer ones can be          *)
(* restored.  A database that once had two restorable fulls never has      *)
(* fewer, and never loses its two newest.                                  *)
(***************************************************************************)
EXTENDS Integers

CONSTANTS
    Dbs,           \* the databases
    Ids            \* the fulls, numbered by age

VARIABLE fulls     \* fulls[d]: the restorable full backups of d

Init == fulls = [d \in Dbs |-> {}]

Complete(d, i) == fulls' = [fulls EXCEPT ![d] = @ \cup {i}]

Retire(d, i) ==
    /\ \E j, k \in fulls[d] : j # k /\ i < j /\ i < k
    /\ fulls' = [fulls EXCEPT ![d] = @ \ {i}]

Next == \E d \in Dbs, i \in Ids : Complete(d, i) \/ Retire(d, i)

Spec == Init /\ [][Next]_fulls
=============================================================================
