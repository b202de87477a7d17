---------------------------- MODULE MCSelfBackup ----------------------------
(* Small instances of SelfBackup: two hosts, whose names begin alike or    *)
(* not, with windows of one and two half days.                             *)
EXTENDS SelfBackup, TLC

CONSTANTS srv, srv2

Distinct == {<<h, h>> : h \in Hosts}
Alike == Distinct \cup {<<srv, srv2>>}
Windows == [h \in Hosts |-> IF h = srv THEN 1 ELSE 2]
=============================================================================
