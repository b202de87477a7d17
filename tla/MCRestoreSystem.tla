-------------------------- MODULE MCRestoreSystem --------------------------
(***************************************************************************)
(* Small instances of RestoreSystem for TLC.                               *)
(***************************************************************************)
EXTENDS RestoreSystem

CONSTANTS sql, sql2, pg                \* two SQL Server databases and another
CONSTANTS b1, b2, r1, u1               \* goroutines
=============================================================================
