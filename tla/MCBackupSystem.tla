--------------------------- MODULE MCBackupSystem ---------------------------
(***************************************************************************)
(* Small instances of BackupSystem for TLC.                                *)
(***************************************************************************)
EXTENDS BackupSystem

CONSTANTS sql, pg                      \* a SQL Server and a PostgreSQL database
CONSTANTS b1, b2, s1, s2, u1           \* goroutines
=============================================================================
