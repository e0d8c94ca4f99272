---------------------------- MODULE MCLockTable ----------------------------
(* LockTable and its deadlock search under arbitrary callers: one row,     *)
(* three versions.                                                         *)
EXTENDS DeadlockSearch
=============================================================================
