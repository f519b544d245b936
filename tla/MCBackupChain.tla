----------------------------- MODULE MCBackupChain -----------------------------
(* BackupChain with two rows, so that a second task can be open. *)
EXTENDS BackupChain

West == -1
=============================================================================
