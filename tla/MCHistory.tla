------------------------------- MODULE MCHistory -------------------------------
(* History with one open task and chains of one incremental backup. *)
EXTENDS History
=============================================================================
