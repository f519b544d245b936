----------------------------- MODULE MCConductor -----------------------------
(* Values of Conductor's constants for TLC. *)
EXTENDS Conductor, TLC

CONSTANTS v1, v2, s1, s2, proj1

OneProject == [v \in Volume |-> proj1]

\* The surveys can find the volume to be due for a full backup.
FullOnly ==
  [server: {s1}, volume: Volume, status: {"PLANNED"}, incremental: {FALSE}]

\* ... for either kind of backup, or in a status that fails it right away.
AnyKind ==
  FullOnly \cup
  [server: {s1}, volume: Volume, status: {"PLANNED"}, incremental: {TRUE}] \cup
  [server: {s1}, volume: Volume, status: {"FAILED"}, incremental: {FALSE}]

\* ... for an incremental backup.
IncrementalOnly ==
  [server: {s1}, volume: Volume, status: {"PLANNED"}, incremental: {TRUE}]
=============================================================================
