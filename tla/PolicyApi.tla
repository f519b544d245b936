------------------------------- MODULE PolicyApi -------------------------------
(***************************************************************************)
(* staffeln-api in Cinder's policy for "backup:delete": a project asks     *)
(* Cinder to delete a backup, Cinder asks the API, the API looks the       *)
(* backup up in backup_data, and Cinder goes on with the answer.  These    *)
(* steps interleave with the life of the backup: the worker that polls it, *)
(* the timeout, and the rotation job that has it deleted in the end; and   *)
(* with outages of the database, which /v1/health is to notice.            *)
(***************************************************************************)
EXTENDS Naturals

CONSTANTS
  Request,  \* the requests of the project to delete the backup
  Faults    \* what may fail, a subset of FaultKinds

\* The database cannot be read; Cinder refuses or fails a deletion of staffeln's.
FaultKinds == {"db", "delete"}

VARIABLES
  backup,    \* the status of the backup in Cinder
  task,      \* the status of its row of queue_data
  recorded,  \* it has a row in backup_data
  request,   \* where each request is
  marked,    \* the requests made when the backup was recorded
  blind,     \* the requests answered while the database could not be read
  up,        \* the API can read the database
  probe      \* a health check: none, asked, or its answer

vars     == <<backup, task, recorded, request, marked, blind, up, probe>>
staffeln == <<task, recorded>>
requests == <<request, marked, blind>>
service  == <<up, probe>>

TypeOK ==
  /\ backup \in {"creating", "available", "error", "deleting", "gone"}
  /\ task \in {"WIP", "COMPLETED", "FAILED", "GONE"}
  /\ recorded \in BOOLEAN
  /\ request \in [Request -> {"none", "asked", "allowed", "done"}]
  /\ marked \subseteq Request /\ blind \subseteq Request
  /\ up \in BOOLEAN /\ probe \in {"none", "asked", "True"}

Init ==
  /\ backup = "creating" /\ task = "WIP" /\ recorded = FALSE
  /\ request = [r \in Request |-> "none"] /\ marked = {} /\ blind = {}
  /\ up = TRUE /\ probe = "none"

-----------------------------------------------------------------------------
(* Requests of the project, through Cinder and the API.                    *)

Ask(r) ==
  /\ request[r] = "none" /\ backup # "gone"
  /\ request' = [request EXCEPT ![r] = "asked"]
  /\ marked' = IF recorded THEN marked \cup {r} ELSE marked
  /\ UNCHANGED <<backup, staffeln, blind, service>>

\* get_backup_by_backup_id: what the query raises is logged, and the result is
\* None as for a backup that has no row.
Found == recorded /\ up

\* POST /v1/backup: "True", which allows the deletion, when there is no row.
BackupId(r) ==
  /\ request[r] = "asked"
  /\ request' = [request EXCEPT ![r] = IF Found THEN "done" ELSE "allowed"]
  /\ blind' = IF up THEN blind ELSE blind \cup {r}
  /\ UNCHANGED <<backup, staffeln, marked, service>>

CinderTakes(r) ==
  /\ request[r] = "allowed" /\ request' = [request EXCEPT ![r] = "done"]
  /\ backup' = IF backup \in {"available", "error"} THEN "deleting" ELSE backup
  /\ UNCHANGED <<staffeln, marked, blind, service>>

Outage == "db" \in Faults /\ up' = ~up /\ UNCHANGED <<backup, staffeln, requests, probe>>

AskHealth ==
  /\ probe # "asked" /\ probe' = "asked"
  /\ UNCHANGED <<backup, staffeln, requests, up>>

\* GET /v1/health: the result of the query is not looked at, and its exception
\* does not get out of get_backup_by_backup_id.
Health ==
  /\ probe = "asked" /\ probe' = "True"
  /\ UNCHANGED <<backup, staffeln, requests, up>>

-----------------------------------------------------------------------------
(* The life of the backup.                                                 *)

CinderWorks ==
  /\ \/ backup = "creating" /\ backup' \in {"available", "error"}
     \/ backup = "deleting" /\ backup' = "gone"
     \/ backup = "deleting" /\ "delete" \in Faults /\ backup' = "error"
  /\ UNCHANGED <<staffeln, requests, service>>

\* process_available_backup and process_using_backup insert the row first.
Record ==
  /\ task = "WIP" /\ ~recorded /\ backup \in {"available", "deleting"}
  /\ recorded' = TRUE
  /\ UNCHANGED <<backup, task, requests, service>>

Complete ==
  /\ task = "WIP" /\ recorded /\ task' = "COMPLETED"
  /\ UNCHANGED <<backup, recorded, requests, service>>

\* process_failed_backup, or hard_cancel_backup_task at any time: the backup is
\* deleted and recorded, or neither.
GiveUp ==
  /\ task = "WIP" /\ ~recorded /\ backup # "gone" /\ task' = "FAILED"
  /\ \/ backup' = "deleting" /\ recorded' = TRUE
     \/ "delete" \in Faults /\ UNCHANGED <<backup, recorded>>
  /\ UNCHANGED <<requests, service>>

\* process_non_existing_backup.
Lose ==
  /\ task = "WIP" /\ ~recorded /\ backup = "gone" /\ task' = "GONE"
  /\ UNCHANGED <<backup, recorded, requests, service>>

\* publish_backup_result purges the closed task.
Purge ==
  /\ task \in {"COMPLETED", "FAILED"} /\ task' = "GONE"
  /\ UNCHANGED <<backup, recorded, requests, service>>

\* hard_remove_volume_backup once the retention has passed.
Expire ==
  /\ recorded /\ backup # "gone"
  /\ \/ backup' = "deleting"
     \/ "delete" \in Faults /\ UNCHANGED backup
  /\ UNCHANGED <<staffeln, requests, service>>

\* Mutant of Forget: the row goes with the request to delete the backup.
ForgetEarly ==
  /\ recorded /\ backup # "gone" /\ recorded' = FALSE
  /\ \/ backup' = "deleting"
     \/ "delete" \in Faults /\ UNCHANGED backup
  /\ UNCHANGED <<task, requests, service>>

Forget ==
  /\ recorded /\ backup = "gone" /\ recorded' = FALSE
  /\ UNCHANGED <<backup, task, requests, service>>

Next ==
  \/ CinderWorks \/ Record \/ Complete \/ GiveUp \/ Lose \/ Purge \/ Expire
  \/ Forget \/ Outage \/ AskHealth \/ Health
  \/ \E r \in Request : Ask(r) \/ BackupId(r) \/ CinderTakes(r)

Spec == Init /\ [][Next]_vars

-----------------------------------------------------------------------------
Deletes(r) ==
  /\ request[r] = "allowed" /\ request'[r] = "done"
  /\ backup # "deleting" /\ backup' = "deleting"

\* README.md:154 "if thr API returns False, then only a admin is allowed to
\* delete": a request made when the backup has its record never deletes it,
\* however long the request takes and whatever becomes of the record meanwhile,
\* unless it was answered during an outage.
KeptOnceRecorded == [][\A r \in marked \ blind : ~Deletes(r)]_vars

\* The invariant behind it: a marked backup loses its record only once it is
\* gone from Cinder, so that an answer that allows its deletion comes too late.
Inductive ==
  /\ TypeOK
  /\ \A r \in marked \ blind :
       /\ request[r] # "none"
       /\ request[r] = "asked" => recorded \/ backup = "gone"
       /\ request[r] = "allowed" => backup = "gone"
  /\ \A r \in blind : request[r] \in {"allowed", "done"}

\* app.py:41 "Make sure API service can access to DB with no error".
HealthIsTrue == [][probe = "asked" /\ probe' = "True" => up]_vars

\* README.md:144 "make sure all Cinder volume backups are deleted only when that
\* backup is not marked by Staffeln".
KeptWhileMarked ==
  [][\A r \in Request : Deletes(r) => ~recorded /\ task # "WIP"]_vars
=============================================================================
