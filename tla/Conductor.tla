------------------------------ MODULE Conductor ------------------------------
(***************************************************************************)
(* The backup workers of staffeln-conductor (BackupManager in              *)
(* conductor/manager.py driving Backup in conductor/backup.py): several    *)
(* processes run the same periodic job over one queue_data table, take a   *)
(* non-blocking lock per volume, call Cinder and insert into backup_data.  *)
(*                                                                         *)
(* One action is one call on shared state (a query, a save, a Cinder       *)
(* request, a lock operation), because every other worker can run between  *)
(* two of them.  An exception that the code does not catch unwinds the     *)
(* whole cycle and releases the locks on its way: that is Abort.           *)
(***************************************************************************)
EXTENDS Naturals, FiniteSets

CONSTANTS
  Conductor,   \* the BackupManager workers
  Server,      \* instances that have volumes attached
  Volume,      \* Cinder volumes
  Project,     \* OpenStack projects
  ProjectOf,   \* the project of each volume
  Candidate,   \* the QueueMapping entries a survey of the servers can return
  Veterans,    \* the workers that have already listed the projects initially
  Faults,      \* which failures may happen, a subset of FaultKinds
  MaxTasks,    \* bound: rows ever inserted in queue_data
  MaxBackups,  \* bound: backups ever created in Cinder
  Free,        \* nobody holds the lock
  Orphan,      \* the holder crashed and the lock has not expired yet
  NULL         \* the string "NULL" of a backup_id that is not set

Task   == 1 .. MaxTasks
Backup == 1 .. MaxBackups

FaultKinds == {"crash", "lease", "create", "lost", "status", "delete"}

QueueMapping ==
  [server: Server, volume: Volume, status: {"PLANNED", "FAILED"},
   incremental: BOOLEAN]

ASSUME ConductorAssumption ==
  /\ ProjectOf \in [Volume -> Project]
  /\ Candidate \subseteq QueueMapping
  /\ Veterans \subseteq Conductor
  /\ Faults \subseteq FaultKinds
  /\ MaxTasks \in Nat /\ MaxBackups \in Nat /\ MaxTasks <= MaxBackups
  /\ Free \notin Conductor /\ Orphan \notin Conductor /\ Free # Orphan
  /\ NULL \notin Backup /\ NULL \notin Volume

VARIABLES
  queue,    \* queue_data: one row per task id
  record,   \* backup_data: backup_completed per backup_id (unique)
  cinder,   \* what Cinder knows of each backup
  lock,     \* the lock of each volume
  puller,   \* the lock named PULLER
  role,     \* puller.acquired: the worker runs this cycle as the puller
  pc,       \* where each worker is in backup_tasks
  list,     \* the rows its current for-loop has still to visit
  cur,      \* the row in hand, 0 when none
  old,      \* volumes of the old tasks read by _update_task_queue
  plan,     \* queues_map, the entries create_queue has still to insert
  made,     \* the backup whose id is not saved yet
  known,    \* Backup.project_list
  expired   \* the cycle timeout of _process_wip_tasks has passed

tables == <<queue, record>>
locks  == <<lock, puller>>
locals == <<list, cur, old, plan, made, known, expired, role>>
vars   == <<queue, record, cinder, lock, puller, pc, list, cur, old, plan,
            made, known, expired, role>>

-----------------------------------------------------------------------------
(* Data.                                                                   *)

\* UNUSED is an id not allocated yet and GONE a deleted row.  A deleted row
\* keeps its other fields: workers that listed it still hold them.
Status == {"UNUSED", "PLANNED", "INIT", "WIP", "COMPLETED", "FAILED", "GONE"}

Row == [status: Status, volume: Volume \cup {NULL},
        backup: Backup \cup {NULL}, incremental: BOOLEAN]

UnusedRow == [status |-> "UNUSED", volume |-> NULL, backup |-> NULL,
              incremental |-> FALSE]

CinderStatus == {"absent", "creating", "available", "error", "deleting", "gone"}

TodoHeld  == {"claimRead", "claimSave", "create", "saveWip", "todoUnlock"}
WipHeld   == {"check", "record", "saveDone", "failDelete", "failRecord",
              "failSave", "wipUnlock"}
WipLoop   == WipHeld \cup {"wip", "cancel", "cancelDelete", "cancelRecord",
                           "cancelSave"}
PullerPcs == {"readWip", "readPlanned", "survey", "enqueue", "report"}
Pcs       == {"idle", "down", "listTodo", "todo", "listWip", "endCycle"}
             \cup PullerPcs \cup TodoHeld \cup WipLoop

TypeOK ==
  /\ queue   \in [Task -> Row]
  /\ record  \in [Backup -> {"none", "completed", "failed"}]
  /\ cinder  \in [Backup -> [status: CinderStatus, task: Task \cup {0}]]
  /\ lock    \in [Volume -> Conductor \cup {Free, Orphan}]
  /\ puller  \in Conductor \cup {Free, Orphan}
  /\ pc      \in [Conductor -> Pcs]
  /\ list    \in [Conductor -> SUBSET Task]
  /\ cur     \in [Conductor -> Task \cup {0}]
  /\ old     \in [Conductor -> SUBSET Volume]
  /\ plan    \in [Conductor -> SUBSET Candidate]
  /\ made    \in [Conductor -> Backup \cup {NULL}]
  /\ known   \in [Conductor -> SUBSET Project]
  /\ expired \in [Conductor -> BOOLEAN]
  /\ role    \in [Conductor -> BOOLEAN]

InStatus(s)  == {t \in Task : queue[t].status = s}
VolumeOf(t)  == queue[t].volume
BackupOf(t)  == queue[t].backup

VolumesIn(s) == {VolumeOf(t) : t \in InStatus(s)}
Exists(t)    == queue[t].status # "GONE"
Knows(p, t)  == ProjectOf[VolumeOf(t)] \in known[p]

\* Lists come ordered by id: t is the next row of p's for-loop.
IsNext(p, t) == t \in list[p] /\ \A u \in list[p] : t <= u

Init ==
  /\ queue   = [t \in Task |-> UnusedRow]
  /\ record  = [b \in Backup |-> "none"]
  /\ cinder  = [b \in Backup |-> [status |-> "absent", task |-> 0]]
  /\ lock    = [v \in Volume |-> Free]
  /\ puller  = Free
  /\ pc      = [p \in Conductor |-> "idle"]
  /\ list    = [p \in Conductor |-> {}]
  /\ cur     = [p \in Conductor |-> 0]
  /\ old     = [p \in Conductor |-> {}]
  /\ plan    = [p \in Conductor |-> {}]
  /\ made    = [p \in Conductor |-> NULL]
  /\ known   = [p \in Conductor |-> IF p \in Veterans THEN Project ELSE {}]
  /\ expired = [p \in Conductor |-> FALSE]
  /\ role    = [p \in Conductor |-> FALSE]

-----------------------------------------------------------------------------
(* Pieces of steps.                                                        *)

At(p, where)   == pc[p] = where
Goto(p, where) == pc' = [pc EXCEPT ![p] = where]

SetStatus(t, s) == queue' = [queue EXCEPT ![t].status = s]
DeleteRow(t)    == SetStatus(t, "GONE")

\* The locks a worker leaves behind when its with-blocks are exited, or when
\* it dies inside them.
LeaveLocks(p, owner) ==
  /\ lock' = [v \in Volume |-> IF lock[v] = p THEN owner ELSE lock[v]]
  /\ puller' = IF puller = p THEN owner ELSE puller

ClearLocals(p) ==
  /\ list' = [list EXCEPT ![p] = {}]
  /\ cur' = [cur EXCEPT ![p] = 0]
  /\ old' = [old EXCEPT ![p] = {}]
  /\ plan' = [plan EXCEPT ![p] = {}]
  /\ made' = [made EXCEPT ![p] = NULL]
  /\ expired' = [expired EXCEPT ![p] = FALSE]
  /\ role' = [role EXCEPT ![p] = FALSE]

\* The cycle is over, normally or by an uncaught exception: the locks are
\* released on the way out and the periodic worker will call the job again.
Unwind(p) == Goto(p, "idle") /\ LeaveLocks(p, Free) /\ ClearLocals(p)

\* Mutant of Abort: the next run of the job starts with an empty project_list.
AbortForgets(p) == Unwind(p) /\ known' = [known EXCEPT ![p] = {}]

Abort(p) == Unwind(p) /\ UNCHANGED known

\* Start a for-loop over the rows of S.
Loop(p, S) == list' = [list EXCEPT ![p] = S]
              /\ UNCHANGED <<cur, old, plan, made, known, expired, role>>

\* The loop moves past row t, with t in hand or not.
Take(p, t) == /\ list' = [list EXCEPT ![p] = @ \ {t}]
              /\ cur' = [cur EXCEPT ![p] = t]
              /\ UNCHANGED <<old, plan, made, known, expired, role>>
Skip(p, t) == Loop(p, list[p] \ {t})
Drop(p)    == cur' = [cur EXCEPT ![p] = 0]
              /\ UNCHANGED <<list, old, plan, made, known, expired, role>>

\* Mutant of Save: the update inserts the row again when it is gone.
SaveAnyway(p, t, s, next) ==
  SetStatus(t, s) /\ Goto(p, next) /\ UNCHANGED <<record, locks, locals>>

\* Mutant of Insert: the duplicate is logged and the caller goes on.
InsertOnce(p, b, completed, next) ==
  /\ record' = [record EXCEPT ![b] = IF @ = "none" THEN completed ELSE @]
  /\ Goto(p, next) /\ UNCHANGED <<queue, locks, locals>>

\* save() of a row that no longer exists gets None back from update_queue
\* and raises; create_backup() of a backup_id that is already recorded logs
\* the duplicate and then raises on the unbound result.
Save(p, t, s, next) ==
  \/ /\ Exists(t) /\ SetStatus(t, s) /\ Goto(p, next)
     /\ UNCHANGED <<record, locks, locals>>
  \/ /\ ~Exists(t) /\ Abort(p) /\ UNCHANGED tables

Insert(p, b, completed, next) ==
  \/ /\ record[b] = "none" /\ record' = [record EXCEPT ![b] = completed]
     /\ Goto(p, next) /\ UNCHANGED <<queue, locks, locals>>
  \/ /\ record[b] # "none" /\ Abort(p) /\ UNCHANGED tables

-----------------------------------------------------------------------------
(* backup_tasks and _update_task_queue.                                    *)

StartCycle(p) ==
  /\ At(p, "idle")
  /\ role' = [role EXCEPT ![p] = (puller = Free)]
  /\ IF puller = Free THEN puller' = p /\ Goto(p, "readWip")
                      ELSE UNCHANGED puller /\ Goto(p, "listTodo")
  /\ UNCHANGED <<tables, cinder, lock, list, cur, old, plan, made, known, expired>>

ReadWip(p) ==
  /\ At(p, "readWip")
  /\ old' = [old EXCEPT ![p] = VolumesIn("WIP")]
  /\ Goto(p, "readPlanned")
  /\ UNCHANGED <<tables, cinder, locks, list, cur, plan, made, known, expired, role>>

ReadPlanned(p) ==
  /\ At(p, "readPlanned")
  /\ old' = [old EXCEPT ![p] = @ \cup VolumesIn("PLANNED")]
  /\ Goto(p, "survey")
  /\ UNCHANGED <<tables, cinder, locks, list, cur, plan, made, known, expired, role>>

\* The rows that the plans of all workers are going to take.
Promised == UNION {{q} \X plan[q] : q \in Conductor}

\* check_instance_volumes: what the servers, the volume statuses and the
\* backup history make of each attachment is an input.
Survey(p) ==
  /\ At(p, "survey")
  /\ \E listed \in SUBSET Project, found \in SUBSET Candidate :
       /\ \A m \in found : ProjectOf[m.volume] \in listed
       /\ \A x, y \in found :
            x.server = y.server /\ x.volume = y.volume => x = y
       /\ Cardinality(found) + Cardinality(Promised) <= Cardinality(InStatus("UNUSED"))
       /\ plan' = [plan EXCEPT ![p] = {m \in found : m.volume \notin old[p]}]
       /\ known' = [known EXCEPT ![p] = @ \cup listed]
  /\ Goto(p, "enqueue")
  /\ UNCHANGED <<tables, cinder, locks, list, cur, old, made, expired, role>>

\* get_projects, get_volume or a page of the list of servers fails: the
\* exception is not caught, and the projects visited so far stay in
\* project_list.
SurveyRaises(p) ==
  /\ At(p, "survey") /\ "status" \in Faults
  /\ Unwind(p)
  /\ \E listed \in SUBSET Project : known' = [known EXCEPT ![p] = @ \cup listed]
  /\ UNCHANGED <<tables, cinder>>

Enqueue(p) ==
  /\ At(p, "enqueue")
  /\ \/ \E m \in plan[p], t \in InStatus("UNUSED") :
          /\ \A u \in InStatus("UNUSED") : t <= u
          /\ queue' = [queue EXCEPT ![t] =
                         [status |-> m.status, volume |-> m.volume,
                          backup |-> NULL, incremental |-> m.incremental]]
          /\ plan' = [plan EXCEPT ![p] = @ \ {m}]
          /\ UNCHANGED <<old, pc>>
     \/ /\ plan[p] = {}
        /\ old' = [old EXCEPT ![p] = {}]
        /\ Goto(p, "listTodo")
        /\ UNCHANGED <<queue, plan>>
  /\ UNCHANGED <<record, cinder, locks, list, cur, made, known, expired, role>>

-----------------------------------------------------------------------------
(* _process_todo_tasks and create_volume_backup.                           *)

ListTodo(p) ==
  /\ At(p, "listTodo") /\ Loop(p, InStatus("PLANNED")) /\ Goto(p, "todo")
  /\ UNCHANGED <<tables, cinder, locks>>

\* Mutant of LockNext: acquired is not looked at.
LockNextAnyway(p, held) ==
  \E t \in list[p] :
    /\ IsNext(p, t) /\ Take(p, t) /\ Goto(p, held)
    /\ lock' = [lock EXCEPT ![VolumeOf(t)] = IF @ = Free THEN p ELSE @]
    /\ UNCHANGED <<tables, cinder, puller>>

\* Take the next row of the list and try the lock of its volume.
LockNext(p, held) ==
  \E t \in list[p] :
    /\ IsNext(p, t)
    /\ IF lock[VolumeOf(t)] = Free
         THEN /\ lock' = [lock EXCEPT ![VolumeOf(t)] = p]
              /\ Take(p, t) /\ Goto(p, held)
         ELSE Skip(p, t) /\ UNCHANGED <<lock, pc>>
    /\ UNCHANGED <<tables, cinder, puller>>

Unlock(p, next) ==
  /\ lock' = [lock EXCEPT ![VolumeOf(cur[p])] = Free]
  /\ Drop(p) /\ Goto(p, next)
  /\ UNCHANGED <<tables, cinder, puller>>

TodoLock(p)   == At(p, "todo") /\ LockNext(p, "claimRead")
TodoUnlock(p) == At(p, "todoUnlock") /\ Unlock(p, "todo")

TodoDone(p) ==
  /\ At(p, "todo") /\ list[p] = {} /\ Goto(p, "listWip")
  /\ UNCHANGED <<tables, cinder, locks, locals>>

\* Mutants of ClaimRead: the listed row is trusted; the wrong status is asked.
ClaimUnread(p) ==
  /\ At(p, "claimRead") /\ Goto(p, "claimSave")
  /\ UNCHANGED <<tables, cinder, locks, locals>>
ClaimInit(p) ==
  /\ At(p, "claimRead")
  /\ Goto(p, IF queue[cur[p]].status = "INIT" THEN "claimSave" ELSE "todoUnlock")
  /\ UNCHANGED <<tables, cinder, locks, locals>>

\* get_queue_task_by_id: the row is read again now that the lock is held;
\* reading a row that is gone raises.
ClaimRead(p) ==
  /\ At(p, "claimRead")
  /\ \/ /\ ~Exists(cur[p]) /\ Abort(p)
     \/ /\ Exists(cur[p])
        /\ Goto(p, IF queue[cur[p]].status = "PLANNED"
                     THEN "claimSave" ELSE "todoUnlock")
        /\ UNCHANGED <<locks, locals>>
  /\ UNCHANGED <<tables, cinder>>

ClaimSave(p) ==
  /\ At(p, "claimSave") /\ SetStatus(cur[p], "INIT") /\ Goto(p, "create")
  /\ UNCHANGED <<record, cinder, locks, locals>>

\* Cinder starts a backup for row t and gives it the next id.
CinderCreate(t, b) ==
  /\ cinder[b].status = "absent"
  /\ \A c \in Backup : c < b => cinder[c].status # "absent"
  /\ cinder' = [cinder EXCEPT ![b] = [status |-> "creating", task |-> t]]

CreateUnknownProject(p) ==
  /\ At(p, "create") /\ ~Knows(p, cur[p])
  /\ DeleteRow(cur[p]) /\ Goto(p, "todoUnlock")
  /\ UNCHANGED <<record, cinder, locks, locals>>

CreateOk(p) ==
  /\ At(p, "create") /\ Knows(p, cur[p])
  /\ \E b \in Backup : CinderCreate(cur[p], b)
                       /\ made' = [made EXCEPT ![p] = b]
  /\ Goto(p, "saveWip")
  /\ UNCHANGED <<tables, locks, list, cur, old, plan, known, expired, role>>

\* "No backups available to do an incremental backup": the row becomes a
\* full backup and keeps its status.
CreateNoBase(p) ==
  /\ At(p, "create") /\ Knows(p, cur[p]) /\ queue[cur[p]].incremental
  /\ queue' = [queue EXCEPT ![cur[p]].incremental = FALSE]
  /\ Goto(p, "todoUnlock")
  /\ UNCHANGED <<record, cinder, locks, locals>>

\* Mutant of CreateFailed: the task is planned again to be retried.
CreateRetried(p) ==
  /\ At(p, "create") /\ Knows(p, cur[p])
  /\ \/ "create" \in Faults /\ UNCHANGED cinder
     \/ "lost" \in Faults /\ \E b \in Backup : CinderCreate(cur[p], b)
  /\ SetStatus(cur[p], "PLANNED") /\ Goto(p, "todoUnlock")
  /\ UNCHANGED <<record, locks, locals>>

\* Any other failure, including a response lost after Cinder accepted.
CreateFailed(p) ==
  /\ At(p, "create") /\ Knows(p, cur[p])
  /\ \/ "create" \in Faults /\ UNCHANGED cinder
     \/ "lost" \in Faults /\ \E b \in Backup : CinderCreate(cur[p], b)
  /\ SetStatus(cur[p], "FAILED") /\ Goto(p, "todoUnlock")
  /\ UNCHANGED <<record, locks, locals>>

\* Mutant of SaveWip: the id is saved, the status is not.
SaveWipIdOnly(p) ==
  /\ At(p, "saveWip")
  /\ queue' = [queue EXCEPT ![cur[p]].backup = made[p]]
  /\ made' = [made EXCEPT ![p] = NULL]
  /\ Goto(p, "todoUnlock")
  /\ UNCHANGED <<record, cinder, locks, list, cur, old, plan, known, expired, role>>

SaveWip(p) ==
  /\ At(p, "saveWip")
  /\ queue' = [queue EXCEPT ![cur[p]].status = "WIP",
                            ![cur[p]].backup = made[p]]
  /\ made' = [made EXCEPT ![p] = NULL]
  /\ Goto(p, "todoUnlock")
  /\ UNCHANGED <<record, cinder, locks, list, cur, old, plan, known, expired, role>>

-----------------------------------------------------------------------------
(* _process_wip_tasks and check_volume_backup_status.                      *)

\* Mutants of ListWip: the cycle has no timeout; after it, nothing is cancelled.
ListWipForever(p) ==
  /\ At(p, "listWip") /\ Loop(p, InStatus("WIP"))
  /\ Goto(p, IF InStatus("WIP") # {} THEN "wip"
               ELSE IF role[p] THEN "report" ELSE "endCycle")
  /\ UNCHANGED <<tables, cinder, locks>>
ListWipGivesUp(p) ==
  /\ At(p, "listWip") /\ Loop(p, InStatus("WIP"))
  /\ Goto(p, IF InStatus("WIP") # {} /\ ~expired[p] THEN "wip"
               ELSE IF role[p] THEN "report" ELSE "endCycle")
  /\ UNCHANGED <<tables, cinder, locks>>

ListWip(p) ==
  /\ At(p, "listWip") /\ Loop(p, InStatus("WIP"))
  /\ Goto(p, IF InStatus("WIP") = {}
               THEN IF role[p] THEN "report" ELSE "endCycle"
               ELSE IF expired[p] THEN "cancel" ELSE "wip")
  /\ UNCHANGED <<tables, cinder, locks>>

WipLock(p)   == At(p, "wip") /\ LockNext(p, "check")
WipUnlock(p) == At(p, "wipUnlock") /\ Unlock(p, "wip")

\* The list is done: sleep, then look again.
WipAgain(p) ==
  /\ At(p, "wip") /\ list[p] = {} /\ Goto(p, "listWip")
  /\ UNCHANGED <<tables, cinder, locks, locals>>

\* The row is the one of the list, not read again.
CheckStatus(p) ==
  LET seen == cinder[BackupOf(cur[p])].status IN
  /\ At(p, "check") /\ Knows(p, cur[p]) /\ seen # "gone"
  /\ Goto(p, CASE seen = "error"    -> "failDelete"
               [] seen = "creating" -> "wipUnlock"
               [] OTHER             -> "record")
  /\ UNCHANGED <<tables, cinder, locks, locals>>

CheckNothing(p) ==
  /\ At(p, "check")
  /\ Knows(p, cur[p]) => cinder[BackupOf(cur[p])].status = "gone"
  /\ DeleteRow(cur[p]) /\ Goto(p, "wipUnlock")
  /\ UNCHANGED <<record, cinder, locks, locals>>

CheckRaises(p) ==
  /\ At(p, "check") /\ "status" \in Faults /\ Knows(p, cur[p])
  /\ Abort(p) /\ UNCHANGED <<tables, cinder>>

\* process_available_backup
RecordDone(p) ==
  /\ At(p, "record") /\ Insert(p, BackupOf(cur[p]), "completed", "saveDone")
  /\ UNCHANGED cinder

SaveDone(p) ==
  /\ At(p, "saveDone") /\ Save(p, cur[p], "COMPLETED", "wipUnlock")
  /\ UNCHANGED cinder

\* A delete request Cinder accepts; one for a backup it no longer has is
\* answered 404, which delete_backup swallows.
DeleteAccepted(b) ==
  cinder' = [cinder EXCEPT ![b].status =
               IF @ = "gone" THEN "gone" ELSE "deleting"]

\* Refused, or accepted with the answer lost in every attempt.
DeleteRaises(b) ==
  "delete" \in Faults /\ (UNCHANGED cinder \/ DeleteAccepted(b))

\* process_failed_backup
FailDelete(p) ==
  /\ At(p, "failDelete")
  /\ \/ DeleteAccepted(BackupOf(cur[p])) /\ Goto(p, "failRecord")
     \/ DeleteRaises(BackupOf(cur[p])) /\ Goto(p, "failSave")
  /\ UNCHANGED <<tables, locks, locals>>

FailRecord(p) ==
  /\ At(p, "failRecord") /\ Insert(p, BackupOf(cur[p]), "failed", "failSave")
  /\ UNCHANGED cinder

\* Mutant of FailSave: the task is deleted, since there is nothing more to do.
FailForgets(p) ==
  /\ At(p, "failSave") /\ Save(p, cur[p], "GONE", "wipUnlock")
  /\ UNCHANGED cinder

FailSave(p) ==
  /\ At(p, "failSave") /\ Save(p, cur[p], "FAILED", "wipUnlock")
  /\ UNCHANGED cinder

-----------------------------------------------------------------------------
(* The timeout branch: hard_cancel_backup_task for every listed row,       *)
(* without a lock.                                                         *)

CancelNext(p) ==
  /\ At(p, "cancel")
  /\ \E t \in list[p] :
       /\ IsNext(p, t) /\ Knows(p, t)
       /\ \/ /\ cinder[BackupOf(t)].status # "gone" /\ Take(p, t)
             /\ Goto(p, "cancelDelete") /\ UNCHANGED queue
          \/ /\ cinder[BackupOf(t)].status = "gone" /\ Skip(p, t)
             /\ DeleteRow(t) /\ UNCHANGED pc
          \/ /\ "status" \in Faults /\ Take(p, t)
             /\ Goto(p, "cancelSave") /\ UNCHANGED queue
  /\ UNCHANGED <<record, cinder, locks>>

\* The row of an unknown project is deleted, then project_list[...] raises.
CancelUnknownProject(p) ==
  /\ At(p, "cancel")
  /\ \E t \in list[p] : IsNext(p, t) /\ ~Knows(p, t) /\ DeleteRow(t)
  /\ Abort(p)
  /\ UNCHANGED <<record, cinder>>

\* Mutant of CancelDelete: create_failed_backup_obj is not called.
CancelDeleteOnly(p) ==
  /\ At(p, "cancelDelete")
  /\ DeleteAccepted(BackupOf(cur[p])) \/ DeleteRaises(BackupOf(cur[p]))
  /\ Goto(p, "cancelSave")
  /\ UNCHANGED <<tables, locks, locals>>

CancelDelete(p) ==
  /\ At(p, "cancelDelete")
  /\ \/ DeleteAccepted(BackupOf(cur[p])) /\ Goto(p, "cancelRecord")
     \/ DeleteRaises(BackupOf(cur[p])) /\ Goto(p, "cancelSave")
  /\ UNCHANGED <<tables, locks, locals>>

CancelRecord(p) ==
  /\ At(p, "cancelRecord")
  /\ Insert(p, BackupOf(cur[p]), "failed", "cancelSave")
  /\ UNCHANGED cinder

CancelSave(p) ==
  /\ At(p, "cancelSave") /\ Save(p, cur[p], "FAILED", "cancel")
  /\ UNCHANGED cinder

CancelDone(p) ==
  /\ At(p, "cancel") /\ list[p] = {}
  /\ Goto(p, IF role[p] THEN "report" ELSE "endCycle")
  /\ UNCHANGED <<tables, cinder, locks, locals>>

-----------------------------------------------------------------------------
(* _report_backup_result (in detail in Report.tla) and the end of a cycle. *)

ReportAndPurge(p) ==
  /\ At(p, "report")
  /\ \E reported \in SUBSET Project :
       queue' = [t \in Task |->
                   IF /\ queue[t].status \in {"COMPLETED", "FAILED"}
                      /\ ProjectOf[VolumeOf(t)] \in reported
                     THEN [queue[t] EXCEPT !.status = "GONE"] ELSE queue[t]]
  /\ Goto(p, "endCycle")
  /\ UNCHANGED <<record, cinder, locks, locals>>

EndCycle(p) == At(p, "endCycle") /\ Abort(p) /\ UNCHANGED <<tables, cinder>>

\* Everything worker p does by itself.
Step(p) ==
  \/ StartCycle(p) \/ ReadWip(p) \/ ReadPlanned(p) \/ Survey(p)
  \/ SurveyRaises(p) \/ Enqueue(p)
  \/ ListTodo(p) \/ TodoLock(p) \/ TodoUnlock(p) \/ TodoDone(p)
  \/ ClaimRead(p) \/ ClaimSave(p) \/ CreateUnknownProject(p) \/ CreateOk(p)
  \/ CreateNoBase(p) \/ CreateFailed(p) \/ SaveWip(p)
  \/ ListWip(p) \/ WipLock(p) \/ WipUnlock(p) \/ WipAgain(p)
  \/ CheckStatus(p) \/ CheckNothing(p) \/ CheckRaises(p)
  \/ RecordDone(p) \/ SaveDone(p) \/ FailDelete(p) \/ FailRecord(p)
  \/ FailSave(p)
  \/ CancelNext(p) \/ CancelUnknownProject(p) \/ CancelDelete(p)
  \/ CancelRecord(p) \/ CancelSave(p) \/ CancelDone(p)
  \/ ReportAndPurge(p) \/ EndCycle(p)

\* backup_cycle_timout passes while p waits for its backups.
Timeout(p) ==
  /\ pc[p] \in {"listWip", "wip"} \cup WipHeld /\ ~expired[p]
  /\ expired' = [expired EXCEPT ![p] = TRUE]
  /\ UNCHANGED <<tables, cinder, locks, pc, list, cur, old, plan, made, known, role>>

\* A worker dies; its locks stay taken until the backend expires them.
Crash(p) ==
  /\ "crash" \in Faults /\ pc[p] # "down"
  /\ Goto(p, "down") /\ LeaveLocks(p, Orphan) /\ ClearLocals(p)
  /\ known' = [known EXCEPT ![p] = {}]
  /\ UNCHANGED <<tables, cinder>>

Restart(p) ==
  /\ At(p, "down") /\ Goto(p, "idle")
  /\ UNCHANGED <<tables, cinder, locks, locals>>

\* A lease that a dead worker left runs out.  So does ("lease") the one on
\* PULLER of a live worker: it is held for the whole cycle, which waits for
\* the backups, and never renewed, and its holder does not notice.  Volume
\* locks are held for a few calls and outlive them.
Expire ==
  /\ \/ \E v \in Volume : /\ lock[v] = Orphan
                          /\ lock' = [lock EXCEPT ![v] = Free]
                          /\ UNCHANGED puller
     \/ puller = Orphan /\ puller' = Free /\ UNCHANGED lock
     \/ /\ "lease" \in Faults /\ puller \in Conductor
        /\ puller' = Free /\ UNCHANGED lock
  /\ UNCHANGED <<tables, cinder, pc, locals>>

\* Cinder finishes a backup, or finishes deleting one.
CinderWork(b) ==
  /\ \E s \in CinderStatus :
       /\ \/ cinder[b].status = "creating" /\ s \in {"available", "error"}
          \/ cinder[b].status = "deleting" /\ s = "gone"
       /\ cinder' = [cinder EXCEPT ![b].status = s]
  /\ UNCHANGED <<tables, locks, pc, locals>>

Next ==
  \/ \E p \in Conductor : Step(p) \/ Timeout(p) \/ Crash(p) \/ Restart(p)
  \/ Expire
  \/ \E b \in Backup : CinderWork(b)

Spec == Init /\ [][Next]_vars

\* Workers keep running, the periodic job is called again after each run,
\* crashed workers are restarted, time passes and leases expire.  Nothing is
\* assumed of Cinder.
Fairness ==
  /\ \A p \in Conductor :
       WF_vars(Step(p)) /\ WF_vars(Timeout(p)) /\ WF_vars(Restart(p))
  /\ WF_vars(Expire)

FairSpec == Spec /\ Fairness

\* The same with a Cinder that finishes whatever it starts.
CooperativeSpec == FairSpec /\ \A b \in Backup : WF_vars(CinderWork(b))

-----------------------------------------------------------------------------
(* Safety.                                                                 *)

\* README.md:21 "only one of the Staffeln conductor service will be able to
\* pick up that task at the same time": however the workers interleave, and
\* whatever fails or crashes, a task makes Cinder start one backup at most.
OneBackupPerTask ==
  \A b, c \in Backup :
    cinder[b].task # 0 /\ cinder[b].task = cinder[c].task => b = c

\* process_available_backup inserts in backup_data before it closes the task:
\* a task reported as completed has a completed backup on record, although
\* process_failed_backup and hard_cancel_backup_task of other workers insert
\* records of failed backups for the same ids.
CompletedIsRecorded ==
  \A t \in InStatus("COMPLETED") :
    BackupOf(t) \in Backup /\ record[BackupOf(t)] = "completed"

\* Retention only sees backup_data, so while nothing fails every backup that
\* still exists in Cinder is in hand, in an open task, or recorded.
BackupsAccountedFor ==
  \A b \in Backup :
    \/ cinder[b].status \in {"absent", "gone"}
    \/ \E p \in Conductor : made[p] = b
    \/ \E t \in InStatus("WIP") : BackupOf(t) = b
    \/ record[b] # "none"

\* A backup that Cinder made without the worker getting to know, or refuses to
\* delete, is in no record for the rotation job to find (backup.py:653); while
\* the workers know its project, its task is at least mailed as failed before
\* it leaves the queue.
LeftoverIsTold ==
  [][\A t \in Task, b \in Backup :
       /\ cinder[b].task = t /\ cinder[b].status # "gone" /\ record[b] = "none"
       /\ \A p \in Conductor : Knows(p, t)
       /\ queue[t].status # "GONE" /\ queue'[t].status = "GONE"
       => queue[t].status = "FAILED"]_vars

\* A row only moves forward: no worker acting on an old copy brings a task
\* back to a stage it has left, and a deleted row stays deleted.
StageOf(s) ==
  CASE s = "UNUSED" -> 0 [] s = "PLANNED" -> 1 [] s = "INIT" -> 2
    [] s = "WIP" -> 3 [] s \in {"COMPLETED", "FAILED"} -> 4 [] OTHER -> 5
ForwardOnly ==
  [][\A t \in Task :
       StageOf(queue[t].status) <= StageOf(queue'[t].status)]_queue

StageName(s) ==
  CASE s = "UNUSED" -> "none" [] s = "PLANNED" -> "planned" [] s = "INIT" -> "taken"
    [] s = "WIP" -> "started" [] s \in {"COMPLETED", "FAILED"} -> "closed"
    [] OTHER -> "removed"

Stages     == [t \in Task |-> StageName(queue[t].status)]
Owners     == [b \in Backup |-> cinder[b].task]
Completed  == {b \in Backup : record[b] = "completed"}
Successful == InStatus("COMPLETED")

Lifecycle == INSTANCE TaskLifecycle WITH
  stage <- Stages, owner <- Owners, completed <- Completed, successful <- Successful

\* Seen from outside, many workers with their stale lists, crashes and locks
\* that come and go are the life of tasks as README.md:15-22 tells it.
IsTaskLifecycle == Lifecycle!Spec

\* README.md:19 "All conductors, will be able to take scheduled backup tasks
\* and run backups": a task taken by a worker is tried, not deleted.
TakenIsTried ==
  [][\A t \in Task :
       queue[t].status = "INIT" => queue'[t].status # "GONE"]_queue

\* README.md:20 "For single a volume, only one backup task will be generated".
OneTaskPerVolume ==
  \A t, u \in Task :
    /\ {queue[t].status, queue[u].status} \subseteq {"PLANNED", "INIT", "WIP"}
    /\ VolumeOf(t) = VolumeOf(u)
    => t = u

\* README.md:53: the timeout is there to remove backups that are stuck, so
\* cancelling does not delete a backup whose task is already completed.
CancelSparesCompleted ==
  [][\A p \in Conductor :
       pc[p] = "cancelDelete" /\ pc'[p] = "cancelRecord"
         => queue[cur[p]].status # "COMPLETED"]_vars

\* README.md:57: what a cancelled task leaves in Cinder is remembered in
\* backup_data, so that the next retention job deletes it.
CancelledIsRemembered ==
  [][\A p \in Conductor :
       pc[p] = "cancelSave" /\ pc'[p] = "cancel"
         => record[BackupOf(cur[p])] # "none"]_vars

-----------------------------------------------------------------------------
(* The inductive invariant behind the safety properties.                   *)

\* The stages of a task whose backup id is saved, and after.
Started == {"WIP", "COMPLETED", "FAILED", "GONE"}

\* Row t is one whose backup id is known and will not change any more.
HasBackup(t) ==
  t \in Task /\ queue[t].status \in Started /\ BackupOf(t) \in Backup

\* Cinder has no backup for row t.
Untried(t) == \A b \in Backup : cinder[b].task # t

RowsOK ==
  \A t \in Task :
    /\ queue[t].status # "UNUSED" => VolumeOf(t) \in Volume
    /\ queue[t].status \in {"UNUSED", "PLANNED"} => Untried(t)
    /\ queue[t].status \in {"WIP", "COMPLETED"} => BackupOf(t) \in Backup
    /\ BackupOf(t) \in Backup => cinder[BackupOf(t)].task = t

\* An id Cinder has not used yet is nobody's.
FreshOK == \A b \in Backup : cinder[b].status = "absent" => cinder[b].task = 0

\* Who has a row in hand inside a with-block owns the lock of its volume, so
\* no other worker is between the same two lines for that row.
HoldsLock(p) ==
  pc[p] \in TodoHeld \cup WipHeld =>
    /\ cur[p] \in Task
    /\ queue[cur[p]].status # "UNUSED"
    /\ lock[VolumeOf(cur[p])] = p

\* What a worker has learnt of the row in hand is still true.
InHandOK(p) ==
  /\ pc[p] = "claimSave" => queue[cur[p]].status = "PLANNED"
  /\ pc[p] = "create" => queue[cur[p]].status = "INIT" /\ Untried(cur[p])
  /\ pc[p] = "saveWip" =>
       /\ queue[cur[p]].status = "INIT"
       /\ made[p] \in Backup /\ cinder[made[p]].task = cur[p]
  /\ pc[p] \in WipHeld \cup {"cancelDelete", "cancelRecord", "cancelSave"}
       => HasBackup(cur[p])
  /\ pc[p] = "saveDone" => record[BackupOf(cur[p])] = "completed"

\* The rows still to visit are allocated, and started ones in the second loop.
ListOK(p) ==
  /\ \A t \in list[p] : queue[t].status # "UNUSED"
  /\ pc[p] \in WipLoop => \A t \in list[p] : HasBackup(t)

Inductive ==
  /\ TypeOK /\ RowsOK /\ FreshOK /\ OneBackupPerTask /\ CompletedIsRecorded
  /\ \A p \in Conductor : HoldsLock(p) /\ InHandOK(p) /\ ListOK(p)

-----------------------------------------------------------------------------
(* Liveness.                                                               *)

\* Every run of the periodic job ends, although _process_wip_tasks loops for
\* as long as any backup of any worker is in progress.
CyclesEnd == \A p \in Conductor : pc[p] # "idle" ~> pc[p] = "idle"

\* README.md:53-55 "When a backup process reach this timeout, it will remove
\* the backup task": once crashes stop, a task whose backup was started is
\* eventually closed, even if Cinder never finishes the backup.
WipResolved ==
  <>[](\A p \in Conductor : pc[p] # "down")
    => \A t \in Task : queue[t].status = "WIP" ~> queue[t].status # "WIP"

\* A planned task is eventually taken by some worker.
PlannedTaken ==
  \A t \in Task : queue[t].status = "PLANNED" ~> queue[t].status # "PLANNED"

\* backup.py:599 "Retry to create full backup for volume %s instead of
\* incremental.": a task that was taken does not stay in BACKUP_INIT.
InitResolved ==
  \A t \in Task : queue[t].status = "INIT" ~> queue[t].status # "INIT"
=============================================================================
