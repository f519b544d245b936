------------------------------ MODULE BackupChain ------------------------------
(***************************************************************************)
(* How the backups of one volume follow one another: the puller plans a    *)
(* task when none is open and the youngest record is old enough            *)
(* (_is_backup_required), full or incremental by the last records          *)
(* (_is_incremental); workers claim the task, have Cinder do the backup    *)
(* and record it.  With a single conductor the two alternate; with several *)
(* the puller reads the tables while tasks change.                         *)
(*                                                                         *)
(* Of backup_data only the last full_backup_depth rows and the age of the  *)
(* youngest one are ever read.                                             *)
(***************************************************************************)
EXTENDS Integers, Sequences

CONSTANTS
  Task,         \* the rows of queue_data the volume can have at a time
  FullDepth,    \* CONF.conductor.full_backup_depth
  MinInterval,  \* CONF.conductor.backup_min_interval, in ticks
  Zone,         \* how many ticks the conductors' local time is ahead of UTC
  Faults        \* what may happen, a subset of FaultKinds

\* Other conductors work while the puller plans, backup_data cannot be read,
\* Cinder refuses to create a backup, a backup fails.
FaultKinds == {"others", "history", "create", "backup"}

ASSUME ChainAssumption ==
  FullDepth \in Nat /\ MinInterval \in Nat /\ Zone \in Int /\ Faults \subseteq FaultKinds

\* From this age on, all rows are alike.
OldAge == IF Zone > 0 THEN MinInterval + Zone ELSE MinInterval

VARIABLES
  task,      \* status and incremental of each row, and whether it is fresh
  history,   \* incremental and backup_completed of the last FullDepth rows of
             \* backup_data
  youngest,  \* the age of the last row, up to OldAge
  run,       \* completed incremental backups since the last completed full one
             \* up to FullDepth + 1, or NoFull
  pc,        \* where the puller is in create_queue
  busy,      \* whether it has read an open task
  method,    \* the method it has decided on
  fresh      \* whether what it decides on is what backup_data says

vars   == <<task, history, youngest, run, pc, busy, method, fresh>>
puller == <<pc, busy, method>>

NoFull == -1
FreeRow == [status |-> "FREE", incremental |-> FALSE, fresh |-> FALSE]
Row     == [incremental : BOOLEAN, completed : BOOLEAN]

TypeOK ==
  /\ task \in [Task -> [status: {"FREE", "PLANNED", "INIT", "WIP"},
                        incremental: BOOLEAN, fresh: BOOLEAN]]
  /\ history \in Seq(Row) /\ Len(history) <= FullDepth
  /\ youngest \in 0 .. OldAge
  /\ run \in NoFull .. FullDepth + 1
  /\ pc \in {"rest", "wip", "planned", "required", "method", "insert"}
  /\ busy \in BOOLEAN /\ method \in BOOLEAN /\ fresh \in BOOLEAN

Init ==
  /\ task = [t \in Task |-> FreeRow]
  /\ history = <<>> /\ youngest = OldAge /\ run = NoFull
  /\ pc = "rest" /\ busy = FALSE /\ method = FALSE /\ fresh = FALSE

InStatus(s) == {t \in Task : task[t].status = s}

-----------------------------------------------------------------------------
(* The puller: _update_task_queue and check_instance_volumes.              *)

\* A conductor that works alone takes a task from BACKUP_PLANNED to
\* BACKUP_WIP before its next cycle.
ReadWip ==
  /\ "others" \in Faults \/ InStatus("INIT") = {}
  /\ pc = "rest" /\ pc' = "wip" /\ busy' = (InStatus("WIP") # {})
  /\ UNCHANGED <<task, history, youngest, run, method, fresh>>

ReadPlanned ==
  /\ pc = "wip" /\ pc' = "planned" /\ busy' = (busy \/ InStatus("PLANNED") # {})
  /\ UNCHANGED <<task, history, youngest, run, method, fresh>>

\* Mutant of Young: the interval is not compared.
YoungNever == FALSE

\* There is a row younger than backup_min_interval.  The threshold is taken from
\* utcnow(), which has no zone, and astimezone() converts it as if it were local
\* time.
Young == MinInterval # 0 /\ youngest < MinInterval + Zone

\* Without the history the answer is yes.
IsRequired ==
  /\ pc = "planned"
  /\ \/ Young /\ pc' = "rest" /\ UNCHANGED fresh
     \/ ~Young /\ pc' = "required" /\ fresh' = TRUE
     \/ "history" \in Faults /\ pc' = "required" /\ fresh' = FALSE
  /\ UNCHANGED <<task, history, youngest, run, busy, method>>

\* Mutant of Incremental: any row will do as a base.
IncrementalOnAny == history # <<>>

\* One of the last full_backup_depth rows is a full backup, completed or not.
Incremental == \E i \in DOMAIN history : ~history[i].incremental

DecideMethod ==
  /\ pc = "required" /\ pc' = "insert"
  /\ \/ method' = Incremental /\ UNCHANGED fresh
     \/ "history" \in Faults /\ method' = FALSE /\ fresh' = FALSE
  /\ UNCHANGED <<task, history, youngest, run, busy>>

\* create_queue inserts the entry unless it has seen an open task.
Insert ==
  /\ pc = "insert" /\ pc' = "rest"
  /\ \/ /\ ~busy
        /\ \E t \in InStatus("FREE") :
             task' = [task EXCEPT ![t] =
                        [status |-> "PLANNED", incremental |-> method,
                         fresh |-> fresh]]
     \/ busy /\ UNCHANGED task
  /\ UNCHANGED <<history, youngest, run, busy, method, fresh>>

-----------------------------------------------------------------------------
(* The workers and Cinder.                                                 *)

Working == pc = "rest" \/ "others" \in Faults

SetStatus(t, s) == task' = [task EXCEPT ![t].status = s]

Close(t) == task' = [task EXCEPT ![t] = FreeRow]

Claim(t) ==
  /\ Working /\ task[t].status = "PLANNED" /\ SetStatus(t, "INIT")
  /\ UNCHANGED <<history, youngest, run, puller, fresh>>

\* create_volume_backup: started, refused, or refused for want of a base.  In
\* the last case the row stays in BACKUP_INIT, where no query finds it again
\* (Conductor), so that its slot is free for this model.
StartBackup(t) ==
  /\ Working /\ task[t].status = "INIT"
  /\ \/ ~(task[t].incremental /\ run = NoFull) /\ SetStatus(t, "WIP")
     \/ task[t].incremental /\ run = NoFull /\ Close(t)
     \/ "create" \in Faults /\ Close(t)
  /\ UNCHANGED <<history, youngest, run, puller, fresh>>

\* Mutant of Window: get_backups is not limited.
WindowUnlimited(rows) == rows

\* The rows get_backups returns, of which it takes full_backup_depth.
Window(rows) == IF Len(rows) > FullDepth THEN Tail(rows) ELSE rows

\* _volume_backup: a new row of backup_data, which makes stale what others
\* have planned upon the rows before it.
VolumeBackup(t, done) ==
  /\ history' = Window(Append(history, [incremental |-> task[t].incremental,
                                        completed |-> done]))
  /\ youngest' = 0
  /\ task' = [u \in Task |-> IF u = t THEN FreeRow
                                      ELSE [task[u] EXCEPT !.fresh = FALSE]]
  /\ fresh' = FALSE

Complete(t) ==
  /\ Working /\ task[t].status = "WIP" /\ VolumeBackup(t, TRUE)
  /\ run' = IF ~task[t].incremental THEN 0
            ELSE IF run <= FullDepth THEN run + 1 ELSE run
  /\ UNCHANGED puller

\* process_failed_backup or hard_cancel_backup_task: recorded, with the method
\* it was to use and created now, when Cinder accepts to delete the backup.
\* process_non_existing_backup records nothing either.
Fail(t) ==
  /\ "backup" \in Faults
  /\ Working /\ task[t].status = "WIP"
  /\ \/ VolumeBackup(t, FALSE)
     \/ Close(t) /\ UNCHANGED <<history, youngest, fresh>>
  /\ UNCHANGED <<run, puller>>

Tick ==
  /\ youngest < OldAge /\ youngest' = youngest + 1
  /\ UNCHANGED <<task, history, run, puller, fresh>>

Next ==
  \/ ReadWip \/ ReadPlanned \/ IsRequired \/ DecideMethod \/ Insert \/ Tick
  \/ \E t \in Task : Claim(t) \/ StartBackup(t) \/ Complete(t) \/ Fail(t)

Spec == Init /\ [][Next]_vars

-----------------------------------------------------------------------------
Starts(t) == task[t].status = "INIT" /\ task'[t].status = "WIP"

\* README.md:42 "the Full and Incremental backup order (config with
\* `full_backup_depth`) is still be honored": a full backup, full_backup_depth
\* incremental ones, and a full one again, whatever is refused or cannot be
\* read in between, as long as the last rows are of completed backups and none
\* has come since the task was planned.
OrderHonoured ==
  [][\A t \in Task :
       /\ Starts(t) /\ task[t].fresh
       /\ \A i \in DOMAIN history : history[i].completed
       => (task[t].incremental <=> run \in 0 .. FullDepth - 1)]_vars

\* README.md:66: a new backup only "when previous backup for same volume created
\* for more than 1 hours ago", again unless a row has come since the task was
\* planned; here the rows of failed and cancelled backups count as well.
IntervalKept ==
  [][\A t \in Task : Starts(t) /\ task[t].fresh => youngest >= MinInterval]_vars

\* README.md:50 "For each Full backup will follow by only one incremental
\* backup": no more incremental backups than full_backup_depth follow a full
\* one.  The row of a failed full backup breaks this, and so does a task that
\* another conductor has in BACKUP_INIT.
DepthKept == run <= FullDepth

\* A task that asks for an incremental backup finds one to build on.  It does
\* not when the only full backup has failed.
HasBase ==
  [][\A t \in Task :
       task[t].status = "INIT" /\ task[t].incremental /\ task'[t] # task[t]
         => run # NoFull]_vars
=============================================================================
