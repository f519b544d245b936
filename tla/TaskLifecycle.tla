---------------------------- MODULE TaskLifecycle ----------------------------
(***************************************************************************)
(* What README.md:15-22 promises of backup tasks, told without workers,    *)
(* lists or locks: a task is planned, taken by one worker, makes Cinder    *)
(* start one backup, is closed when that backup has come to an end, and is *)
(* removed at last.  Conductor implements it, however many workers there   *)
(* are and whatever fails.                                                 *)
(***************************************************************************)
EXTENDS Naturals

CONSTANTS
  Task,     \* the tasks
  Backup    \* the backups Cinder can make

VARIABLES
  stage,      \* how far each task has come: none, planned, taken, started,
              \* closed or removed
  owner,      \* the task each backup was made for, 0 when there is none yet
  completed,  \* the backups on record as completed
  successful  \* the tasks closed as successful

vars == <<stage, owner, completed, successful>>

Init ==
  /\ stage = [t \in Task |-> "none"]
  /\ owner = [b \in Backup |-> 0]
  /\ completed = {}
  /\ successful = {}

Move(t, s) == stage' = [stage EXCEPT ![t] = s]

\* A survey of the servers makes a task, or one that has failed right away.
Plan(t) ==
  /\ stage[t] = "none"
  /\ Move(t, "planned") \/ Move(t, "closed")
  /\ UNCHANGED <<owner, completed, successful>>

Take(t) ==
  /\ stage[t] = "planned" /\ Move(t, "taken")
  /\ UNCHANGED <<owner, completed, successful>>

\* Cinder is asked for a backup, which it makes for this task only, and whose
\* id may not reach the worker: the task fails then.
MakeBackup(t) ==
  /\ stage[t] = "taken" /\ \A b \in Backup : owner[b] # t
  /\ \E b \in Backup : owner[b] = 0 /\ owner' = [owner EXCEPT ![b] = t]
  /\ UNCHANGED stage \/ Move(t, "closed")
  /\ UNCHANGED <<completed, successful>>

\* A worker that knows the id of the backup saves it.
Start(t) ==
  /\ stage[t] = "taken" /\ Move(t, "started")
  /\ \E b \in Backup : owner[b] = t
  /\ UNCHANGED <<owner, completed, successful>>

Refused(t) ==
  /\ stage[t] = "taken" /\ Move(t, "closed")
  /\ UNCHANGED <<owner, completed, successful>>

Complete(b) ==
  /\ completed' = completed \cup {b}
  /\ UNCHANGED <<stage, owner, successful>>

\* Workers do not agree on the outcome before they close a task, and the last
\* one is right; but success has a backup to show.
Close(t) ==
  /\ stage[t] \in {"started", "closed"} /\ Move(t, "closed")
  /\ \/ successful' = successful \ {t}
     \/ /\ \E b \in completed : owner[b] = t
        /\ successful' = successful \cup {t}
  /\ UNCHANGED <<owner, completed>>

\* One task is dropped, or all that a report has told of are purged.
Remove ==
  /\ \E T \in SUBSET {t \in Task : stage[t] \in {"taken", "started", "closed"}} :
       /\ stage' = [t \in Task |-> IF t \in T THEN "removed" ELSE stage[t]]
       /\ successful' = successful \ T
  /\ UNCHANGED <<owner, completed>>

Next ==
  \/ \E t \in Task : Plan(t) \/ Take(t) \/ MakeBackup(t) \/ Start(t) \/ Refused(t) \/ Close(t)
  \/ \E b \in Backup : Complete(b)
  \/ Remove

Spec == Init /\ [][Next]_vars
=============================================================================
