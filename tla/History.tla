-------------------------------- MODULE History --------------------------------
(***************************************************************************)
(* One volume between the two services that share its records: conductors  *)
(* that plan and make its backups (BackupChain) and the rotation job that  *)
(* deletes them again (Rotation).  The planner decides by the rows of      *)
(* backup_data, Cinder builds an incremental backup upon the newest one    *)
(* that is available, and the job deletes backups first and their rows in  *)
(* a later run.                                                            *)
(*                                                                         *)
(* The backups, rows and job are Rotation's; what BackupChain keeps of the *)
(* history is read off them.                                               *)
(***************************************************************************)
EXTENDS Integers, Sequences, FiniteSets

CONSTANTS
  Task, FullDepth, MinInterval,       \* as in BackupChain
  MaxBackups, MaxAge, NoRow, Unset, Empty,   \* as in Rotation
  Volume,      \* the volume, in the place of its instance
  RetentionTime,   \* its retention_time
  Faults       \* as in Rotation

VARIABLES
  task, pc, busy, method, fresh,                        \* as in BackupChain
  cinder, parent, record, at, map, todo, visited, hand  \* as in Rotation

planner == <<task, pc, busy, method, fresh>>
backups == <<cinder, parent>>
job     == <<at, map, todo, visited, hand>>
vars    == <<planner, backups, record, job>>

Rotation ==
  INSTANCE Rotation WITH
    Instance <- {Volume}, instance <- [b \in 1 .. MaxBackups |-> Volume],
    pc <- at, Zone <- 0, MaxRun <- MaxBackups,
    Default <- RetentionTime, Custom <- [i \in {Volume} |-> Unset]

Backup      == Rotation!Backup
Recorded(b) == record[b] # NoRow
Available   == {b \in Backup : cinder[b] = "available"}
Newest(S)   == CHOOSE b \in S : \A c \in S : c <= b

\* The last full_backup_depth rows that get_backups finds, by their id; row i
\* has rows - i younger ones.
Younger(b) == {c \in Backup : Recorded(c) /\ c > b}
LastRows ==
  LET recorded == {b \in Backup : Recorded(b)}
      rows     == IF Cardinality(recorded) < FullDepth THEN Cardinality(recorded) ELSE FullDepth
      Row(i)   == CHOOSE b \in recorded : Cardinality(Younger(b)) = rows - i
  IN  [i \in 1 .. rows |-> [incremental |-> parent[Row(i)] # 0, completed |-> TRUE]]

\* The age of the youngest of them, as far as it is compared.
Youngest ==
  IF \E b \in Backup : Recorded(b) /\ record[b] < MinInterval
    THEN record[Newest({b \in Backup : Recorded(b)})] ELSE MinInterval

\* How many incremental backups Cinder would build the next one upon.
Run ==
  IF Available = {} THEN -1
  ELSE LET depth == Rotation!Depth[Newest(Available)]
       IN  IF depth > FullDepth THEN FullDepth + 1 ELSE depth

Chain ==
  INSTANCE BackupChain WITH
    history <- LastRows, youngest <- Youngest, run <- Run, Zone <- 0,
    Faults <- {}

ASSUME HistoryAssumption ==
  /\ FullDepth \in Nat /\ MinInterval \in Nat
  /\ MaxBackups \in Nat /\ MaxAge \in Nat
  /\ RetentionTime \in Rotation!Usable \cup {Empty}
  /\ Faults \subseteq Rotation!FaultKinds /\ NoRow \notin Nat

Init == Rotation!Init /\ Chain!Init

-----------------------------------------------------------------------------
\* The puller plans and a worker claims what it has planned.
Plan ==
  /\ UNCHANGED <<backups, record, job>>
  /\ \/ Chain!ReadWip \/ Chain!ReadPlanned \/ Chain!IsRequired
     \/ Chain!DecideMethod \/ Chain!Insert
     \/ \E t \in Task : Chain!Claim(t)

\* Cinder creates the backup upon the newest one that is available, or refuses
\* an incremental one when there is none.
Start(t) ==
  /\ \/ \E b \in Backup :
          /\ Rotation!Create(b)
          /\ parent'[b] # 0 <=> task[t].incremental
     \/ task[t].incremental /\ Available = {} /\ UNCHANGED <<backups, record, job>>
  /\ Chain!StartBackup(t)

\* Mutant of Complete: the backup is not recorded.
CompleteUnrecorded(t) ==
  /\ task[t].status = "WIP"
  /\ \E b \in Backup : cinder[b] = "creating"
                       /\ cinder' = [cinder EXCEPT ![b] = "available"]
  /\ Chain!Close(t) /\ UNCHANGED <<pc, busy, method, fresh, parent, record, job>>

\* The backup is available, and is recorded.
Complete(t) ==
  /\ \E b \in Backup : Rotation!Complete(b) /\ cinder'[b] = "available"
  /\ Chain!Complete(t)

\* A step of the job.  What has been decided upon the rows is not fresh any more
\* once one of the backups is to be deleted, or a row goes.
Rotate ==
  /\ Rotation!Rotate /\ UNCHANGED <<pc, busy, method>>
  /\ IF cinder' = cinder /\ record' = record
       THEN UNCHANGED <<task, fresh>>
       ELSE /\ fresh' = FALSE
            /\ task' = [t \in Task |-> [task[t] EXCEPT !.fresh = FALSE]]

Environment ==
  /\ Rotation!Tick \/ \E b \in Backup : Rotation!CinderDeletes(b)
  /\ UNCHANGED planner

Next ==
  \/ Plan \/ Rotate \/ Environment
  \/ \E t \in Task : Start(t) \/ Complete(t)

Spec == Init /\ [][Next]_vars

-----------------------------------------------------------------------------
\* Every step is one of Rotation, which therefore lets its backups come in at
\* least the order the planner makes them in.
IsRotation == Rotation!Spec

\* README.md:82 "retention will honored full and incremental backup order": the
\* job does not disturb what BackupChain keeps, whatever it has removed before,
\* as long as the backups of all rows are available and none has been deleted
\* since the task was planned.
OrderKept ==
  [][\A t \in Task :
       /\ Chain!Starts(t) /\ task[t].fresh
       /\ \A b \in Backup : Recorded(b) => b \in Available
       => (task[t].incremental <=> Run \in 0 .. FullDepth - 1)]_vars

\* README.md:84-85 "The chain will stop when next full backup created", also when
\* the job has begun to delete: no chain grows beyond full_backup_depth.
ChainStops ==
  \A b \in Backup : Rotation!InCinder(b) => Rotation!Depth[b] <= FullDepth

\* A task that asks for an incremental backup finds one to build upon, also when
\* the job has deleted what the planner has seen.
HasBase == Chain!HasBase
=============================================================================
