------------------------------- MODULE Rotation -------------------------------
(***************************************************************************)
(* RotationManager.rotation_tasks: a periodic job that goes through the    *)
(* records of backup_data, instance by instance and newest first, asks     *)
(* Cinder to delete the backups that are older than their retention, and   *)
(* removes a record once Cinder no longer has the backup.  The workers     *)
(* keep inserting records, Cinder deletes in its own time and refuses to   *)
(* delete a backup that an incremental one depends on.                     *)
(*                                                                         *)
(* Each instance has one volume.  Backups are numbered in the order they   *)
(* are created; ages stop growing at MaxAge.                               *)
(***************************************************************************)
EXTENDS Integers

CONSTANTS
  Instance,     \* servers
  MaxBackups,   \* bound: backups ever created
  MaxAge,       \* bound: an age at which every retention has passed
  MaxRun,       \* bound: incremental backups in a row (full_backup_depth)
  Zone,         \* how many ticks the conductors' local time is ahead of UTC
  Default,      \* retention_time, Empty when it cannot be used
  Custom,       \* the retention metadata of each instance: Unset, Empty, a time
  Faults,       \* which calls may fail, a subset of FaultKinds
  NoRow,        \* the backup has no row in backup_data
  Unset,        \* the instance has no such metadata
  Empty         \* a duration that passes the format check and cannot be used:
                \* the empty string, or one that reaches before the year 1

\* The request for the servers fails; the pages of their list, which is fetched
\* as it is iterated, or the list of projects fail, or a project is missing; a
\* request about a backup or a deletion fails.
FaultKinds == {"servers", "projects", "cinder"}

Backup == 1 .. MaxBackups
Age    == 0 .. MaxAge

Usable == {r \in 0 .. MaxAge - 1 : r + Zone < MaxAge}

ASSUME RotationAssumption ==
  /\ MaxBackups \in Nat /\ MaxAge \in Nat /\ MaxRun \in Nat
  /\ Zone \in Int
  /\ Default \in Usable \cup {Empty}
  /\ Custom \in [Instance -> Usable \cup {Unset, Empty}]
  /\ Faults \subseteq FaultKinds
  /\ NoRow \notin Nat

VARIABLES
  cinder,    \* the status of each backup in Cinder
  parent,    \* the backup each one is incremental to, 0 for a full one
  instance,  \* the instance of each backup
  record,    \* backup_data: the age of each row by its created_at, or NoRow
  pc,        \* where the rotation job is
  map,       \* the instances in instance_retention_map
  todo,      \* the records the job has still to visit
  visited,   \* those it has visited in this run
  hand       \* the one it is about to remove, 0 before the first

backups == <<cinder, parent, instance>>
job     == <<pc, map, todo, visited, hand>>
vars    == <<backups, record, job>>

TypeOK ==
  /\ cinder \in [Backup -> {"absent", "creating", "available", "error", "deleting",
                             "gone"}]
  /\ parent \in [Backup -> Backup \cup {0}]
  /\ instance \in [Backup -> Instance]
  /\ record \in [Backup -> Age \cup {NoRow}]
  /\ pc \in {"rest", "collect", "projects", "list", "visit", "get", "delete",
             "remove"}
  /\ map \subseteq Instance
  /\ todo \subseteq Backup /\ visited \subseteq Backup
  /\ hand \in Backup \cup {0}

InCinder(b) == cinder[b] \notin {"absent", "gone"}
Ended(b)    == InCinder(b) /\ cinder[b] # "creating"
Recorded(b) == record[b] # NoRow

Init ==
  /\ cinder = [b \in Backup |-> "absent"]
  /\ parent = [b \in Backup |-> 0]
  /\ instance \in [Backup -> Instance]
  /\ record = [b \in Backup |-> NoRow]
  /\ pc = "rest" /\ map = {} /\ todo = {} /\ visited = {} /\ hand = 0

-----------------------------------------------------------------------------
(* The workers and Cinder.                                                 *)

\* How many incremental backups lead from b to its full one.
Depth[b \in Backup] == IF parent[b] = 0 THEN 0 ELSE 1 + Depth[parent[b]]

NextId(b) == cinder[b] = "absent" /\ \A c \in Backup : c < b => cinder[c] # "absent"

\* A volume has one open task.
Idle(i) == \A b \in Backup : instance[b] = i => cinder[b] # "creating"

\* The backup Cinder takes as parent: the newest one that is available.
Latest(b, c) ==
  /\ instance[c] = instance[b] /\ cinder[c] = "available"
  /\ \A d \in Backup :
       instance[d] = instance[b] /\ cinder[d] = "available" => d <= c

\* _volume_backup: the created_at of the entry is not passed on, so a row
\* starts with the time of its insertion.
VolumeBackup(b, createdAge) == record' = [record EXCEPT ![b] = 0]

\* A worker has Cinder create a full backup or an incremental one.
Create(b) ==
  /\ NextId(b) /\ Idle(instance[b])
  /\ cinder' = [cinder EXCEPT ![b] = "creating"]
  /\ \/ parent' = parent
     \/ \E c \in Backup : /\ Latest(b, c) /\ Depth[c] < MaxRun
                          /\ parent' = [parent EXCEPT ![b] = c]
  /\ UNCHANGED <<instance, record, job>>

\* It finds the backup available, or failed, or cancels it: then its deletion
\* is asked for and it is recorded with a created_at of ten years ago.
Complete(b) ==
  /\ cinder[b] = "creating"
  /\ \/ cinder' = [cinder EXCEPT ![b] = "available"] /\ VolumeBackup(b, 0)
     \/ cinder' = [cinder EXCEPT ![b] = "deleting"] /\ VolumeBackup(b, MaxAge)
  /\ UNCHANGED <<parent, instance, job>>

CinderDeletes(b) ==
  /\ cinder[b] = "deleting"
  /\ \E s \in {"gone"} \cup IF "cinder" \in Faults THEN {"error"} ELSE {} :
       cinder' = [cinder EXCEPT ![b] = s]
  /\ UNCHANGED <<parent, instance, record, job>>

Older(a) == IF a < MaxAge THEN a + 1 ELSE a

Tick ==
  /\ record' = [b \in Backup |-> IF Recorded(b) THEN Older(record[b]) ELSE NoRow]
  /\ UNCHANGED <<backups, job>>

-----------------------------------------------------------------------------
(* rotation_tasks.                                                         *)

Goto(where) == pc' = where
Rest ==
  Goto("rest") /\ map' = {} /\ todo' = {} /\ visited' = {} /\ hand' = 0

\* get_time_from_str gives None for a default that cannot be used, and the run
\* ends with the exception of None.astimezone.
Start ==
  /\ pc = "rest" /\ IF Default = Empty THEN Goto("rest") ELSE Goto("collect")
  /\ UNCHANGED <<backups, record, map, todo, visited, hand>>

\* collect_instance_retention_map: when get_servers raises the map is empty;
\* when the iteration over its result does, the run ends.  The empty string
\* matches the format as well.
Collect ==
  /\ pc = "collect"
  /\ \/ /\ Goto("projects")
        /\ \/ map' = {i \in Instance : Custom[i] # Unset}
           \/ "servers" \in Faults /\ map' = {}
        /\ UNCHANGED <<todo, visited, hand>>
     \/ "projects" \in Faults /\ Rest
  /\ UNCHANGED <<backups, record>>

\* update_project_list; its exceptions end the run.
ListProjects ==
  /\ pc = "projects"
  /\ \/ Goto("list") /\ UNCHANGED <<map, todo, visited, hand>>
     \/ "projects" \in Faults /\ Rest
  /\ UNCHANGED <<backups, record>>

ListBackups ==
  /\ pc = "list" /\ todo' = {b \in Backup : Recorded(b)} /\ Goto("visit")
  /\ UNCHANGED <<backups, record, map, visited, hand>>

\* Mutant of First: oldest first.
FirstOldest(b) ==
  /\ b \in todo
  /\ \A c \in todo : instance[c] = instance[b] => b <= c
  /\ \A c \in visited \ todo :
       instance[c] # instance[b] => \A d \in todo : instance[d] # instance[c]

\* b is the next record: the instances follow one another in some order, and
\* the records of each come newest first.
First(b) ==
  /\ b \in todo
  /\ \A c \in todo : instance[c] = instance[b] => c <= b
  /\ \A c \in visited :
       instance[c] # instance[b] => \A d \in todo : instance[d] # instance[c]

\* The retention of b as the job knows it.
Known(b) == IF instance[b] \in map THEN Custom[instance[b]] ELSE Default

\* Mutant of IsRetention: the offset is taken with the wrong sign.
IsRetentionEarly(b) == record[b] + Zone > Known(b)

\* The age is taken from a now that is off by the zone, as in BackupChain.
IsRetention(b) == record[b] - Zone > Known(b)

\* get_time_from_str gives None for the empty string and is_retention raises.
Visit ==
  /\ pc = "visit"
  /\ \/ \E b \in Backup :
          /\ First(b)
          /\ \/ Known(b) = Empty /\ Rest
             \/ /\ Known(b) # Empty
                /\ todo' = todo \ {b} /\ visited' = visited \cup {b}
                /\ IF IsRetention(b) THEN hand' = b /\ Goto("get")
                                     ELSE UNCHANGED <<hand, pc>>
                /\ UNCHANGED map
     \/ todo = {} /\ Rest
  /\ UNCHANGED <<backups, record>>

\* hard_remove_volume_backup: get_backup decides between delete_backup and the
\* removal of the record.  A project that is not listed, or an exception,
\* leaves the backup to the next run.
Get ==
  /\ pc = "get"
  /\ \/ InCinder(hand) /\ Goto("delete")
     \/ ~InCinder(hand) /\ Goto("remove")
     \/ Faults \cap {"projects", "cinder"} # {} /\ Goto("visit")
  /\ UNCHANGED <<backups, record, map, todo, visited, hand>>

\* Cinder deletes available and failed backups that nothing depends on.
Deletable(b) ==
  /\ cinder[b] \in {"available", "error"}
  /\ \A c \in Backup : parent[c] = b => ~InCinder(c)

\* Mutant of Delete: the record goes with the request.
DeleteRecord ==
  /\ pc = "delete" /\ Goto("visit")
  /\ cinder' = IF Deletable(hand) THEN [cinder EXCEPT ![hand] = "deleting"]
                                  ELSE cinder
  /\ record' = [record EXCEPT ![hand] = NoRow]
  /\ UNCHANGED <<parent, instance, map, todo, visited, hand>>

Delete ==
  /\ pc = "delete" /\ Goto("visit")
  /\ \/ Deletable(hand) /\ cinder' = [cinder EXCEPT ![hand] = "deleting"]
     \/ (~Deletable(hand) \/ "cinder" \in Faults) /\ UNCHANGED cinder
  /\ UNCHANGED <<parent, instance, record, map, todo, visited, hand>>

\* Mutant of Remove: delete_backup of the record does nothing.
RemoveNothing ==
  /\ pc = "remove" /\ Goto("visit")
  /\ UNCHANGED <<backups, record, map, todo, visited, hand>>

Remove ==
  /\ pc = "remove" /\ Goto("visit")
  /\ record' = [record EXCEPT ![hand] = NoRow]
  /\ UNCHANGED <<backups, map, todo, visited, hand>>

Rotate ==
  Start \/ Collect \/ ListProjects \/ ListBackups \/ Visit \/ Get \/ Delete \/ Remove

Next ==
  \/ Rotate \/ Tick
  \/ \E b \in Backup : Create(b) \/ Complete(b) \/ CinderDeletes(b)

Spec == Init /\ [][Next]_vars

\* The job runs periodically, time passes, the workers end what they have begun
\* (Conductor: WipResolved), and Cinder completes deletions.
FairSpec ==
  /\ Spec /\ WF_vars(Rotate) /\ WF_vars(Tick)
  /\ \A b \in Backup : WF_vars(Complete(b)) /\ WF_vars(CinderDeletes(b))

-----------------------------------------------------------------------------
\* README.md:85 "Now retention only delete backup object from Staffeln DB when
\* backup not found in Cinder backup service": no backup that has ended is
\* left in Cinder without a record, although its deletion is refused, delayed or retried.
RecordedWhileInCinder == \A b \in Backup : Ended(b) => Recorded(b)

\* The invariant behind it: a backup is only removed from backup_data while
\* Cinder does not have it any more, and it never comes back.
Inductive ==
  /\ TypeOK /\ RecordedWhileInCinder
  /\ \A b \in Backup :
       Recorded(b) \/ b \in todo => cinder[b] \notin {"absent", "creating"}
  /\ pc \in {"get", "delete", "remove"}
       => hand \in Backup /\ cinder[hand] \notin {"absent", "creating"}
  /\ pc = "remove" => cinder[hand] = "gone"

\* README.md:80 "If no `retention_metadata_key` defined for instance,
\* `retention_time` will be used": what an instance asks for decides.
Retention(b) ==
  LET asked == Custom[instance[b]]
  IN  IF asked \in {Unset, Empty} THEN Default ELSE asked

\* The rotation job has Cinder delete backup b in this step.
DeletionAsked(b) ==
  Recorded(b) /\ cinder[b] # "deleting" /\ cinder'[b] = "deleting"

\* No backup is deleted before its retention has passed.
KeepsUnexpired ==
  [][\A b \in Backup : DeletionAsked(b) => record[b] > Retention(b)]_vars

\* README.md:88 "retention will start delete the later created one": within a
\* run no backup is deleted before a newer expired one of the same volume has
\* been visited.
NewestFirst ==
  [][\A b, c \in Backup :
       /\ DeletionAsked(b)
       /\ instance[c] = instance[b] /\ c > b /\ c \in todo
       => ~IsRetention(c)]_vars

\* README.md:92 "will try to delete those failed request in next periodic
\* time": a backup whose retention has passed is deleted and forgotten some
\* day, although newer ones depend on it for a time.
ExpiredGoes ==
  \A b \in Backup :
    Recorded(b) /\ record[b] > Retention(b) ~> ~Recorded(b)

\* manager.py:274 "No way to judge retention" when there is neither a default nor
\* a retention of any instance; README.md:79 "Customized `retention_metadata_key`
\* has larger priority than `retention_time`": an instance that asks for a
\* retention gets it whatever the default is.
CustomIsJudged ==
  \A b \in Backup :
    /\ Custom[instance[b]] \notin {Unset, Empty}
    /\ Recorded(b) /\ record[b] > Retention(b) ~> ~Recorded(b)

\* README.md:57: the record of a failed backup is made old enough for the next
\* retention job to retry the deletion.
FailedIsRetriedNext ==
  \A b \in Backup : cinder[b] = "error" /\ Recorded(b) => record[b] > Retention(b)
=============================================================================
