--------------------------- MODULE ConductorProofs ---------------------------
(***************************************************************************)
(* TypeOK, OneBackupPerTask, CompletedIsRecorded and ForwardOnly hold of    *)
(* Conductor for any number of workers, volumes, tasks and backups, with    *)
(* every fault, and Conductor implements TaskLifecycle: each step of a      *)
(* worker is a step of the life of one task, several removals, or nothing.  *)
(* Leftovers are told (LeftoversTold) and, with fewer faults and when all   *)
(* know the projects, tasks are tried (TasksAreTried) and no backup is lost *)
(* from sight (AllAccountedFor).                                            *)
(*                                                                         *)
(* The invariant is Conductor!Inductive.  One step of worker p is treated   *)
(* in three parts, joined in Fine(p): its Effects on the tables, which are  *)
(* all that the other workers' parts of the invariant need (Others-         *)
(* Preserved); that the other workers' locals and locks are untouched       *)
(* (Private); and p's own part afterwards (WorkerOK).                       *)
(***************************************************************************)
EXTENDS Conductor, TLAPS

-----------------------------------------------------------------------------
(* Types.                                                                  *)

TablesTyped ==
  /\ queue  \in [Task -> Row]
  /\ record \in [Backup -> {"none", "completed", "failed"}]
  /\ cinder \in [Backup -> [status: CinderStatus, task: Task \cup {0}]]

LocksTyped ==
  /\ lock   \in [Volume -> Conductor \cup {Free, Orphan}]
  /\ puller \in Conductor \cup {Free, Orphan}

LocalsTyped ==
  /\ list    \in [Conductor -> SUBSET Task]
  /\ cur     \in [Conductor -> Task \cup {0}]
  /\ old     \in [Conductor -> SUBSET Volume]
  /\ plan    \in [Conductor -> SUBSET Candidate]
  /\ made    \in [Conductor -> Backup \cup {NULL}]
  /\ known   \in [Conductor -> SUBSET Project]
  /\ expired \in [Conductor -> BOOLEAN]
  /\ role    \in [Conductor -> BOOLEAN]

PcTyped == pc \in [Conductor -> Pcs]

LEMMA TypeParts == TypeOK <=> TablesTyped /\ LocksTyped /\ LocalsTyped /\ PcTyped
  BY DEF TypeOK, TablesTyped, LocksTyped, LocalsTyped, PcTyped

LEMMA TypePartsNext ==
  TypeOK' <=> TablesTyped' /\ LocksTyped' /\ LocalsTyped' /\ PcTyped'
  BY DEF TypeOK, TablesTyped, LocksTyped, LocalsTyped, PcTyped

LEMMA PcNames ==
  /\ \A w \in TodoHeld \cup WipLoop \cup PullerPcs : w \in Pcs
  /\ \A w \in WipHeld : w \in WipLoop
  /\ \A w \in {"idle", "down", "listTodo", "todo", "listWip", "endCycle"} : w \in Pcs
  /\ \A w \in {"wip", "cancel", "cancelDelete", "cancelRecord", "cancelSave"} : w \in Pcs
  BY DEF Pcs, WipLoop

LEMMA GotoTyped ==
  ASSUME NEW p \in Conductor, NEW w \in Pcs, PcTyped, Goto(p, w)
  PROVE  PcTyped'
  BY DEF PcTyped, Goto

LEMMA SetStatusTyped ==
  ASSUME NEW t \in Task, NEW s \in Status, queue \in [Task -> Row], SetStatus(t, s)
  PROVE  queue' \in [Task -> Row]
  BY DEF SetStatus, Row

LEMMA BecomeFullTyped ==
  ASSUME NEW t \in Task, queue \in [Task -> Row],
         queue' = [queue EXCEPT ![t].incremental = FALSE]
  PROVE  queue' \in [Task -> Row]
  BY DEF Row

LEMMA UnwindTyped ==
  ASSUME NEW p \in Conductor, LocksTyped, PcTyped, LocalsTyped, Unwind(p)
  PROVE  LocksTyped' /\ PcTyped' /\ (UNCHANGED known => LocalsTyped')
<1>1. LocksTyped' BY DEF Unwind, LeaveLocks, LocksTyped
<1>2. PcTyped' BY GotoTyped, PcNames DEF Unwind
<1>3. UNCHANGED known => LocalsTyped'
  BY DEF Unwind, ClearLocals, LocalsTyped
<1> QED BY <1>1, <1>2, <1>3

LEMMA LoopTyped ==
  ASSUME NEW p \in Conductor, NEW S \in SUBSET Task, LocalsTyped, Loop(p, S)
  PROVE  LocalsTyped'
  BY DEF Loop, LocalsTyped

LEMMA TakeTyped ==
  ASSUME NEW p \in Conductor, NEW t \in Task, LocalsTyped, Take(p, t)
  PROVE  LocalsTyped'
  BY DEF Take, LocalsTyped

LEMMA SkipTyped ==
  ASSUME NEW p \in Conductor, NEW t \in Task, LocalsTyped, Skip(p, t)
  PROVE  LocalsTyped'
  BY LoopTyped DEF Skip, LocalsTyped

LEMMA DropTyped ==
  ASSUME NEW p \in Conductor, LocalsTyped, Drop(p)
  PROVE  LocalsTyped'
  BY DEF Drop, LocalsTyped

LEMMA LockNextTyped ==
  ASSUME NEW p \in Conductor, NEW w \in Pcs, TypeOK, LockNext(p, w)
  PROVE  TypeOK'
<1>1. PICK t \in list[p] :
        /\ IF lock[VolumeOf(t)] = Free
             THEN /\ lock' = [lock EXCEPT ![VolumeOf(t)] = p]
                  /\ Take(p, t) /\ Goto(p, w)
             ELSE Skip(p, t) /\ UNCHANGED <<lock, pc>>
        /\ UNCHANGED <<tables, cinder, puller>>
  BY DEF LockNext
<1>2. t \in Task BY <1>1, TypeParts DEF LocalsTyped
<1>3. TablesTyped' BY <1>1, TypeParts DEF TablesTyped, tables
<1>4. LocksTyped' BY <1>1, TypeParts DEF LocksTyped
<1>5. LocalsTyped' BY <1>1, <1>2, TypeParts, TakeTyped, SkipTyped
<1>6. PcTyped' BY <1>1, TypeParts, GotoTyped DEF PcTyped
<1> QED BY <1>3, <1>4, <1>5, <1>6, TypePartsNext

LEMMA UnlockTyped ==
  ASSUME NEW p \in Conductor, NEW w \in Pcs, TypeOK, Unlock(p, w)
  PROVE  TypeOK'
<1>1. TablesTyped' BY TypeParts DEF Unlock, TablesTyped, tables
<1>2. LocksTyped' BY TypeParts DEF Unlock, LocksTyped
<1>3. LocalsTyped' /\ PcTyped' BY TypeParts, DropTyped, GotoTyped DEF Unlock
<1> QED BY <1>1, <1>2, <1>3, TypePartsNext

LEMMA AbortTyped ==
  ASSUME NEW p \in Conductor, TypeOK, Abort(p), TablesTyped'
  PROVE  TypeOK'
  BY TypeParts, TypePartsNext, UnwindTyped DEF Abort

LEMMA SaveTyped ==
  ASSUME NEW p \in Conductor, NEW t \in Task, NEW s \in Status, NEW w \in Pcs,
         TypeOK, Save(p, t, s, w), UNCHANGED cinder
  PROVE  TypeOK'
<1>1. CASE /\ SetStatus(t, s) /\ Goto(p, w) /\ UNCHANGED <<record, locks, locals>>
  <2>1. TablesTyped' BY <1>1, TypeParts, SetStatusTyped DEF TablesTyped
  <2>2. LocksTyped' /\ LocalsTyped'
    BY <1>1, TypeParts DEF LocksTyped, LocalsTyped, locks, locals
  <2> QED BY <1>1, <2>1, <2>2, TypeParts, TypePartsNext, GotoTyped
<1>2. CASE Abort(p) /\ UNCHANGED tables
  BY <1>2, TypeParts, AbortTyped DEF TablesTyped, tables
<1> QED BY <1>1, <1>2 DEF Save

LEMMA InsertTyped ==
  ASSUME NEW p \in Conductor, NEW b, NEW c \in {"completed", "failed"}, NEW w \in Pcs,
         TypeOK, Insert(p, b, c, w), UNCHANGED cinder
  PROVE  TypeOK'
<1>1. CASE /\ record' = [record EXCEPT ![b] = c] /\ Goto(p, w)
           /\ UNCHANGED <<queue, locks, locals>>
  <2>1. TablesTyped' BY <1>1, TypeParts DEF TablesTyped
  <2>2. LocksTyped' /\ LocalsTyped'
    BY <1>1, TypeParts DEF LocksTyped, LocalsTyped, locks, locals
  <2> QED BY <1>1, <2>1, <2>2, TypeParts, TypePartsNext, GotoTyped
<1>2. CASE Abort(p) /\ UNCHANGED tables
  BY <1>2, TypeParts, AbortTyped DEF TablesTyped, tables
<1> QED BY <1>1, <1>2 DEF Insert

\* A step that leaves some of the four groups of variables alone.
LEMMA FrameTyped ==
  ASSUME TypeOK
  PROVE  /\ UNCHANGED <<tables, cinder>> => TablesTyped'
         /\ UNCHANGED locks => LocksTyped'
         /\ UNCHANGED locals => LocalsTyped'
         /\ UNCHANGED pc => PcTyped'
  BY TypeParts DEF TablesTyped, LocksTyped, LocalsTyped, PcTyped, tables, locks, locals

\* The rows, the records or Cinder's backups change, nothing else but pc.
LEMMA GotoFrame ==
  ASSUME TypeOK, NEW p \in Conductor, NEW w \in Pcs, Goto(p, w),
         TablesTyped', UNCHANGED <<locks, locals>>
  PROVE  TypeOK'
  BY FrameTyped, TypeParts, TypePartsNext, GotoTyped

LEMMA RowFrame ==
  ASSUME TypeOK, NEW t \in Task, NEW s \in Status, SetStatus(t, s),
         UNCHANGED <<record, cinder>>
  PROVE  TablesTyped'
  BY TypeParts, SetStatusTyped DEF TablesTyped

LEMMA CinderTyped ==
  ASSUME TypeOK, UNCHANGED tables,
         \/ \E t \in Task, b \in Backup : CinderCreate(t, b)
         \/ \E b : DeleteAccepted(b) \/ DeleteRaises(b)
         \/ UNCHANGED cinder
  PROVE  TablesTyped'
  BY TypeParts DEF TablesTyped, tables, CinderCreate, DeleteAccepted,
     DeleteRaises, CinderStatus

LEMMA TypePreserved ==
  ASSUME TypeOK, RowsOK,
         \A q \in Conductor : HoldsLock(q) /\ InHandOK(q) /\ ListOK(q),
         [Next]_vars
  PROVE  TypeOK'
<1> USE TypeParts, TypePartsNext, FrameTyped, PcNames
<1>u. CASE UNCHANGED vars
  BY <1>u DEF vars, tables, locks, locals
<1>w. \A p \in Conductor : pc[p] \in TodoHeld \cup WipHeld => cur[p] \in Task
  BY DEF HoldsLock
<1>v. \A s \in Status \ {"UNUSED"} : VolumesIn(s) \in SUBSET Volume
  BY DEF VolumesIn, InStatus, RowsOK
<1>1. ASSUME NEW p \in Conductor, StartCycle(p) PROVE TypeOK'
  <2>1. LocksTyped' BY <1>1 DEF StartCycle, LocksTyped
  <2>2. PcTyped' BY <1>1, GotoTyped DEF StartCycle, PullerPcs
  <2>3. LocalsTyped' BY <1>1 DEF StartCycle, LocalsTyped
  <2> QED BY <1>1, <2>1, <2>2, <2>3 DEF StartCycle
<1>2. ASSUME NEW p \in Conductor, ReadWip(p) \/ ReadPlanned(p) PROVE TypeOK'
  <2>1. LocalsTyped' BY <1>2, <1>v DEF ReadWip, ReadPlanned, LocalsTyped, Status
  <2>2. PcTyped' BY <1>2, GotoTyped DEF ReadWip, ReadPlanned, PullerPcs
  <2> QED BY <1>2, <2>1, <2>2 DEF ReadWip, ReadPlanned
<1>3. ASSUME NEW p \in Conductor, Survey(p) PROVE TypeOK'
  <2>1. LocalsTyped' BY <1>3 DEF Survey, LocalsTyped
  <2>2. PcTyped' BY <1>3, GotoTyped DEF Survey, PullerPcs
  <2> QED BY <1>3, <2>1, <2>2 DEF Survey
<1>4. ASSUME NEW p \in Conductor, SurveyRaises(p) PROVE TypeOK'
  <2>1. LocalsTyped' BY <1>4 DEF SurveyRaises, LocalsTyped, Unwind, ClearLocals
  <2> QED BY <1>4, <2>1, UnwindTyped DEF SurveyRaises
<1>5. ASSUME NEW p \in Conductor, Enqueue(p) PROVE TypeOK'
  <2>4. \A m \in plan[p] : m \in QueueMapping
    BY ConductorAssumption DEF LocalsTyped
  <2>5. \A m \in QueueMapping : [status |-> m.status, volume |-> m.volume,
                                 backup |-> NULL, incremental |-> m.incremental] \in Row
    BY DEF QueueMapping, Row, Status
  <2>6. queue' \in [Task -> Row]
    BY <1>5, <2>4, <2>5 DEF Enqueue, TablesTyped, InStatus
  <2>1. TablesTyped' BY <1>5, <2>6 DEF Enqueue, TablesTyped
  <2>2. LocalsTyped' BY <1>5 DEF Enqueue, LocalsTyped
  <2>3. PcTyped' BY <1>5, GotoTyped DEF Enqueue
  <2> QED BY <1>5, <2>1, <2>2, <2>3 DEF Enqueue
<1>6. ASSUME NEW p \in Conductor, ListTodo(p) PROVE TypeOK'
  BY <1>6, LoopTyped, GotoTyped DEF ListTodo, InStatus
<1>7. ASSUME NEW p \in Conductor, TodoLock(p) \/ WipLock(p) PROVE TypeOK'
  BY <1>7, LockNextTyped DEF TodoLock, WipLock, TodoHeld, WipHeld
<1>8. ASSUME NEW p \in Conductor, TodoUnlock(p) \/ WipUnlock(p) PROVE TypeOK'
  BY <1>8, UnlockTyped DEF TodoUnlock, WipUnlock
<1>9. ASSUME NEW p \in Conductor, TodoDone(p) \/ WipAgain(p) PROVE TypeOK'
  BY <1>9, GotoFrame DEF TodoDone, WipAgain
<1>10. ASSUME NEW p \in Conductor, ClaimRead(p) PROVE TypeOK'
  BY <1>10, AbortTyped, GotoFrame DEF ClaimRead, TodoHeld
<1>11. ASSUME NEW p \in Conductor,
              ClaimSave(p) \/ CreateUnknownProject(p) \/ CheckNothing(p)
       PROVE TypeOK'
  <2>1. cur[p] \in Task
    BY <1>11, <1>w DEF ClaimSave, CreateUnknownProject, CheckNothing, At, TodoHeld, WipHeld
  <2> QED BY <1>11, <2>1, RowFrame, GotoFrame
    DEF ClaimSave, CreateUnknownProject, CheckNothing, DeleteRow, Status, TodoHeld, WipHeld
<1>12. ASSUME NEW p \in Conductor, CreateOk(p) PROVE TypeOK'
  <2>1. cur[p] \in Task BY <1>12, <1>w DEF CreateOk, At, TodoHeld
  <2>2. TablesTyped' BY <1>12, <2>1, CinderTyped DEF CreateOk
  <2>3. LocalsTyped' BY <1>12 DEF CreateOk, LocalsTyped
  <2>4. PcTyped' BY <1>12, GotoTyped DEF CreateOk, TodoHeld
  <2> QED BY <1>12, <2>2, <2>3, <2>4 DEF CreateOk
<1>13. ASSUME NEW p \in Conductor, CreateNoBase(p) PROVE TypeOK'
  <2>3. cur[p] \in Task BY <1>13, <1>w DEF CreateNoBase, At, TodoHeld
  <2>1. queue' \in [Task -> Row]
    BY <1>13, <2>3, BecomeFullTyped DEF CreateNoBase, TablesTyped
  <2>2. TablesTyped' BY <1>13, <2>1 DEF CreateNoBase, TablesTyped
  <2> QED BY <1>13, <2>2, GotoFrame DEF CreateNoBase, TodoHeld
<1>14. ASSUME NEW p \in Conductor, CreateFailed(p) PROVE TypeOK'
  <2>1. cur[p] \in Task BY <1>14, <1>w DEF CreateFailed, At, TodoHeld
  <2>2. queue' \in [Task -> Row] BY <1>14, <2>1, SetStatusTyped DEF CreateFailed, TablesTyped, Status
  <2>3. TablesTyped'
    BY <1>14, <2>1, <2>2 DEF CreateFailed, TablesTyped, CinderCreate, CinderStatus
  <2> QED BY <1>14, <2>3, GotoFrame DEF CreateFailed, TodoHeld
<1>15. ASSUME NEW p \in Conductor, SaveWip(p) PROVE TypeOK'
  <2>4. made[p] \in Backup \cup {NULL} BY DEF LocalsTyped
  <2>5. \A t \in Task : queue[t] \in Row /\ queue'[t] \in Row
    BY <1>15, <2>4 DEF SaveWip, TablesTyped, Row, Status
  <2>6. queue' \in [Task -> Row] BY <1>15, <2>5 DEF SaveWip, TablesTyped
  <2>1. TablesTyped' BY <1>15, <2>6 DEF SaveWip, TablesTyped
  <2>2. LocalsTyped' BY <1>15 DEF SaveWip, LocalsTyped
  <2>3. PcTyped' BY <1>15, GotoTyped DEF SaveWip, TodoHeld
  <2> QED BY <1>15, <2>1, <2>2, <2>3 DEF SaveWip
<1>16. ASSUME NEW p \in Conductor, ListWip(p) PROVE TypeOK'
  BY <1>16, LoopTyped, GotoTyped DEF ListWip, InStatus, PullerPcs
<1>17. ASSUME NEW p \in Conductor, CheckStatus(p) PROVE TypeOK'
  BY <1>17, GotoFrame DEF CheckStatus, WipHeld
<1>18. ASSUME NEW p \in Conductor, CheckRaises(p) \/ EndCycle(p) PROVE TypeOK'
  BY <1>18, AbortTyped DEF CheckRaises, EndCycle
<1>19. ASSUME NEW p \in Conductor, RecordDone(p) \/ FailRecord(p) \/ CancelRecord(p)
       PROVE TypeOK'
  BY <1>19, InsertTyped DEF RecordDone, FailRecord, CancelRecord, WipHeld
<1>20. ASSUME NEW p \in Conductor, SaveDone(p) \/ FailSave(p) \/ CancelSave(p)
       PROVE TypeOK'
  <2>1. cur[p] \in Task
    BY <1>20, <1>w DEF SaveDone, FailSave, CancelSave, At, WipHeld, InHandOK, HasBackup
  <2> QED BY <1>20, <2>1, SaveTyped DEF SaveDone, FailSave, CancelSave, WipHeld, Status
<1>21. ASSUME NEW p \in Conductor, FailDelete(p) \/ CancelDelete(p) PROVE TypeOK'
  <2>1. TablesTyped' BY <1>21, CinderTyped DEF FailDelete, CancelDelete
  <2> QED BY <1>21, <2>1, GotoFrame DEF FailDelete, CancelDelete, WipHeld
<1>22. ASSUME NEW p \in Conductor, CancelNext(p) PROVE TypeOK'
  <2>1. PICK t \in list[p] :
          \/ Take(p, t) /\ Goto(p, "cancelDelete") /\ UNCHANGED queue
          \/ Skip(p, t) /\ DeleteRow(t) /\ UNCHANGED pc
          \/ Take(p, t) /\ Goto(p, "cancelSave") /\ UNCHANGED queue
    BY <1>22 DEF CancelNext
  <2>2. t \in Task BY DEF LocalsTyped
  <2>3. TablesTyped' BY <1>22, <2>1, <2>2, RowFrame DEF CancelNext, DeleteRow, Status, tables
  <2>4. LocalsTyped' BY <2>1, <2>2, TakeTyped, SkipTyped
  <2>5. PcTyped' BY <2>1, GotoTyped
  <2> QED BY <1>22, <2>3, <2>4, <2>5 DEF CancelNext
<1>23. ASSUME NEW p \in Conductor, CancelUnknownProject(p) PROVE TypeOK'
  <2>1. TablesTyped'
    BY <1>23, RowFrame DEF CancelUnknownProject, DeleteRow, Status, LocalsTyped
  <2> QED BY <1>23, <2>1, AbortTyped DEF CancelUnknownProject
<1>24. ASSUME NEW p \in Conductor, CancelDone(p) PROVE TypeOK'
  BY <1>24, GotoFrame DEF CancelDone, PullerPcs
<1>25. ASSUME NEW p \in Conductor, ReportAndPurge(p) PROVE TypeOK'
  <2>1. TablesTyped' BY <1>25 DEF ReportAndPurge, TablesTyped, Row, Status
  <2> QED BY <1>25, <2>1, GotoFrame DEF ReportAndPurge
<1>26. ASSUME NEW p \in Conductor, Timeout(p) PROVE TypeOK'
  <2>1. LocalsTyped' BY <1>26 DEF Timeout, LocalsTyped
  <2> QED BY <1>26, <2>1 DEF Timeout
<1>27. ASSUME NEW p \in Conductor, Crash(p) PROVE TypeOK'
  <2>1. LocksTyped' BY <1>27 DEF Crash, LeaveLocks, LocksTyped
  <2>2. LocalsTyped' BY <1>27 DEF Crash, ClearLocals, LocalsTyped
  <2>3. PcTyped' BY <1>27, GotoTyped DEF Crash
  <2> QED BY <1>27, <2>1, <2>2, <2>3 DEF Crash
<1>28. ASSUME NEW p \in Conductor, Restart(p) PROVE TypeOK'
  BY <1>28, GotoFrame DEF Restart
<1>29. CASE Expire
  <2>1. LocksTyped' BY <1>29 DEF Expire, LocksTyped
  <2> QED BY <1>29, <2>1 DEF Expire
<1>30. ASSUME NEW b \in Backup, CinderWork(b) PROVE TypeOK'
  <2>1. TablesTyped' BY <1>30 DEF CinderWork, TablesTyped, tables
  <2> QED BY <1>30, <2>1 DEF CinderWork
<1> QED
  BY <1>u, <1>1, <1>2, <1>3, <1>4, <1>5, <1>6, <1>7, <1>8, <1>9, <1>10, <1>11, <1>12,
     <1>13, <1>14, <1>15, <1>16, <1>17, <1>18, <1>19, <1>20, <1>21, <1>22, <1>23, <1>24,
     <1>25, <1>26, <1>27, <1>28, <1>29, <1>30
  DEF Next, Step

-----------------------------------------------------------------------------
(* What one step of a worker may do to the shared tables.                  *)

\* A row is allocated, is advanced by the worker that has claimed it, or
\* moves among the stages where its backup id is fixed.
Allocated(t) ==
  /\ queue[t].status = "UNUSED" /\ queue'[t].status \in {"PLANNED", "FAILED"}
  /\ queue'[t].volume \in Volume /\ queue'[t].backup = NULL
Advanced(p, t) ==
  /\ t = cur[p] /\ pc[p] \in {"claimSave", "create", "saveWip"}
  /\ queue'[t].volume = queue[t].volume
  /\ queue'[t].status \in (IF pc[p] = "claimSave" THEN {"INIT"}
                           ELSE IF pc[p] = "create" THEN {"INIT", "FAILED", "GONE"}
                           ELSE {"WIP"})
  /\ queue'[t].backup = IF pc[p] = "saveWip" THEN made[p] ELSE queue[t].backup
Settled(t) ==
  /\ queue[t].status \in Started /\ queue'[t].status \in Started
  /\ queue'[t].volume = queue[t].volume /\ queue'[t].backup = queue[t].backup
  /\ queue'[t].status = "WIP" => queue[t].status = "WIP"
  /\ queue'[t].status = "COMPLETED" /\ queue[t].status # "COMPLETED"
       => BackupOf(t) \in Backup /\ record[BackupOf(t)] = "completed"
  /\ queue[t].status = "GONE" => queue'[t].status = "GONE"

RowEffect(p, t) ==
  queue'[t] = queue[t] \/ Allocated(t) \/ Advanced(p, t) \/ Settled(t)

\* At most one backup is attributed to a task, the one in hand at "create".
Attributed(b) == cinder'[b].task # cinder[b].task
CinderEffect(p) ==
  /\ \A b \in Backup : Attributed(b) =>
       /\ pc[p] = "create" /\ cinder[b].status = "absent" /\ cinder'[b].task = cur[p]
       /\ queue'[cur[p]].status \notin {"UNUSED", "PLANNED"}
  /\ \A b, c \in Backup : Attributed(b) /\ Attributed(c) => b = c
  /\ \A b \in Backup : cinder'[b].status = "absent"
                          => cinder[b].status = "absent" /\ ~Attributed(b)

\* Nothing Cinder does here makes a backup.
CinderQuiet ==
  \A b \in Backup :
    /\ cinder'[b].task = cinder[b].task
    /\ cinder'[b].status = "absent" => cinder[b].status = "absent"

\* backup_data is only inserted into.
RecordEffect == \A b \in Backup : record[b] # "none" => record'[b] = record[b]

Effects(p) ==
  (\A t \in Task : RowEffect(p, t)) /\ CinderEffect(p) /\ RecordEffect

\* The step is invisible to worker q.
Unseen(q) ==
  /\ pc'[q] = pc[q] /\ list'[q] = list[q] /\ cur'[q] = cur[q] /\ made'[q] = made[q]
  /\ \A v \in Volume : lock[v] = q => lock'[v] = q

WorkerOK(q) == HoldsLock(q) /\ InHandOK(q) /\ ListOK(q)

\* A backup is made once, for one task.
LEMMA OwnersPersist ==
  ASSUME NEW p \in Conductor, Inductive, Effects(p), NEW b \in Backup, cinder[b].task # 0
  PROVE  cinder'[b].task = cinder[b].task
  BY DEF Inductive, Effects, CinderEffect, Attributed, FreshOK

\* Effects preserve the invariants of the tables.
LEMMA TablesPreserved ==
  ASSUME NEW p \in Conductor, Inductive, TypeOK', Effects(p)
  PROVE  RowsOK' /\ FreshOK' /\ OneBackupPerTask' /\ CompletedIsRecorded'
<1>1. CinderEffect(p) /\ FreshOK BY DEF Effects, Inductive
<1>2. pc[p] = "create" => cur[p] \in Task /\ Untried(cur[p])
  BY DEF Inductive, HoldsLock, InHandOK, TodoHeld
<1>3. ASSUME NEW t \in Task
      PROVE  /\ queue'[t].status # "UNUSED" => queue'[t].volume \in Volume
             /\ queue'[t].status \in {"UNUSED", "PLANNED"} => Untried(t)'
             /\ queue'[t].status \in {"WIP", "COMPLETED"} => queue'[t].backup \in Backup
  <2>1. RowEffect(p, t) BY DEF Effects
  <2>2. /\ queue[t].status # "UNUSED" => queue[t].volume \in Volume
        /\ queue[t].status \in {"UNUSED", "PLANNED"} => Untried(t)
        /\ queue[t].status \in {"WIP", "COMPLETED"} => queue[t].backup \in Backup
    BY DEF Inductive, RowsOK, VolumeOf, BackupOf
  <2>3. pc[p] \in {"claimSave", "create", "saveWip"} => queue[cur[p]].status # "UNUSED"
    BY DEF Inductive, HoldsLock, TodoHeld
  <2>7. pc[p] = "saveWip" => made[p] \in Backup BY DEF Inductive, InHandOK
  <2>4. queue'[t].status # "UNUSED" => queue'[t].volume \in Volume
    BY <2>1, <2>2, <2>3 DEF RowEffect, Allocated, Advanced, Settled, Started
  <2>5. queue'[t].status \in {"WIP", "COMPLETED"} => queue'[t].backup \in Backup
    BY <2>1, <2>2, <2>7 DEF RowEffect, Allocated, Advanced, Settled, BackupOf
  <2>6. queue'[t].status \in {"UNUSED", "PLANNED"} => queue[t].status \in {"UNUSED", "PLANNED"}
    BY <2>1 DEF RowEffect, Allocated, Advanced, Settled, Started
  <2>8. queue'[t].status \in {"UNUSED", "PLANNED"} => Untried(t)'
    BY <1>1, <2>2, <2>6 DEF Untried, CinderEffect, Attributed
  <2> QED BY <2>4, <2>5, <2>8
<1>8. FreshOK' BY <1>1 DEF FreshOK, CinderEffect, Attributed
<1>9. ASSUME NEW t \in Task, queue'[t].backup \in Backup
      PROVE  cinder'[queue'[t].backup].task = t
  <2>1. RowEffect(p, t) /\ NULL \notin Backup BY ConductorAssumption DEF Effects
  <2>2. pc[p] = "saveWip" => made[p] \in Backup /\ cinder[made[p]].task = cur[p]
    BY DEF Inductive, InHandOK
  <2>3. queue[t].backup \in Backup => cinder[queue[t].backup].task = t
    BY DEF Inductive, RowsOK, BackupOf
  <2>4. cinder[queue'[t].backup].task = t
    BY <1>9, <2>1, <2>2, <2>3 DEF RowEffect, Allocated, Advanced, Settled
  <2> QED BY <1>9, <2>4, OwnersPersist DEF Task
<1>4. RowsOK' BY <1>3, <1>9 DEF RowsOK, VolumeOf, BackupOf
<1>5. OneBackupPerTask'
  BY <1>1, <1>2 DEF Inductive, OneBackupPerTask, Untried, CinderEffect, Attributed
<1>6. CompletedIsRecorded'
  <2> SUFFICES ASSUME NEW t \in Task, queue'[t].status = "COMPLETED"
               PROVE  queue'[t].backup \in Backup /\ record'[queue'[t].backup] = "completed"
    BY DEF CompletedIsRecorded, InStatus, BackupOf
  <2>1. RowEffect(p, t) /\ RecordEffect BY DEF Effects
  <2>2. queue[t].status = "COMPLETED"
          => queue[t].backup \in Backup /\ record[queue[t].backup] = "completed"
    BY DEF Inductive, CompletedIsRecorded, InStatus, BackupOf
  <2>3. /\ queue'[t].backup = queue[t].backup
        /\ queue[t].backup \in Backup /\ record[queue[t].backup] = "completed"
    BY <2>1, <2>2 DEF RowEffect, Allocated, Advanced, Settled, BackupOf
  <2> QED BY <2>1, <2>3 DEF RecordEffect
<1> QED BY <1>4, <1>5, <1>6, <1>8

\* What an unstarted or started row looked like, it still looks like.
LEMMA RowsPersist ==
  ASSUME NEW p \in Conductor, Inductive, Effects(p), NEW t \in Task
  PROVE  /\ queue[t].status # "UNUSED" => queue'[t].status # "UNUSED"
                                          /\ queue'[t].volume = queue[t].volume
         /\ HasBackup(t) => HasBackup(t)' /\ queue'[t].backup = queue[t].backup
<1>1. RowEffect(p, t) BY DEF Effects
<1>2. pc[p] \in {"claimSave", "create", "saveWip"} => queue[cur[p]].status \in {"PLANNED", "INIT"}
  BY DEF Inductive, InHandOK
<1> QED BY <1>1, <1>2 DEF RowEffect, Allocated, Advanced, Settled, Started, HasBackup, BackupOf

\* Effects of p are harmless to a worker that does not see the step.
LEMMA OthersPreserved ==
  ASSUME NEW p \in Conductor, NEW q \in Conductor \ {p}, Inductive, TypeOK', Effects(p),
         Unseen(q)
  PROVE  WorkerOK(q)'
<1>0. PICK t : t = cur[q] OBVIOUS
<1>1. HoldsLock(q) /\ InHandOK(q) /\ ListOK(q) /\ HoldsLock(p) /\ InHandOK(p)
  BY DEF Inductive
<1>2. HoldsLock(q)'
  <2> SUFFICES ASSUME pc[q] \in TodoHeld \cup WipHeld
               PROVE  t \in Task /\ queue'[t].status # "UNUSED" /\ lock'[queue'[t].volume] = q
    BY <1>0 DEF HoldsLock, Unseen, VolumeOf
  <2>1. t \in Task /\ queue[t].status # "UNUSED" /\ lock[queue[t].volume] = q
    BY <1>0, <1>1 DEF HoldsLock, VolumeOf
  <2>2. queue[t].volume \in Volume BY <2>1 DEF Inductive, RowsOK, VolumeOf
  <2> QED BY <2>1, <2>2, RowsPersist DEF Unseen
<1>3. ASSUME pc[q] \in {"claimSave", "create", "saveWip"}
      PROVE  queue'[t] = queue[t] /\ (pc[q] = "create" => Untried(t)')
  <2>1. t \in Task /\ queue[t].status \in {"PLANNED", "INIT"} /\ lock[queue[t].volume] = q
    BY <1>0, <1>1, <1>3 DEF HoldsLock, InHandOK, TodoHeld, VolumeOf
  <2>2. pc[p] \in {"claimSave", "create", "saveWip"} => cur[p] # t
    BY <1>0, <1>1, <2>1 DEF HoldsLock, TodoHeld, VolumeOf
  <2>3. queue'[t] = queue[t]
    BY <2>1, <2>2 DEF Effects, RowEffect, Allocated, Advanced, Settled, Started
  <2>4. pc[q] = "create" => Untried(t)'
    BY <1>0, <1>1, <2>2 DEF Effects, CinderEffect, Attributed, Untried, InHandOK
  <2> QED BY <2>3, <2>4
<1>4. InHandOK(q)'
  <2>1. \A u \in Task : HasBackup(u) => HasBackup(u)' /\ queue'[u].backup = queue[u].backup
    BY RowsPersist
  <2>2. pc[q] \in WipHeld \cup {"cancelDelete", "cancelRecord", "cancelSave"}
          => HasBackup(t) /\ HasBackup(t)' /\ queue'[t].backup = queue[t].backup
    BY <1>0, <1>1, <2>1 DEF InHandOK, HasBackup
  <2>3. pc[q] = "saveDone" => record'[queue'[t].backup] = "completed"
    BY <1>0, <1>1, <2>2 DEF InHandOK, WipHeld, Effects, RecordEffect, HasBackup, BackupOf
  <2>4. pc'[q] = pc[q] /\ cur'[q] = cur[q] /\ made'[q] = made[q] BY DEF Unseen
  <2>5. /\ pc[q] = "claimSave" => queue'[t].status = "PLANNED"
        /\ pc[q] = "create" => queue'[t].status = "INIT" /\ Untried(t)'
        /\ pc[q] = "saveWip"
             => queue'[t].status = "INIT" /\ made[q] \in Backup /\ cinder[made[q]].task = t
    BY <1>0, <1>1, <1>3 DEF InHandOK
  <2>6. pc[q] = "saveWip" => cinder'[made[q]].task = t
    <3>1. pc[q] = "saveWip" => t \in Task BY <1>0, <1>1 DEF HoldsLock, TodoHeld
    <3> QED BY <2>5, <3>1, OwnersPersist DEF Task
  <2> QED BY <1>0, <2>2, <2>3, <2>4, <2>5, <2>6 DEF InHandOK, BackupOf, HasBackup, Untried
<1>5. ListOK(q)'
  <2>1. \A u \in list[q] : u \in Task BY DEF Inductive, TypeOK
  <2>2. \A u \in list[q] : queue'[u].status # "UNUSED"
    BY <1>1, <2>1, RowsPersist DEF ListOK
  <2>3. pc[q] \in WipLoop => \A u \in list[q] : HasBackup(u)'
    BY <1>1, <2>1, RowsPersist DEF ListOK
  <2> QED BY <2>2, <2>3 DEF ListOK, Unseen, HasBackup, BackupOf
<1> QED BY <1>2, <1>4, <1>5 DEF WorkerOK

-----------------------------------------------------------------------------
(* Recurring parts of a step of worker p.                                  *)

Private(p) == \A q \in Conductor \ {p} : Unseen(q)

Fine(p) == Effects(p) /\ Private(p) /\ WorkerOK(p)'

\* Nothing changes in the tables, and Cinder attributes no backup.
LEMMA NoEffect ==
  ASSUME NEW p \in Conductor, UNCHANGED tables,
         CinderQuiet
  PROVE  Effects(p)
<1>1. queue' = queue /\ record' = record BY DEF tables
<1>2. CinderEffect(p) BY DEF CinderEffect, CinderQuiet, Attributed
<1> QED BY <1>1, <1>2 DEF Effects, RowEffect, RecordEffect

\* Only the status of row t changes.
LEMMA OneRowEffect ==
  ASSUME NEW p \in Conductor, TypeOK, NEW t \in Task, NEW s, SetStatus(t, s),
         queue'[t].status = s /\ queue'[t].volume = queue[t].volume
           /\ queue'[t].backup = queue[t].backup
         => RowEffect(p, t),
         UNCHANGED <<record, cinder>>
  PROVE  Effects(p)
<1>1. /\ queue'[t].status = s /\ queue'[t].volume = queue[t].volume
      /\ queue'[t].backup = queue[t].backup
      /\ \A u \in Task \ {t} : queue'[u] = queue[u]
  BY DEF SetStatus, TypeOK, Row
<1> QED BY <1>1 DEF Effects, RowEffect, CinderEffect, Attributed, RecordEffect

\* A started row is closed or deleted.
LEMMA CloseEffect ==
  ASSUME NEW p \in Conductor, TypeOK, NEW t, NEW s \in {"FAILED", "GONE"},
         HasBackup(t), queue[t].status = "GONE" => s = "GONE", SetStatus(t, s),
         UNCHANGED <<record, cinder>>
  PROVE  Effects(p)
<1>1. t \in Task /\ queue[t].status \in Started BY DEF HasBackup
<1> QED BY <1>1, OneRowEffect DEF RowEffect, Settled, Started

\* Cinder is asked to delete a backup.
LEMMA DeleteKeepsTask ==
  ASSUME TypeOK, NEW b, DeleteAccepted(b) \/ DeleteRaises(b)
  PROVE  CinderQuiet
  BY DEF TypeOK, CinderQuiet, DeleteAccepted, DeleteRaises

LEMMA StillQuiet == UNCHANGED cinder => CinderQuiet
  BY DEF CinderQuiet

LEMMA GotoPrivate ==
  ASSUME NEW p \in Conductor, TypeOK, NEW w, Goto(p, w),
         UNCHANGED locks, UNCHANGED locals
  PROVE  /\ Private(p) /\ pc'[p] = w
         /\ list'[p] = list[p] /\ cur'[p] = cur[p] /\ made'[p] = made[p]
         /\ UNCHANGED lock
  BY DEF TypeOK, Goto, Private, Unseen, locks, locals

LEMMA UnwindPrivate ==
  ASSUME NEW p \in Conductor, TypeOK, Unwind(p)
  PROVE  Private(p) /\ pc'[p] = "idle" /\ list'[p] = {}
  BY ConductorAssumption DEF TypeOK, Unwind, Goto, LeaveLocks, ClearLocals, Private, Unseen

\* A worker outside its loops has nothing in hand.
LEMMA IdleOK ==
  ASSUME NEW p \in Conductor, list'[p] = {},
         pc'[p] \in {"idle", "down"}
  PROVE  WorkerOK(p)'
  BY DEF WorkerOK, HoldsLock, InHandOK, ListOK, TodoHeld, WipHeld, WipLoop

LEMMA AbortFine ==
  ASSUME NEW p \in Conductor, TypeOK, Unwind(p), Effects(p)
  PROVE  Fine(p)
  BY UnwindPrivate, IdleOK DEF Fine

LEMMA KeepLock ==
  ASSUME NEW p \in Conductor, Inductive, Effects(p), UNCHANGED lock,
         pc[p] \in TodoHeld \cup WipHeld, cur'[p] = cur[p]
  PROVE  HoldsLock(p)'
<1>1. cur[p] \in Task /\ queue[cur[p]].status # "UNUSED" /\ lock[VolumeOf(cur[p])] = p
  BY DEF Inductive, HoldsLock
<1> QED BY <1>1, RowsPersist DEF HoldsLock, VolumeOf

LEMMA KeepList ==
  ASSUME NEW p \in Conductor, Inductive, Effects(p), list'[p] \subseteq list[p],
         pc'[p] \in WipLoop => pc[p] \in WipLoop
  PROVE  ListOK(p)'
<1>1. \A t \in list[p] : t \in Task BY DEF Inductive, TypeOK
<1>2. ListOK(p) BY DEF Inductive
<1>3. \A t \in list'[p] : queue'[t].status # "UNUSED"
  BY <1>1, <1>2, RowsPersist DEF ListOK
<1>4. pc'[p] \in WipLoop => \A t \in list'[p] : HasBackup(t)'
  BY <1>1, <1>2, RowsPersist DEF ListOK
<1> QED BY <1>3, <1>4 DEF ListOK, HasBackup, BackupOf

LEMMA KeepBackup ==
  ASSUME NEW p \in Conductor, Inductive, Effects(p), HasBackup(cur[p]),
         cur'[p] = cur[p]
  PROVE  HasBackup(cur[p])' /\ queue'[cur'[p]].backup = queue[cur[p]].backup
<1>1. PICK t : t = cur[p] OBVIOUS
<1>2. t \in Task BY <1>1 DEF HasBackup
<1>3. HasBackup(t)' /\ queue'[t].backup = queue[t].backup BY <1>1, <1>2, RowsPersist
<1> QED BY <1>1, <1>3 DEF HasBackup, BackupOf

\* Saving a row that is closed with status s.
LEMMA SaveFine ==
  ASSUME NEW p \in Conductor, Inductive, NEW t, NEW s \in {"FAILED", "COMPLETED"}, NEW w,
         HasBackup(t), Save(p, t, s, w), UNCHANGED cinder,
         s = "COMPLETED" => record[BackupOf(t)] = "completed",
         w \in {"wipUnlock", "cancel"}, pc[p] \in WipLoop,
         w = "wipUnlock" => pc[p] \in WipHeld /\ t = cur[p]
  PROVE  Fine(p)
<1>0. TypeOK /\ t \in Task /\ queue[t].status \in Started BY DEF Inductive, HasBackup
<1>1. CASE Exists(t) /\ SetStatus(t, s) /\ Goto(p, w) /\ UNCHANGED <<record, locks, locals>>
  <2>1. Effects(p)
    BY <1>0, <1>1, OneRowEffect DEF RowEffect, Settled, Started, HasBackup, Exists, BackupOf
  <2>2. /\ Private(p) /\ pc'[p] = w /\ list'[p] = list[p] /\ cur'[p] = cur[p]
        /\ UNCHANGED lock
    BY <1>0, <1>1, GotoPrivate
  <2>3. HoldsLock(p)'
    <3>1. CASE w = "wipUnlock" BY <2>1, <2>2, <3>1, KeepLock
    <3>2. CASE w = "cancel" BY <2>2, <3>2 DEF HoldsLock, TodoHeld, WipHeld
    <3> QED BY <3>1, <3>2
  <2>4. ListOK(p)' BY <2>1, <2>2, KeepList
  <2>5. InHandOK(p)'
    <3>1. CASE w = "wipUnlock"
      BY <2>1, <2>2, <3>1, KeepBackup DEF InHandOK
    <3>2. CASE w = "cancel" BY <2>2, <3>2 DEF InHandOK, WipHeld
    <3> QED BY <3>1, <3>2
  <2> QED BY <2>1, <2>2, <2>3, <2>4, <2>5 DEF Fine, WorkerOK
<1>2. CASE Abort(p) /\ UNCHANGED tables
  BY <1>0, <1>2, NoEffect, StillQuiet, AbortFine DEF Abort
<1> QED BY <1>1, <1>2 DEF Save

\* Recording the backup of the row in hand.
LEMMA InsertFine ==
  ASSUME NEW p \in Conductor, Inductive, NEW c \in {"completed", "failed"}, NEW w,
         HasBackup(cur[p]), Insert(p, BackupOf(cur[p]), c, w), UNCHANGED cinder,
         w \in {"saveDone", "failSave", "cancelSave"}, pc[p] \in WipLoop,
         w # "cancelSave" => pc[p] \in WipHeld,
         w = "saveDone" => c = "completed"
  PROVE  Fine(p)
<1>0. TypeOK /\ BackupOf(cur[p]) \in Backup BY DEF Inductive, HasBackup
<1>1. CASE /\ record[BackupOf(cur[p])] = "none"
           /\ record' = [record EXCEPT ![BackupOf(cur[p])] = c]
           /\ Goto(p, w) /\ UNCHANGED <<queue, locks, locals>>
  <2>1. Effects(p)
    BY <1>0, <1>1 DEF TypeOK, Effects, RowEffect, CinderEffect, Attributed, RecordEffect
  <2>2. /\ Private(p) /\ pc'[p] = w /\ list'[p] = list[p] /\ cur'[p] = cur[p]
        /\ UNCHANGED lock
    BY <1>0, <1>1, GotoPrivate
  <2>3. HoldsLock(p)'
    <3>1. CASE w # "cancelSave" BY <2>1, <2>2, <3>1, KeepLock
    <3>2. CASE w = "cancelSave" BY <2>2, <3>2 DEF HoldsLock, TodoHeld, WipHeld
    <3> QED BY <3>1, <3>2
  <2>4. ListOK(p)' BY <2>1, <2>2, KeepList
  <2>5. HasBackup(cur[p])' BY <2>1, <2>2, KeepBackup
  <2>6. record'[BackupOf(cur[p])] = c BY <1>0, <1>1 DEF TypeOK
  <2>7. InHandOK(p)' BY <1>1, <2>2, <2>5, <2>6 DEF InHandOK, BackupOf
  <2> QED BY <2>1, <2>2, <2>3, <2>4, <2>7 DEF Fine, WorkerOK
<1>2. CASE Abort(p) /\ UNCHANGED tables
  BY <1>0, <1>2, NoEffect, StillQuiet, AbortFine DEF Abort
<1> QED BY <1>1, <1>2 DEF Insert

\* Moving on without anything in hand and without touching the tables.
LEMMA MoveFine ==
  ASSUME NEW p \in Conductor, Inductive, NEW w, Goto(p, w), UNCHANGED <<tables, locks, locals>>,
         CinderQuiet,
         w \notin TodoHeld \cup WipLoop
  PROVE  Fine(p)
<1>1. Effects(p) BY NoEffect
<1>2. /\ Private(p) /\ pc'[p] = w /\ list'[p] = list[p] BY GotoPrivate DEF Inductive
<1>3. ListOK(p)' BY <1>1, <1>2, KeepList
<1> QED BY <1>1, <1>2, <1>3
  DEF Fine, WorkerOK, HoldsLock, InHandOK, TodoHeld, WipHeld, WipLoop

-----------------------------------------------------------------------------
(* Every step of a worker is fine.                                         *)

LEMMA UpdateQueueFine ==
  ASSUME NEW p \in Conductor, Inductive, TypeOK',
         \/ StartCycle(p) \/ ReadWip(p) \/ ReadPlanned(p) \/ Survey(p)
         \/ SurveyRaises(p) \/ Enqueue(p)
  PROVE  Fine(p)
<1>0. TypeOK BY DEF Inductive
<1>1. CASE StartCycle(p) \/ ReadWip(p) \/ ReadPlanned(p) \/ Survey(p)
  <2>1. Effects(p)
    BY <1>1, NoEffect, StillQuiet DEF StartCycle, ReadWip, ReadPlanned, Survey
  <2>2. /\ Private(p) /\ list'[p] = list[p]
        /\ pc'[p] \in {"readWip", "listTodo", "readPlanned", "survey", "enqueue"}
    BY <1>0, <1>1
    DEF StartCycle, ReadWip, ReadPlanned, Survey, Goto, TypeOK, Private, Unseen,
        locks, locals
  <2>3. ListOK(p)' BY <2>1, <2>2, KeepList DEF WipLoop, WipHeld
  <2> QED BY <2>1, <2>2, <2>3
    DEF Fine, WorkerOK, HoldsLock, InHandOK, TodoHeld, WipHeld
<1>2. CASE SurveyRaises(p)
  BY <1>0, <1>2, NoEffect, StillQuiet, AbortFine DEF SurveyRaises
<1>3. CASE Enqueue(p)
  <2>1. Effects(p)
    <3>1. CASE plan[p] = {} /\ UNCHANGED <<queue, record, cinder>>
      BY <3>1, NoEffect, StillQuiet DEF tables
    <3>2. CASE /\ \E m \in plan[p], t \in InStatus("UNUSED") :
                    queue' = [queue EXCEPT ![t] =
                                [status |-> m.status, volume |-> m.volume,
                                 backup |-> NULL, incremental |-> m.incremental]]
               /\ UNCHANGED <<record, cinder>>
      <4>1. PICK m \in plan[p], t \in InStatus("UNUSED") :
              queue' = [queue EXCEPT ![t] =
                          [status |-> m.status, volume |-> m.volume,
                           backup |-> NULL, incremental |-> m.incremental]]
        BY <3>2
      <4>2. m.status \in {"PLANNED", "FAILED"} /\ m.volume \in Volume
        BY <1>0, ConductorAssumption DEF TypeOK, QueueMapping
      <4>3. t \in Task /\ queue[t].status = "UNUSED" BY DEF InStatus
      <4>4. Allocated(t) BY <1>0, <4>1, <4>2, <4>3 DEF Allocated, TypeOK
      <4>5. \A u \in Task \ {t} : queue'[u] = queue[u] BY <1>0, <4>1 DEF TypeOK
      <4> QED BY <3>2, <4>4, <4>5 DEF Effects, RowEffect, CinderEffect, Attributed, RecordEffect
    <3> QED BY <1>3, <3>1, <3>2 DEF Enqueue
  <2>2. Private(p) /\ list'[p] = list[p] /\ pc'[p] \in {"enqueue", "listTodo"}
    BY <1>0, <1>3 DEF Enqueue, At, Goto, TypeOK, Private, Unseen, locks
  <2>3. ListOK(p)' BY <2>1, <2>2, KeepList DEF WipLoop, WipHeld
  <2> QED BY <2>1, <2>2, <2>3
    DEF Fine, WorkerOK, HoldsLock, InHandOK, TodoHeld, WipHeld
<1> QED BY <1>1, <1>2, <1>3

\* Taking the lock of the next row.
LEMMA LockNextFine ==
  ASSUME NEW p \in Conductor, Inductive, NEW w, LockNext(p, w),
         w \in {"claimRead", "check"},
         pc[p] = (IF w = "check" THEN "wip" ELSE "todo")
  PROVE  Fine(p)
<1>0. TypeOK /\ ListOK(p) /\ RowsOK BY DEF Inductive
<1>1. PICK t \in list[p] :
        /\ IF lock[VolumeOf(t)] = Free
             THEN /\ lock' = [lock EXCEPT ![VolumeOf(t)] = p]
                  /\ Take(p, t) /\ Goto(p, w)
             ELSE Skip(p, t) /\ UNCHANGED <<lock, pc>>
        /\ UNCHANGED <<tables, cinder, puller>>
  BY DEF LockNext
<1>2. Effects(p) BY <1>1, NoEffect, StillQuiet
<1>3. t \in Task /\ queue[t].status # "UNUSED" /\ VolumeOf(t) \in Volume
  BY <1>0 DEF TypeOK, ListOK, RowsOK
<1>4. queue' = queue BY <1>1 DEF tables
<1>5. CASE /\ lock[VolumeOf(t)] = Free
           /\ lock' = [lock EXCEPT ![VolumeOf(t)] = p]
           /\ Take(p, t) /\ Goto(p, w)
  <2>1. /\ pc'[p] = w /\ cur'[p] = t /\ list'[p] \subseteq list[p]
        /\ lock'[VolumeOf(t)] = p /\ Private(p)
    BY <1>0, <1>3, <1>5, ConductorAssumption
    DEF TypeOK, Take, Goto, Private, Unseen
  <2>2. HoldsLock(p)' BY <1>3, <1>4, <2>1 DEF HoldsLock, VolumeOf
  <2>3. ListOK(p)' BY <1>2, <2>1, KeepList DEF WipLoop, WipHeld
  <2>4. w = "check" => HasBackup(t) BY <1>0, <1>1 DEF ListOK, WipLoop
  <2>5. InHandOK(p)' BY <1>4, <2>1, <2>4 DEF InHandOK, WipHeld, HasBackup, BackupOf
  <2> QED BY <1>2, <2>1, <2>2, <2>3, <2>5 DEF Fine, WorkerOK
<1>6. CASE Skip(p, t) /\ UNCHANGED <<lock, pc>>
  <2>1. /\ pc' = pc /\ list'[p] \subseteq list[p] /\ Private(p)
    BY <1>0, <1>6 DEF TypeOK, Skip, Loop, Private, Unseen
  <2>2. ListOK(p)' BY <1>2, <2>1, KeepList
  <2> QED BY <1>2, <2>1, <2>2 DEF Fine, WorkerOK, HoldsLock, InHandOK, TodoHeld, WipHeld
<1> QED BY <1>1, <1>5, <1>6

LEMMA UnlockFine ==
  ASSUME NEW p \in Conductor, Inductive, NEW w, Unlock(p, w),
         \/ pc[p] = "todoUnlock" /\ w = "todo"
         \/ pc[p] = "wipUnlock" /\ w = "wip"
  PROVE  Fine(p)
<1>0. TypeOK /\ lock[VolumeOf(cur[p])] = p
  BY DEF Inductive, HoldsLock, TodoHeld, WipHeld
<1>1. Effects(p) BY NoEffect, StillQuiet DEF Unlock
<1>2. pc'[p] = w /\ list'[p] = list[p] /\ Private(p)
  BY <1>0 DEF TypeOK, Unlock, Drop, Goto, Private, Unseen
<1>3. ListOK(p)' BY <1>1, <1>2, KeepList DEF WipLoop, WipHeld
<1> QED BY <1>1, <1>2, <1>3 DEF Fine, WorkerOK, HoldsLock, InHandOK, TodoHeld, WipHeld

\* Staying in the with-block of the first loop.
LEMMA TodoStepFine ==
  ASSUME NEW p \in Conductor, Inductive, Effects(p), NEW w,
         pc[p] \in TodoHeld, Goto(p, w), UNCHANGED <<locks, locals>>,
         \/ w = "claimSave" /\ queue'[cur[p]].status = "PLANNED"
         \/ w = "create" /\ queue'[cur[p]].status = "INIT" /\ Untried(cur[p])'
         \/ w = "todoUnlock"
  PROVE  Fine(p)
<1>1. /\ Private(p) /\ pc'[p] = w /\ list'[p] = list[p] /\ cur' = cur
      /\ UNCHANGED lock
  BY GotoPrivate DEF Inductive, locals
<1>2. HoldsLock(p)' BY <1>1, KeepLock
<1>3. ListOK(p)' BY <1>1, KeepList DEF WipLoop, WipHeld
<1>4. InHandOK(p)' BY <1>1 DEF InHandOK, WipHeld, Untried
<1> QED BY <1>1, <1>2, <1>3, <1>4 DEF Fine, WorkerOK

LEMMA TodoFine ==
  ASSUME NEW p \in Conductor, Inductive, TypeOK',
         \/ ListTodo(p) \/ TodoLock(p) \/ TodoUnlock(p) \/ TodoDone(p)
         \/ ClaimRead(p) \/ ClaimSave(p) \/ CreateUnknownProject(p)
         \/ CreateOk(p) \/ CreateNoBase(p) \/ CreateFailed(p) \/ SaveWip(p)
  PROVE  Fine(p)
<1>0. TypeOK /\ InHandOK(p) /\ HoldsLock(p) /\ RowsOK BY DEF Inductive
<1>1. pc[p] \in TodoHeld => cur[p] \in Task BY <1>0 DEF HoldsLock
<1>2. CASE ListTodo(p)
  <2>1. Effects(p) BY <1>2, NoEffect, StillQuiet DEF ListTodo
  <2>2. pc'[p] = "todo" /\ list'[p] = InStatus("PLANNED") /\ Private(p) /\ queue' = queue
    BY <1>0, <1>2 DEF TypeOK, ListTodo, Loop, Goto, Private, Unseen, locks, tables
  <2> QED BY <2>1, <2>2
    DEF Fine, WorkerOK, HoldsLock, InHandOK, ListOK, InStatus, TodoHeld, WipHeld, WipLoop
<1>3. CASE TodoLock(p) BY <1>3, LockNextFine DEF TodoLock, At
<1>4. CASE TodoUnlock(p) BY <1>4, UnlockFine DEF TodoUnlock, At
<1>5. CASE TodoDone(p) BY <1>5, MoveFine, StillQuiet DEF TodoDone, TodoHeld, WipLoop, WipHeld
<1>6. CASE ClaimRead(p)
  <2>1. Effects(p) BY <1>6, NoEffect, StillQuiet DEF ClaimRead
  <2>2. pc[p] \in TodoHeld /\ queue' = queue BY <1>6 DEF ClaimRead, At, TodoHeld, tables
  <2> QED BY <1>0, <1>6, <2>1, <2>2, AbortFine, TodoStepFine DEF ClaimRead, Abort
<1>7. CASE ClaimSave(p)
  <2>1. cur[p] \in Task /\ queue[cur[p]].status = "PLANNED" /\ pc[p] = "claimSave"
    BY <1>0, <1>1, <1>7 DEF ClaimSave, At, InHandOK, TodoHeld
  <2>2. Effects(p)
    BY <1>0, <1>7, <2>1, OneRowEffect DEF ClaimSave, RowEffect, Advanced
  <2>3. queue'[cur[p]].status = "INIT" BY <1>0, <1>7, <2>1 DEF TypeOK, ClaimSave, SetStatus
  <2>4. Untried(cur[p])'
    BY <1>0, <1>7, <2>1 DEF RowsOK, ClaimSave, Untried, locals
  <2> QED BY <1>7, <2>1, <2>2, <2>3, <2>4, TodoStepFine DEF ClaimSave, TodoHeld
<1>8. CASE CreateUnknownProject(p) \/ CreateNoBase(p) \/ CreateFailed(p)
  <2>1. cur[p] \in Task /\ queue[cur[p]].status = "INIT" /\ pc[p] = "create"
    BY <1>0, <1>1, <1>8
    DEF CreateUnknownProject, CreateNoBase, CreateFailed, At, InHandOK, TodoHeld
  <2>2. /\ \A u \in Task \ {cur[p]} : queue'[u] = queue[u]
        /\ queue'[cur[p]].volume = queue[cur[p]].volume
        /\ queue'[cur[p]].backup = queue[cur[p]].backup
        /\ queue'[cur[p]].status \in {"INIT", "FAILED", "GONE"}
    BY <1>0, <1>8, <2>1
    DEF CreateUnknownProject, CreateNoBase, CreateFailed, DeleteRow, SetStatus, TypeOK, Row
  <2>3. CinderEffect(p)
    <3>1. CASE UNCHANGED cinder BY <3>1 DEF CinderEffect, Attributed
    <3>2. CASE \E b \in Backup : CinderCreate(cur[p], b)
      <4>1. PICK b \in Backup : CinderCreate(cur[p], b) BY <3>2
      <4>2. /\ cinder[b].status = "absent" /\ cinder'[b].status = "creating"
            /\ cinder'[b].task = cur[p]
            /\ \A c \in Backup \ {b} : cinder'[c] = cinder[c]
        BY <1>0, <4>1 DEF CinderCreate, TypeOK
      <4> QED BY <2>1, <2>2, <4>2 DEF CinderEffect, Attributed
    <3> QED BY <1>8, <3>1, <3>2 DEF CreateUnknownProject, CreateNoBase, CreateFailed
  <2>4. record' = record BY <1>8 DEF CreateUnknownProject, CreateNoBase, CreateFailed
  <2>5. Effects(p) BY <2>1, <2>2, <2>3, <2>4 DEF Effects, RowEffect, Advanced, RecordEffect
  <2> QED BY <1>8, <2>1, <2>5, TodoStepFine
    DEF CreateUnknownProject, CreateNoBase, CreateFailed, TodoHeld
<1>9. CASE CreateOk(p)
  <2>1. cur[p] \in Task /\ queue[cur[p]].status = "INIT" /\ pc[p] = "create"
    BY <1>0, <1>1, <1>9 DEF CreateOk, At, InHandOK, TodoHeld
  <2>2. PICK b \in Backup : CinderCreate(cur[p], b) /\ made' = [made EXCEPT ![p] = b]
    BY <1>9 DEF CreateOk
  <2>3. queue' = queue /\ record' = record BY <1>9 DEF CreateOk, tables
  <2>4. CinderEffect(p)
    BY <1>0, <2>1, <2>2, <2>3 DEF CinderCreate, CinderEffect, Attributed, TypeOK
  <2>5. Effects(p) BY <2>3, <2>4 DEF Effects, RowEffect, RecordEffect
  <2>6. /\ Private(p) /\ pc'[p] = "saveWip" /\ list' = list /\ cur' = cur
        /\ UNCHANGED lock /\ made'[p] = b
    BY <1>0, <1>9, <2>2 DEF CreateOk, Goto, TypeOK, Private, Unseen, locks
  <2>7. HoldsLock(p)' BY <2>1, <2>5, <2>6, KeepLock DEF TodoHeld
  <2>8. ListOK(p)' BY <2>5, <2>6, KeepList DEF WipLoop, WipHeld
  <2>10. cinder'[b].task = cur[p] BY <1>0, <2>2 DEF CinderCreate, TypeOK
  <2>9. InHandOK(p)' BY <2>1, <2>3, <2>6, <2>10 DEF InHandOK, WipHeld
  <2> QED BY <2>5, <2>6, <2>7, <2>8, <2>9 DEF Fine, WorkerOK
<1>10. CASE SaveWip(p)
  <2>1. /\ cur[p] \in Task /\ queue[cur[p]].status = "INIT" /\ pc[p] = "saveWip"
        /\ made[p] \in Backup
    BY <1>0, <1>1, <1>10 DEF SaveWip, At, InHandOK, TodoHeld
  <2>2. /\ \A u \in Task \ {cur[p]} : queue'[u] = queue[u]
        /\ queue'[cur[p]].volume = queue[cur[p]].volume
        /\ queue'[cur[p]].status = "WIP" /\ queue'[cur[p]].backup = made[p]
    BY <1>0, <1>10, <2>1 DEF SaveWip, TypeOK, Row
  <2>8. Advanced(p, cur[p]) BY <2>1, <2>2 DEF Advanced
  <2>9. cinder' = cinder /\ record' = record BY <1>10 DEF SaveWip
  <2>3. Effects(p)
    BY <2>2, <2>8, <2>9 DEF Effects, RowEffect, CinderEffect, Attributed, RecordEffect
  <2>4. /\ Private(p) /\ pc'[p] = "todoUnlock" /\ list' = list /\ cur' = cur
        /\ UNCHANGED lock
    BY <1>0, <1>10 DEF SaveWip, Goto, TypeOK, Private, Unseen, locks
  <2>5. HoldsLock(p)' BY <2>1, <2>3, <2>4, KeepLock DEF TodoHeld
  <2>6. ListOK(p)' BY <2>3, <2>4, KeepList DEF WipLoop, WipHeld
  <2>7. InHandOK(p)' BY <2>4 DEF InHandOK, WipHeld
  <2> QED BY <2>3, <2>4, <2>5, <2>6, <2>7 DEF Fine, WorkerOK
<1> QED BY <1>2, <1>3, <1>4, <1>5, <1>6, <1>7, <1>8, <1>9, <1>10

\* Staying in the with-block of the second loop.
LEMMA WipStepFine ==
  ASSUME NEW p \in Conductor, Inductive, Effects(p), NEW w,
         pc[p] \in WipHeld, Goto(p, w), UNCHANGED <<locks, locals>>,
         w \in WipHeld \ {"saveDone"}
  PROVE  Fine(p)
<1>1. /\ Private(p) /\ pc'[p] = w /\ list'[p] = list[p] /\ cur'[p] = cur[p]
      /\ UNCHANGED lock
  BY GotoPrivate DEF Inductive
<1>2. HoldsLock(p)' BY <1>1, KeepLock
<1>3. ListOK(p)' BY <1>1, KeepList DEF WipLoop
<1>4. HasBackup(cur[p]) BY DEF Inductive, InHandOK
<1>5. HasBackup(cur[p])' BY <1>1, <1>4, KeepBackup
<1>6. InHandOK(p)' BY <1>1, <1>5 DEF InHandOK, WipHeld
<1> QED BY <1>1, <1>2, <1>3, <1>6 DEF Fine, WorkerOK

LEMMA WipFine ==
  ASSUME NEW p \in Conductor, Inductive, TypeOK',
         \/ ListWip(p) \/ WipLock(p) \/ WipUnlock(p) \/ WipAgain(p)
         \/ CheckStatus(p) \/ CheckNothing(p) \/ CheckRaises(p)
         \/ RecordDone(p) \/ SaveDone(p) \/ FailDelete(p) \/ FailRecord(p)
         \/ FailSave(p)
  PROVE  Fine(p)
<1>0. TypeOK /\ InHandOK(p) /\ RowsOK BY DEF Inductive
<1>1. pc[p] \in WipHeld => HasBackup(cur[p]) BY <1>0 DEF InHandOK
<1>2. CASE ListWip(p)
  <2>1. Effects(p) BY <1>2, NoEffect, StillQuiet DEF ListWip
  <2>2. /\ pc'[p] \in {"report", "endCycle", "cancel", "wip"} /\ Private(p)
        /\ list'[p] = InStatus("WIP") /\ queue' = queue
    BY <1>0, <1>2 DEF TypeOK, ListWip, Loop, Goto, Private, Unseen, locks, tables
  <2>3. \A t \in InStatus("WIP") : HasBackup(t)
    BY <1>0 DEF RowsOK, InStatus, HasBackup, Started
  <2> QED BY <2>1, <2>2, <2>3
    DEF Fine, WorkerOK, HoldsLock, InHandOK, ListOK, InStatus, TodoHeld, WipHeld,
        HasBackup, BackupOf
<1>3. CASE WipLock(p) BY <1>3, LockNextFine DEF WipLock, At
<1>4. CASE WipUnlock(p) BY <1>4, UnlockFine DEF WipUnlock, At
<1>5. CASE WipAgain(p) BY <1>5, MoveFine, StillQuiet DEF WipAgain, TodoHeld, WipLoop, WipHeld
<1>6. CASE CheckStatus(p)
  <2>1. Effects(p) BY <1>6, NoEffect, StillQuiet DEF CheckStatus
  <2> QED BY <1>6, <2>1, WipStepFine DEF CheckStatus, At, WipHeld
<1>7. CASE CheckNothing(p)
  <2>1. Effects(p) BY <1>0, <1>1, <1>7, CloseEffect DEF CheckNothing, At, DeleteRow, WipHeld
  <2> QED BY <1>7, <2>1, WipStepFine DEF CheckNothing, At, WipHeld
<1>8. CASE CheckRaises(p)
  <2>1. Effects(p) BY <1>8, NoEffect, StillQuiet DEF CheckRaises
  <2> QED BY <1>0, <1>8, <2>1, AbortFine DEF CheckRaises, Abort
<1>9. CASE RecordDone(p) \/ FailRecord(p)
  BY <1>1, <1>9, InsertFine DEF RecordDone, FailRecord, At, WipHeld, WipLoop
<1>10. CASE SaveDone(p)
  BY <1>0, <1>1, <1>10, SaveFine DEF SaveDone, At, WipHeld, WipLoop, InHandOK
<1>11. CASE FailSave(p)
  BY <1>1, <1>11, SaveFine DEF FailSave, At, WipHeld, WipLoop
<1>12. CASE FailDelete(p)
  <2>1. Effects(p) BY <1>0, <1>12, DeleteKeepsTask, NoEffect, StillQuiet DEF FailDelete
  <2> QED BY <1>12, <2>1, WipStepFine DEF FailDelete, At, WipHeld
<1> QED BY <1>2, <1>3, <1>4, <1>5, <1>6, <1>7, <1>8, <1>9, <1>10, <1>11, <1>12

LEMMA CancelFine ==
  ASSUME NEW p \in Conductor, Inductive, TypeOK',
         \/ CancelNext(p) \/ CancelUnknownProject(p) \/ CancelDelete(p)
         \/ CancelRecord(p) \/ CancelSave(p) \/ CancelDone(p)
  PROVE  Fine(p)
<1>0. TypeOK /\ InHandOK(p) /\ ListOK(p) BY DEF Inductive
<1>1. pc[p] \in {"cancelDelete", "cancelRecord", "cancelSave"} => HasBackup(cur[p])
  BY <1>0 DEF InHandOK
<1>2. pc[p] = "cancel" => \A t \in list[p] : HasBackup(t) BY <1>0 DEF ListOK, WipLoop
<1>3. CASE CancelNext(p)
  <2>0. pc[p] = "cancel" BY <1>3 DEF CancelNext, At
  <2>1. PICK t \in list[p] :
          \/ Take(p, t) /\ Goto(p, "cancelDelete") /\ UNCHANGED queue
          \/ Skip(p, t) /\ DeleteRow(t) /\ UNCHANGED pc
          \/ Take(p, t) /\ Goto(p, "cancelSave") /\ UNCHANGED queue
    BY <1>3 DEF CancelNext
  <2>2. HasBackup(t) BY <1>2, <2>0
  <2>3. UNCHANGED <<record, cinder, locks>> BY <1>3 DEF CancelNext
  <2>4. CASE /\ Take(p, t) /\ UNCHANGED queue
             /\ Goto(p, "cancelDelete") \/ Goto(p, "cancelSave")
    <3>1. Effects(p) BY <2>3, <2>4, NoEffect, StillQuiet DEF tables
    <3>2. /\ Private(p) /\ cur'[p] = t /\ list'[p] \subseteq list[p]
          /\ pc'[p] \in {"cancelDelete", "cancelSave"}
      BY <1>0, <2>3, <2>4 DEF TypeOK, Take, Goto, Private, Unseen, locks
    <3>3. ListOK(p)' BY <2>0, <3>1, <3>2, KeepList DEF WipLoop
    <3>4. HasBackup(t)' BY <2>2, <2>4 DEF HasBackup, BackupOf
    <3>5. InHandOK(p)' BY <3>2, <3>4 DEF InHandOK, HasBackup, BackupOf
    <3> QED BY <3>1, <3>2, <3>3, <3>5 DEF Fine, WorkerOK, HoldsLock, TodoHeld, WipHeld
  <2>5. CASE Skip(p, t) /\ DeleteRow(t) /\ UNCHANGED pc
    <3>1. Effects(p) BY <1>0, <2>2, <2>3, <2>5, CloseEffect DEF DeleteRow
    <3>2. Private(p) /\ list'[p] \subseteq list[p] /\ pc' = pc
      BY <1>0, <2>3, <2>5 DEF TypeOK, Skip, Loop, Private, Unseen, locks
    <3>3. ListOK(p)' BY <3>1, <3>2, KeepList
    <3> QED BY <2>0, <3>1, <3>2, <3>3
      DEF Fine, WorkerOK, HoldsLock, InHandOK, TodoHeld, WipHeld
  <2> QED BY <2>1, <2>4, <2>5
<1>4. CASE CancelUnknownProject(p)
  <2>1. Effects(p)
    BY <1>0, <1>2, <1>4, CloseEffect DEF CancelUnknownProject, At, DeleteRow
  <2> QED BY <1>0, <1>4, <2>1, AbortFine DEF CancelUnknownProject, Abort
<1>5. CASE CancelDelete(p)
  <2>0. pc[p] = "cancelDelete" BY <1>5 DEF CancelDelete, At
  <2>1. Effects(p) BY <1>0, <1>5, DeleteKeepsTask, NoEffect, StillQuiet DEF CancelDelete
  <2>2. /\ Private(p) /\ cur'[p] = cur[p] /\ list'[p] = list[p]
        /\ pc'[p] \in {"cancelRecord", "cancelSave"}
    BY <1>0, <1>5, GotoPrivate DEF CancelDelete
  <2>3. ListOK(p)' BY <2>0, <2>1, <2>2, KeepList DEF WipLoop
  <2>4. HasBackup(cur[p])' BY <1>1, <2>0, <2>1, <2>2, KeepBackup
  <2>5. InHandOK(p)' BY <2>2, <2>4 DEF InHandOK
  <2> QED BY <2>1, <2>2, <2>3, <2>5 DEF Fine, WorkerOK, HoldsLock, TodoHeld, WipHeld
<1>6. CASE CancelRecord(p)
  BY <1>1, <1>6, InsertFine DEF CancelRecord, At, WipLoop
<1>7. CASE CancelSave(p)
  BY <1>1, <1>7, SaveFine DEF CancelSave, At, WipLoop
<1>8. CASE CancelDone(p)
  BY <1>8, MoveFine, StillQuiet DEF CancelDone, TodoHeld, WipLoop, WipHeld
<1> QED BY <1>3, <1>4, <1>5, <1>6, <1>7, <1>8

LEMMA EndFine ==
  ASSUME NEW p \in Conductor, Inductive, TypeOK',
         ReportAndPurge(p) \/ EndCycle(p) \/ Timeout(p) \/ Crash(p) \/ Restart(p)
  PROVE  Fine(p)
<1>0. TypeOK /\ WorkerOK(p) /\ CompletedIsRecorded BY DEF Inductive, WorkerOK
<1>1. CASE ReportAndPurge(p)
  <2>1. Effects(p)
    <3>1. ASSUME NEW t \in Task PROVE RowEffect(p, t)
      <4>1. \/ queue'[t] = queue[t]
            \/ /\ queue[t].status \in {"COMPLETED", "FAILED"} /\ queue'[t].status = "GONE"
               /\ queue'[t].volume = queue[t].volume /\ queue'[t].backup = queue[t].backup
        BY <1>0, <1>1 DEF ReportAndPurge, TypeOK, Row
      <4> QED BY <4>1 DEF RowEffect, Settled, Started
    <3> QED BY <1>1, <3>1
      DEF ReportAndPurge, Effects, CinderEffect, Attributed, RecordEffect
  <2>2. /\ Private(p) /\ pc'[p] = "endCycle" /\ list'[p] = list[p]
    BY <1>0, <1>1, GotoPrivate DEF ReportAndPurge
  <2>3. ListOK(p)' BY <2>1, <2>2, KeepList DEF WipLoop, WipHeld
  <2> QED BY <2>1, <2>2, <2>3 DEF Fine, WorkerOK, HoldsLock, InHandOK, TodoHeld, WipHeld
<1>2. CASE EndCycle(p)
  BY <1>0, <1>2, NoEffect, StillQuiet, AbortFine DEF EndCycle, Abort
<1>3. CASE Timeout(p)
  <2>1. Effects(p) BY <1>3, NoEffect, StillQuiet DEF Timeout
  <2>2. Private(p) BY <1>3 DEF Timeout, Private, Unseen, locks
  <2>3. WorkerOK(p)'
    BY <1>0, <1>3
    DEF Timeout, tables, locks, WorkerOK, HoldsLock, InHandOK, ListOK, HasBackup,
        Untried, VolumeOf, BackupOf
  <2> QED BY <2>1, <2>2, <2>3 DEF Fine
<1>4. CASE Crash(p)
  <2>1. Effects(p) BY <1>4, NoEffect, StillQuiet DEF Crash
  <2>2. Private(p) /\ pc'[p] = "down" /\ list'[p] = {}
    BY <1>0, <1>4, ConductorAssumption
    DEF Crash, TypeOK, Goto, LeaveLocks, ClearLocals, Private, Unseen
  <2> QED BY <2>1, <2>2, IdleOK DEF Fine
<1>5. CASE Restart(p)
  BY <1>5, MoveFine, StillQuiet DEF Restart, TodoHeld, WipLoop, WipHeld
<1> QED BY <1>1, <1>2, <1>3, <1>4, <1>5

-----------------------------------------------------------------------------
(* The theorems.                                                           *)

LEMMA InitInductive == Init => Inductive
<1> SUFFICES ASSUME Init PROVE Inductive OBVIOUS
<1>1. TypeOK
  BY ConductorAssumption DEF Init, TypeOK, UnusedRow, Row, Status, CinderStatus, Pcs
<1>2. RowsOK
  BY ConductorAssumption DEF Init, UnusedRow, RowsOK, Untried, BackupOf, VolumeOf, Task
<1>6. FreshOK BY DEF Init, FreshOK
<1>3. OneBackupPerTask BY DEF Init, OneBackupPerTask
<1>4. CompletedIsRecorded BY DEF Init, UnusedRow, CompletedIsRecorded, InStatus
<1>5. ASSUME NEW p \in Conductor PROVE HoldsLock(p) /\ InHandOK(p) /\ ListOK(p)
  BY DEF Init, HoldsLock, InHandOK, ListOK, TodoHeld, WipHeld, WipLoop
<1> QED BY <1>1, <1>2, <1>3, <1>4, <1>5, <1>6 DEF Inductive

LEMMA WorkerFine ==
  ASSUME NEW p \in Conductor, Inductive, TypeOK',
         Step(p) \/ Timeout(p) \/ Crash(p) \/ Restart(p)
  PROVE  Fine(p)
  BY UpdateQueueFine, TodoFine, WipFine, CancelFine, EndFine DEF Step

\* A step that no worker sees.
LEMMA QuietPreserves ==
  ASSUME Inductive, TypeOK', UNCHANGED <<tables, pc, list, cur, made>>,
         CinderQuiet,
         \A v \in Volume : lock[v] \in Conductor => lock'[v] = lock[v]
  PROVE  Inductive'
<1>0. queue' = queue /\ record' = record BY DEF tables
<1>3. RowsOK' BY <1>0 DEF Inductive, RowsOK, CinderQuiet, Untried, VolumeOf, BackupOf
<1>4. FreshOK' BY DEF Inductive, FreshOK, CinderQuiet
<1>5. OneBackupPerTask' BY DEF Inductive, OneBackupPerTask, CinderQuiet
<1>1. RowsOK' /\ FreshOK' /\ OneBackupPerTask' /\ CompletedIsRecorded'
  BY <1>0, <1>3, <1>4, <1>5 DEF Inductive, CompletedIsRecorded, InStatus, BackupOf
<1>2. ASSUME NEW p \in Conductor PROVE WorkerOK(p)'
  <2>1. HoldsLock(p) /\ InHandOK(p) /\ ListOK(p) /\ RowsOK BY DEF Inductive
  <2>2. HoldsLock(p)' BY <2>1 DEF HoldsLock, RowsOK, VolumeOf, tables
  <2>5. pc[p] = "saveWip" => made[p] \in Backup /\ cinder'[made[p]].task = cinder[made[p]].task
    BY <2>1 DEF InHandOK, CinderQuiet
  <2>3. InHandOK(p)'
    BY <2>1, <2>5 DEF InHandOK, CinderQuiet, HasBackup, Untried, BackupOf, tables
  <2>4. ListOK(p)' BY <2>1 DEF ListOK, HasBackup, BackupOf, tables
  <2> QED BY <2>2, <2>3, <2>4 DEF WorkerOK
<1> QED BY <1>1, <1>2 DEF Inductive, WorkerOK

LEMMA NextInductive == Inductive /\ [Next]_vars => Inductive'
<1> SUFFICES ASSUME Inductive, [Next]_vars PROVE Inductive' OBVIOUS
<1>1. TypeOK' BY TypePreserved DEF Inductive
<1>2. CASE UNCHANGED vars BY <1>1, <1>2, QuietPreserves, StillQuiet DEF vars, tables
<1>3. CASE Expire
  BY <1>1, <1>3, QuietPreserves, StillQuiet, ConductorAssumption DEF Expire, Inductive, TypeOK, tables, locals
<1>4. ASSUME NEW b \in Backup, CinderWork(b) PROVE Inductive'
  <2>1. CinderQuiet BY <1>4 DEF CinderWork, CinderQuiet, Inductive, TypeOK
  <2> QED BY <1>1, <1>4, <2>1, QuietPreserves DEF CinderWork, locks, locals
<1>5. ASSUME NEW p \in Conductor, Step(p) \/ Timeout(p) \/ Crash(p) \/ Restart(p)
      PROVE  Inductive'
  <2>1. Fine(p) BY <1>1, <1>5, WorkerFine
  <2>2. RowsOK' /\ FreshOK' /\ OneBackupPerTask' /\ CompletedIsRecorded'
    BY <1>1, <2>1, TablesPreserved DEF Fine
  <2>3. \A q \in Conductor \ {p} : WorkerOK(q)'
    BY <1>1, <2>1, OthersPreserved DEF Fine, Private
  <2>4. WorkerOK(p)' BY <2>1 DEF Fine
  <2> QED BY <1>1, <2>2, <2>3, <2>4 DEF Inductive, WorkerOK
<1> QED BY <1>2, <1>3, <1>4, <1>5 DEF Next

\* What the rows, the records, Cinder and each worker's copies say of one another
\* at every step, which the theorems below rest on.
THEOREM AlwaysInductive == Spec => []Inductive
  BY InitInductive, NextInductive, PTL DEF Spec

\* Every variable keeps its type, whatever the number of workers, volumes,
\* tasks and backups.
THEOREM TypeCorrect == Spec => []TypeOK
<1>1. Inductive => TypeOK BY DEF Inductive
<1> QED BY <1>1, AlwaysInductive, PTL

\* A task never makes Cinder start two backups, with any number of workers,
\* crashes and lost answers.
THEOREM NoTaskTwice == Spec => []OneBackupPerTask
<1>1. Inductive => OneBackupPerTask BY DEF Inductive
<1> QED BY <1>1, AlwaysInductive, PTL

\* A task is reported as completed only with its completed backup on record.
THEOREM CompletedRecorded == Spec => []CompletedIsRecorded
<1>1. Inductive => CompletedIsRecorded BY DEF Inductive
<1> QED BY <1>1, AlwaysInductive, PTL

\* No step of any worker brings a task back to an earlier stage.
THEOREM RowsMoveForward == Spec => ForwardOnly
<1> DEFINE Forward ==
      \A t \in Task : StageOf(queue[t].status) <= StageOf(queue'[t].status)
<1>0. \A t \in Task : queue[t].status \in Status => StageOf(queue[t].status) \in Nat
  BY DEF StageOf
<1>1. ASSUME Inductive, [Next]_vars PROVE [Forward]_queue
  <2>1. CASE UNCHANGED queue BY <2>1
  <2>2. ASSUME NEW p \in Conductor, Step(p) \/ Timeout(p) \/ Crash(p) \/ Restart(p)
        PROVE  Forward
    <3>1. Effects(p) /\ InHandOK(p)
      BY <1>1, <2>2, TypePreserved, WorkerFine DEF Fine, Inductive
    <3>2. ASSUME NEW t \in Task
          PROVE  StageOf(queue[t].status) <= StageOf(queue'[t].status)
      <4>1. RowEffect(p, t) BY <3>1 DEF Effects
      <4>2. queue[t].status \in Status /\ StageOf(queue[t].status) \in Nat
        BY <1>1 DEF Inductive, TypeOK, Row, StageOf
      <4>3. CASE queue'[t] = queue[t] BY <4>2, <4>3
      <4>4. CASE Allocated(t) BY <4>4 DEF Allocated, StageOf
      <4>5. CASE Advanced(p, t) BY <3>1, <4>5 DEF Advanced, InHandOK, StageOf
      <4>6. CASE Settled(t) BY <4>6 DEF Settled, Started, StageOf
      <4> QED BY <4>1, <4>3, <4>4, <4>5, <4>6 DEF RowEffect
    <3> QED BY <3>2
  <2>3. CASE Expire \/ \E b \in Backup : CinderWork(b)
    BY <2>1, <2>3 DEF Expire, CinderWork, tables
  <2> QED BY <1>1, <2>1, <2>2, <2>3 DEF Next, vars
<1> QED BY <1>1, AlwaysInductive, PTL DEF Spec, ForwardOnly
-----------------------------------------------------------------------------
(* The refinement of TaskLifecycle.                                        *)

LEMMA MoveRow ==
  ASSUME NEW t \in Task, \A u \in Task \ {t} : queue'[u].status = queue[u].status
  PROVE  /\ Lifecycle!Move(t, StageName(queue'[t].status))
         /\ Successful' = IF queue'[t].status = "COMPLETED" THEN Successful \cup {t}
                                                           ELSE Successful \ {t}
<1>1. Stages' = [Stages EXCEPT ![t] = StageName(queue'[t].status)] BY DEF Stages
<1>2. \A u \in Task :
        u \in Successful' <=> IF u = t THEN queue'[t].status = "COMPLETED" ELSE u \in Successful
  BY DEF Successful, InStatus
<1>3. Successful' \in SUBSET Task /\ Successful \in SUBSET Task BY DEF Successful, InStatus
<1> QED BY <1>1, <1>2, <1>3 DEF Lifecycle!Move

LEMMA SameRows ==
  ASSUME \A u \in Task : queue'[u].status = queue[u].status
  PROVE  Stages' = Stages /\ Successful' = Successful
  BY DEF Stages, Successful, InStatus

LEMMA SameOwners == CinderQuiet => Owners' = Owners
  BY DEF CinderQuiet, Owners

LEMMA SameRecord == UNCHANGED record => Completed' = Completed
  BY DEF Completed

LEMMA Stutter ==
  ASSUME CinderQuiet, UNCHANGED record, \A u \in Task : queue'[u].status = queue[u].status
  PROVE  UNCHANGED Lifecycle!vars
  BY SameRows, SameOwners, SameRecord DEF Lifecycle!vars

LEMMA StageNames ==
  /\ StageName("UNUSED") = "none" /\ StageName("PLANNED") = "planned"
  /\ StageName("INIT") = "taken" /\ StageName("WIP") = "started"
  /\ StageName("COMPLETED") = "closed" /\ StageName("FAILED") = "closed"
  /\ StageName("GONE") = "removed"
  BY DEF StageName

LEMMA StageAt == \A t \in Task : Stages[t] = StageName(queue[t].status)
  BY DEF Stages

\* Some rows whose backup was tried are deleted.
LEMMA RemoveRows ==
  ASSUME NEW T \in SUBSET Task, \A t \in T : queue[t].status \in Started \cup {"INIT"},
         \A t \in T : queue'[t].status = "GONE",
         \A t \in Task \ T : queue'[t].status = queue[t].status,
         UNCHANGED <<record, cinder>>
  PROVE  [Lifecycle!Next]_(Lifecycle!vars)
<1> DEFINE R == {t \in T : queue[t].status # "GONE"}
<1>1. R \in SUBSET {t \in Task : Stages[t] \in {"taken", "started", "closed"}}
  BY StageNames, StageAt DEF Started
<1>2. Stages' = [t \in Task |-> IF t \in R THEN "removed" ELSE Stages[t]]
  <2>1. ASSUME NEW t \in Task
        PROVE  StageName(queue'[t].status)
                 = IF t \in R THEN "removed" ELSE StageName(queue[t].status)
    BY StageNames
  <2>2. Stages' = [t \in Task |-> StageName(queue'[t].status)] BY DEF Stages
  <2>3. \A t \in Task :
          StageName(queue'[t].status) = IF t \in R THEN "removed" ELSE Stages[t]
    BY <2>1, StageAt
  <2> HIDE DEF R
  <2> QED BY <2>2, <2>3
<1>3. Successful' = Successful \ R BY DEF Successful, InStatus
<1>4. Owners' = Owners /\ Completed' = Completed
  BY StillQuiet, SameOwners, SameRecord
<1>5. Lifecycle!Remove BY <1>1, <1>2, <1>3, <1>4 DEF Lifecycle!Remove
<1> QED BY <1>5 DEF Lifecycle!Next

LEMMA RemoveRow ==
  ASSUME TypeOK, NEW t \in Task, queue[t].status \in Started \cup {"INIT"}, DeleteRow(t),
         UNCHANGED <<record, cinder>>
  PROVE  [Lifecycle!Next]_(Lifecycle!vars)
<1>1. queue'[t].status = "GONE" /\ \A u \in Task \ {t} : queue'[u].status = queue[u].status
  BY DEF TypeOK, Row, DeleteRow, SetStatus
<1> DEFINE T == {t}
<1>2. /\ T \in SUBSET Task
      /\ \A u \in T : queue[u].status \in Started \cup {"INIT"} /\ queue'[u].status = "GONE"
      /\ \A u \in Task \ T : queue'[u].status = queue[u].status
  BY <1>1
<1> HIDE DEF T
<1> QED BY <1>2, RemoveRows

\* Saving the outcome of a task whose backup is known.
LEMMA CloseRow ==
  ASSUME Inductive, NEW p \in Conductor, NEW t, NEW s \in {"FAILED", "COMPLETED"}, NEW w,
         HasBackup(t), Save(p, t, s, w), UNCHANGED cinder,
         s = "COMPLETED" => record[BackupOf(t)] = "completed"
  PROVE  [Lifecycle!Next]_(Lifecycle!vars)
<1>0. t \in Task /\ TypeOK /\ BackupOf(t) \in Backup BY DEF HasBackup, Inductive
<1>1. CASE UNCHANGED tables BY <1>1, Stutter, StillQuiet DEF tables
<1>2. CASE Exists(t) /\ SetStatus(t, s) /\ UNCHANGED record
  <2>1. queue'[t].status = s /\ \A u \in Task \ {t} : queue'[u].status = queue[u].status
    BY <1>0, <1>2 DEF TypeOK, Row, SetStatus
  <2>2. Stages[t] \in {"started", "closed"}
    BY <1>0, <1>2, StageNames, StageAt DEF HasBackup, Started, Exists
  <2>3. Lifecycle!Move(t, "closed") BY <1>0, <2>1, MoveRow, StageNames
  <2>4. s = "COMPLETED" => BackupOf(t) \in Completed /\ Owners[BackupOf(t)] = t
    BY <1>0 DEF Completed, Owners, Inductive, RowsOK
  <2>5. Owners' = Owners /\ Completed' = Completed
    BY <1>2, StillQuiet, SameOwners, SameRecord
  <2>6. Lifecycle!Close(t) BY <1>0, <2>1, <2>2, <2>3, <2>4, <2>5, MoveRow DEF Lifecycle!Close
  <2> QED BY <1>0, <2>6 DEF Lifecycle!Next
<1> QED BY <1>1, <1>2 DEF Save

\* Inserting the record of the backup in hand.
LEMMA RecordBackup ==
  ASSUME TypeOK, NEW p \in Conductor, NEW b \in Backup, NEW c \in {"completed", "failed"},
         NEW w, Insert(p, b, c, w), UNCHANGED cinder
  PROVE  [Lifecycle!Next]_(Lifecycle!vars)
<1>1. CASE UNCHANGED tables BY <1>1, Stutter, StillQuiet DEF tables
<1>2. CASE record[b] = "none" /\ record' = [record EXCEPT ![b] = c] /\ UNCHANGED queue
  <2>1. Stages' = Stages /\ Successful' = Successful /\ Owners' = Owners
    BY <1>2, SameRows, StillQuiet, SameOwners
  <2>2. Completed' = IF c = "completed" THEN Completed \cup {b} ELSE Completed
    BY <1>2 DEF Completed, TypeOK
  <2>3. CASE c = "completed"
    BY <2>1, <2>2, <2>3 DEF Lifecycle!Next, Lifecycle!Complete
  <2>4. CASE c = "failed" BY <2>1, <2>2, <2>4 DEF Lifecycle!vars
  <2> QED BY <2>3, <2>4
<1> QED BY <1>1, <1>2 DEF Insert

\* Cinder starts the backup of the task in hand.
LEMMA OwnBackup ==
  ASSUME Inductive, NEW t \in Task, NEW b \in Backup, CinderCreate(t, b), Untried(t)
  PROVE  /\ \A c \in Backup : Owners[c] # t
         /\ Owners[b] = 0 /\ Owners' = [Owners EXCEPT ![b] = t]
  BY DEF Inductive, TypeOK, FreshOK, CinderCreate, Untried, Owners
LEMMA InitLifecycle == Init => Lifecycle!Init
<1> SUFFICES ASSUME Init PROVE Lifecycle!Init OBVIOUS
<1>1. Stages = [t \in Task |-> "none"] BY StageNames DEF Init, UnusedRow, Stages
<1>2. Owners = [b \in Backup |-> 0] BY DEF Init, Owners
<1>3. Completed = {} /\ Successful = {}
  BY DEF Init, UnusedRow, Completed, Successful, InStatus
<1> QED BY <1>1, <1>2, <1>3 DEF Lifecycle!Init

\* The steps of a worker that tell the tasks apart.
LEMMA TodoLifecycle ==
  ASSUME Inductive, NEW p \in Conductor,
         \/ ClaimSave(p) \/ CreateUnknownProject(p) \/ CreateOk(p)
         \/ CreateNoBase(p) \/ CreateFailed(p) \/ SaveWip(p)
  PROVE  [Lifecycle!Next]_(Lifecycle!vars)
<1> USE StageNames, StageAt
<1> DEFINE t == cur[p]
<1>0. TypeOK /\ HoldsLock(p) /\ InHandOK(p) BY DEF Inductive
<1>1. t \in Task
  BY <1>0 DEF HoldsLock, TodoHeld, At, ClaimSave, CreateUnknownProject, CreateOk,
              CreateNoBase, CreateFailed, SaveWip
<1>2. pc[p] = "create" => Stages[t] = "taken" /\ queue[t].status = "INIT" /\ Untried(t)
  BY <1>0, <1>1 DEF InHandOK
<1>3. CASE ClaimSave(p)
  <2>1. queue[t].status = "PLANNED" BY <1>0, <1>3 DEF ClaimSave, At, InHandOK
  <2>2. queue'[t].status = "INIT" /\ \A u \in Task \ {t} : queue'[u].status = queue[u].status
    BY <1>0, <1>1, <1>3 DEF ClaimSave, SetStatus, TypeOK, Row
  <2>3. Successful' = Successful BY <1>1, <2>1, <2>2, MoveRow DEF Successful, InStatus
  <2>4. Owners' = Owners /\ Completed' = Completed
    BY <1>3, StillQuiet, SameOwners, SameRecord DEF ClaimSave
  <2>5. Lifecycle!Take(t) BY <1>1, <2>1, <2>2, <2>3, <2>4, MoveRow DEF Lifecycle!Take
  <2> QED BY <1>1, <2>5 DEF Lifecycle!Next
<1>4. CASE CreateUnknownProject(p)
  BY <1>0, <1>1, <1>2, <1>4, RemoveRow DEF CreateUnknownProject, At
<1>5. CASE CreateOk(p)
  <2>1. PICK b \in Backup : CinderCreate(t, b) BY <1>5 DEF CreateOk
  <2>2. pc[p] = "create" /\ queue' = queue /\ record' = record BY <1>5 DEF CreateOk, At, tables
  <2>3. Stages' = Stages /\ Successful' = Successful /\ Completed' = Completed
    BY <2>2, SameRows, SameRecord
  <2>4. Lifecycle!MakeBackup(t)
    BY <1>1, <1>2, <2>1, <2>2, <2>3, OwnBackup DEF Lifecycle!MakeBackup
  <2> QED BY <1>1, <2>4 DEF Lifecycle!Next
<1>6. CASE CreateNoBase(p)
  <2>1. \A u \in Task : queue'[u].status = queue[u].status
    BY <1>0, <1>6 DEF CreateNoBase, TypeOK, Row
  <2> QED BY <1>6, <2>1, Stutter, StillQuiet DEF CreateNoBase
<1>7. CASE CreateFailed(p)
  <2>1. pc[p] = "create" /\ record' = record BY <1>7 DEF CreateFailed, At
  <2>2. queue'[t].status = "FAILED" /\ \A u \in Task \ {t} : queue'[u].status = queue[u].status
    BY <1>0, <1>1, <1>7 DEF CreateFailed, SetStatus, TypeOK, Row
  <2>3. Lifecycle!Move(t, "closed") /\ Successful' = Successful /\ Completed' = Completed
    BY <1>1, <1>2, <2>1, <2>2, MoveRow, SameRecord DEF Successful, InStatus
  <2>4. CASE UNCHANGED cinder
    <3>1. Owners' = Owners BY <2>4, StillQuiet, SameOwners
    <3>2. Lifecycle!Refused(t) BY <1>2, <2>1, <2>3, <3>1 DEF Lifecycle!Refused
    <3> QED BY <1>1, <3>2 DEF Lifecycle!Next
  <2>5. CASE \E b \in Backup : CinderCreate(t, b)
    <3>1. PICK b \in Backup : CinderCreate(t, b) BY <2>5
    <3>2. Lifecycle!MakeBackup(t)
      BY <1>1, <1>2, <2>1, <2>3, <3>1, OwnBackup DEF Lifecycle!MakeBackup
    <3> QED BY <1>1, <3>2 DEF Lifecycle!Next
  <2> QED BY <1>7, <2>4, <2>5 DEF CreateFailed
<1>8. CASE SaveWip(p)
  <2>1. queue[t].status = "INIT" /\ made[p] \in Backup /\ Owners[made[p]] = t
    BY <1>0, <1>8 DEF SaveWip, At, InHandOK, Owners
  <2>2. queue'[t].status = "WIP" /\ \A u \in Task \ {t} : queue'[u].status = queue[u].status
    BY <1>0, <1>1, <1>8 DEF SaveWip, TypeOK, Row
  <2>3. Successful' = Successful BY <1>1, <2>1, <2>2, MoveRow DEF Successful, InStatus
  <2>4. Owners' = Owners /\ Completed' = Completed
    BY <1>8, StillQuiet, SameOwners, SameRecord DEF SaveWip
  <2>5. Lifecycle!Start(t) BY <1>1, <2>1, <2>2, <2>3, <2>4, MoveRow DEF Lifecycle!Start
  <2> QED BY <1>1, <2>5 DEF Lifecycle!Next
<1> QED BY <1>3, <1>4, <1>5, <1>6, <1>7, <1>8

LEMMA CloseLifecycle ==
  ASSUME Inductive, NEW p \in Conductor,
         \/ CheckNothing(p) \/ RecordDone(p) \/ SaveDone(p) \/ FailRecord(p) \/ FailSave(p)
         \/ CancelNext(p) \/ CancelUnknownProject(p) \/ CancelRecord(p) \/ CancelSave(p)
         \/ ReportAndPurge(p)
  PROVE  [Lifecycle!Next]_(Lifecycle!vars)
<1>0. TypeOK /\ InHandOK(p) /\ ListOK(p) BY DEF Inductive
<1>1. pc[p] \in WipHeld \cup {"cancelDelete", "cancelRecord", "cancelSave"} => HasBackup(cur[p])
  BY <1>0 DEF InHandOK
<1>2. CASE CheckNothing(p)
  BY <1>0, <1>1, <1>2, RemoveRow DEF CheckNothing, At, WipHeld, HasBackup
<1>3. CASE RecordDone(p) \/ FailRecord(p) \/ CancelRecord(p)
  BY <1>0, <1>1, <1>3, RecordBackup
  DEF RecordDone, FailRecord, CancelRecord, At, WipHeld, HasBackup
<1>4. CASE SaveDone(p) \/ FailSave(p) \/ CancelSave(p)
  <2>1. HasBackup(cur[p]) BY <1>1, <1>4 DEF SaveDone, FailSave, CancelSave, At, WipHeld
  <2>2. SaveDone(p) => record[BackupOf(cur[p])] = "completed"
    BY <1>0 DEF SaveDone, At, InHandOK
  <2> QED BY <1>4, <2>1, <2>2, CloseRow DEF SaveDone, FailSave, CancelSave
<1>5. CASE CancelNext(p) \/ CancelUnknownProject(p)
  <2>1. UNCHANGED <<record, cinder>> BY <1>5 DEF CancelNext, CancelUnknownProject
  <2>2. \A t \in list[p] : HasBackup(t)
    BY <1>0, <1>5 DEF CancelNext, CancelUnknownProject, At, ListOK, WipLoop
  <2>3. CASE UNCHANGED queue BY <2>1, <2>3, Stutter, StillQuiet
  <2>4. CASE \E t \in list[p] : DeleteRow(t)
    BY <1>0, <2>1, <2>2, <2>4, RemoveRow DEF HasBackup
  <2> QED BY <1>5, <2>3, <2>4 DEF CancelNext, CancelUnknownProject
<1>6. CASE ReportAndPurge(p)
  <2> DEFINE T == {t \in Task : queue[t].status \in {"COMPLETED", "FAILED"}
                                /\ queue'[t].status = "GONE"}
  <2>1. \A t \in Task \ T : queue'[t].status = queue[t].status
    BY <1>0, <1>6 DEF ReportAndPurge, TypeOK, Row
  <2>2. /\ T \in SUBSET Task
        /\ \A t \in T : queue[t].status \in Started \cup {"INIT"} /\ queue'[t].status = "GONE"
    BY DEF Started
  <2>3. UNCHANGED <<record, cinder>> BY <1>6 DEF ReportAndPurge
  <2> HIDE DEF T
  <2> QED BY <2>1, <2>2, <2>3, RemoveRows
<1> QED BY <1>2, <1>3, <1>4, <1>5, <1>6
\* Seen without the workers, the tasks live as TaskLifecycle says, whatever
\* fails and however many workers, volumes, tasks and backups there are.
THEOREM ConductorIsTaskLifecycle == Spec => IsTaskLifecycle
<1>1. ASSUME Inductive, [Next]_vars PROVE [Lifecycle!Next]_(Lifecycle!vars)
  <2> USE <1>1
  <2>1. CASE UNCHANGED vars BY <2>1, Stutter, StillQuiet DEF vars
  <2>2. CASE Expire \/ \E b \in Backup : CinderWork(b)
    <3>1. CinderQuiet
      BY <2>2, StillQuiet DEF Expire, CinderWork, CinderQuiet, Inductive, TypeOK
    <3> QED BY <2>2, <3>1, Stutter DEF Expire, CinderWork, tables
  <2>3. ASSUME NEW p \in Conductor, Step(p) \/ Timeout(p) \/ Crash(p) \/ Restart(p)
        PROVE  [Lifecycle!Next]_(Lifecycle!vars)
    <3>1. CASE Timeout(p) \/ Crash(p) \/ Restart(p) \/ EndCycle(p)
      BY <3>1, Stutter, StillQuiet DEF Timeout, Crash, Restart, EndCycle, tables
    <3>2. CASE StartCycle(p) \/ ReadWip(p) \/ ReadPlanned(p) \/ Survey(p) \/ SurveyRaises(p)
      BY <3>2, Stutter, StillQuiet
      DEF StartCycle, ReadWip, ReadPlanned, Survey, SurveyRaises, tables
    <3>3. CASE Enqueue(p)
      <4>0. UNCHANGED <<record, cinder>> BY <3>3 DEF Enqueue
      <4>1. CASE UNCHANGED queue BY <4>0, <4>1, Stutter, StillQuiet
      <4>2. CASE \E m \in plan[p], t \in InStatus("UNUSED") :
                   queue' = [queue EXCEPT ![t] =
                               [status |-> m.status, volume |-> m.volume,
                                backup |-> NULL, incremental |-> m.incremental]]
        <5>1. PICK m \in plan[p], t \in InStatus("UNUSED") :
                queue' = [queue EXCEPT ![t] =
                            [status |-> m.status, volume |-> m.volume,
                             backup |-> NULL, incremental |-> m.incremental]]
          BY <4>2
        <5>2. m.status \in {"PLANNED", "FAILED"}
          BY ConductorAssumption DEF Inductive, TypeOK, QueueMapping
        <5>3. t \in Task /\ queue[t].status = "UNUSED" BY DEF InStatus
        <5>4. /\ queue'[t].status = m.status
              /\ \A u \in Task \ {t} : queue'[u].status = queue[u].status
          BY <5>1, <5>3 DEF Inductive, TypeOK
        <5>5. Stages[t] = "none" /\ t \notin Successful
          BY <5>3, StageAt, StageNames DEF Successful, InStatus
        <5>6. /\ Lifecycle!Move(t, "planned") \/ Lifecycle!Move(t, "closed")
              /\ Successful' = Successful
          BY <5>2, <5>3, <5>4, <5>5, MoveRow, StageNames
        <5>7. Owners' = Owners /\ Completed' = Completed
          BY <4>0, StillQuiet, SameOwners, SameRecord
        <5>8. Lifecycle!Plan(t) BY <5>5, <5>6, <5>7 DEF Lifecycle!Plan
        <5> QED BY <5>3, <5>8 DEF Lifecycle!Next
      <4> QED BY <3>3, <4>1, <4>2 DEF Enqueue
    <3>4. CASE ListTodo(p) \/ TodoLock(p) \/ TodoUnlock(p) \/ TodoDone(p) \/ ClaimRead(p)
      BY <3>4, Stutter, StillQuiet
      DEF ListTodo, TodoLock, TodoUnlock, TodoDone, ClaimRead, LockNext, Unlock, tables
    <3>5. CASE ListWip(p) \/ WipLock(p) \/ WipUnlock(p) \/ WipAgain(p) \/ CheckStatus(p)
               \/ CheckRaises(p) \/ CancelDone(p)
      BY <3>5, Stutter, StillQuiet
      DEF ListWip, WipLock, WipUnlock, WipAgain, CheckStatus, CheckRaises, CancelDone,
          LockNext, Unlock, tables
    <3>6. CASE FailDelete(p) \/ CancelDelete(p)
      <4>1. CinderQuiet BY <3>6, DeleteKeepsTask DEF Inductive, FailDelete, CancelDelete
      <4> QED BY <3>6, <4>1, Stutter DEF FailDelete, CancelDelete, tables
    <3> QED
      BY <2>3, <3>1, <3>2, <3>3, <3>4, <3>5, <3>6, TodoLifecycle, CloseLifecycle DEF Step
  <2> QED BY <2>1, <2>2, <2>3 DEF Next
<1> QED
  BY <1>1, InitLifecycle, AlwaysInductive, PTL DEF Spec, IsTaskLifecycle, Lifecycle!Spec
-----------------------------------------------------------------------------
(* What becomes of the backups of tasks that end.                          *)

\* A row is deleted by the report once its task is closed, by a worker that
\* does not know its project, or when Cinder says that its backup is gone.
LEMMA Removal ==
  ASSUME Inductive, NEW p \in Conductor, NEW t \in Task,
         Step(p) \/ Timeout(p) \/ Crash(p) \/ Restart(p),
         queue[t].status # "GONE", queue'[t].status = "GONE"
  PROVE  \/ queue[t].status \in {"COMPLETED", "FAILED"}
         \/ ~Knows(p, t)
         \/ HasBackup(t) /\ cinder[BackupOf(t)].status = "gone"
<1>0. TypeOK /\ InHandOK(p) /\ ListOK(p) /\ HoldsLock(p) BY DEF Inductive
<1>1. CASE UNCHANGED queue BY <1>1
<1>2. CASE Enqueue(p)
  <2>1. \A m \in plan[p] : m.status \in {"PLANNED", "FAILED"}
    BY <1>0, ConductorAssumption DEF TypeOK, QueueMapping
  <2> QED BY <1>0, <1>2, <2>1 DEF Enqueue, TypeOK
<1>3. CASE ClaimSave(p) \/ CreateFailed(p) \/ CreateNoBase(p) \/ SaveWip(p)
  BY <1>0, <1>3 DEF ClaimSave, CreateFailed, CreateNoBase, SaveWip, SetStatus, TypeOK, Row
<1>4. CASE SaveDone(p) \/ FailSave(p) \/ CancelSave(p)
  BY <1>0, <1>4 DEF SaveDone, FailSave, CancelSave, Save, SetStatus, tables, TypeOK, Row
<1>5. CASE CreateUnknownProject(p)
  BY <1>0, <1>5 DEF CreateUnknownProject, DeleteRow, SetStatus, TypeOK, Row
<1>6. CASE CheckNothing(p)
  <2>1. HasBackup(cur[p]) BY <1>0, <1>6 DEF CheckNothing, At, InHandOK, WipHeld
  <2>2. t = cur[p] BY <1>0, <1>6 DEF CheckNothing, DeleteRow, SetStatus, TypeOK, Row
  <2> QED BY <1>6, <2>1, <2>2 DEF CheckNothing
<1>7. CASE CancelNext(p) \/ CancelUnknownProject(p)
  <2>1. \A u \in list[p] : HasBackup(u)
    BY <1>0, <1>7 DEF CancelNext, CancelUnknownProject, At, ListOK, WipLoop
  <2>2. ASSUME NEW u \in list[p], DeleteRow(u) PROVE t = u
    BY <1>0, <2>2 DEF DeleteRow, SetStatus, TypeOK, Row
  <2> QED BY <1>1, <1>7, <2>1, <2>2 DEF CancelNext, CancelUnknownProject
<1>8. CASE ReportAndPurge(p)
  BY <1>0, <1>8 DEF ReportAndPurge, TypeOK, Row
<1> QED
  BY <1>1, <1>2, <1>3, <1>4, <1>5, <1>6, <1>7, <1>8
  DEF Step, StartCycle, ReadWip, ReadPlanned, Survey, SurveyRaises, ListTodo, TodoLock,
      TodoUnlock, TodoDone, ClaimRead, CreateOk, ListWip, WipLock, WipUnlock, WipAgain,
      CheckStatus, CheckRaises, RecordDone, FailDelete, FailRecord, CancelDelete,
      CancelRecord, CancelDone, EndCycle, Timeout, Crash, Restart,
      LockNext, Unlock, Insert, tables

\* The steps that no worker makes leave the rows alone.
LEMMA OnlyWorkers ==
  ASSUME [Next]_vars, queue' # queue
  PROVE  \E p \in Conductor : Step(p) \/ Timeout(p) \/ Crash(p) \/ Restart(p)
  BY DEF Next, vars, Expire, CinderWork, tables

\* backup.py:653: a backup that is left in Cinder without a record belongs to a
\* task that is mailed as failed, under every fault and with any number of
\* workers that know its project.
THEOREM LeftoversTold == Spec => LeftoverIsTold
<1> DEFINE Told ==
      \A t \in Task, b \in Backup :
        /\ cinder[b].task = t /\ cinder[b].status # "gone" /\ record[b] = "none"
        /\ \A p \in Conductor : Knows(p, t)
        /\ queue[t].status # "GONE" /\ queue'[t].status = "GONE"
        => queue[t].status = "FAILED"
<1>1. ASSUME Inductive, [Next]_vars PROVE [Told]_vars
  <2> SUFFICES ASSUME NEW t \in Task, NEW b \in Backup,
                      cinder[b].task = t, cinder[b].status # "gone", record[b] = "none",
                      \A p \in Conductor : Knows(p, t),
                      queue[t].status # "GONE", queue'[t].status = "GONE"
               PROVE  queue[t].status = "FAILED"
    OBVIOUS
  <2>1. PICK p \in Conductor : Step(p) \/ Timeout(p) \/ Crash(p) \/ Restart(p)
    BY <1>1, OnlyWorkers
  <2>2. \/ queue[t].status \in {"COMPLETED", "FAILED"}
        \/ HasBackup(t) /\ cinder[BackupOf(t)].status = "gone"
    BY <1>1, <2>1, Removal
  <2>3. BackupOf(t) \in Backup => b = BackupOf(t)
    BY <1>1 DEF Inductive, OneBackupPerTask, RowsOK, Task
  <2>4. queue[t].status # "COMPLETED"
    BY <1>1, <2>3 DEF Inductive, CompletedIsRecorded, InStatus
  <2> QED BY <2>2, <2>3, <2>4 DEF HasBackup
<1> QED BY <1>1, AlwaysInductive, PTL DEF Spec, LeftoverIsTold

\* The project_list of a worker only grows while it lives.
LEMMA KnownGrows ==
  ASSUME TypeOK, [Next]_vars, "crash" \notin Faults, NEW q \in Conductor
  PROVE  known[q] \subseteq known'[q]
<1>1. CASE UNCHANGED known BY <1>1
<1>2. ASSUME NEW p \in Conductor, Survey(p) \/ SurveyRaises(p) PROVE known[q] \subseteq known'[q]
  BY <1>2 DEF Survey, SurveyRaises, TypeOK
<1>3. ASSUME NEW p \in Conductor,
             \/ StartCycle(p) \/ ReadWip(p) \/ ReadPlanned(p) \/ Enqueue(p) \/ ListTodo(p)
             \/ TodoLock(p) \/ TodoUnlock(p) \/ TodoDone(p) \/ ClaimRead(p) \/ ClaimSave(p)
             \/ CreateUnknownProject(p) \/ CreateOk(p) \/ CreateNoBase(p)
             \/ CreateFailed(p) \/ SaveWip(p)
      PROVE  UNCHANGED known
  BY <1>3
  DEF StartCycle, ReadWip, ReadPlanned, Enqueue, ListTodo, TodoLock, TodoUnlock, TodoDone,
      ClaimRead, ClaimSave, CreateUnknownProject, CreateOk, CreateNoBase, CreateFailed,
      SaveWip, LockNext, Unlock, Loop, Take, Skip, Drop, Abort, locals
<1>4. ASSUME NEW p \in Conductor,
             \/ ListWip(p) \/ WipLock(p) \/ WipUnlock(p) \/ WipAgain(p) \/ CheckStatus(p)
             \/ CheckNothing(p) \/ CheckRaises(p) \/ RecordDone(p) \/ SaveDone(p)
             \/ FailDelete(p) \/ FailRecord(p) \/ FailSave(p)
      PROVE  UNCHANGED known
  BY <1>4
  DEF ListWip, WipLock, WipUnlock, WipAgain, CheckStatus, CheckNothing, CheckRaises,
      RecordDone, SaveDone, FailDelete, FailRecord, FailSave, LockNext, Unlock, Loop, Take,
      Skip, Drop, Save, Insert, Abort, locals
<1>5. ASSUME NEW p \in Conductor,
             \/ CancelNext(p) \/ CancelUnknownProject(p) \/ CancelDelete(p)
             \/ CancelRecord(p) \/ CancelSave(p) \/ CancelDone(p)
             \/ ReportAndPurge(p) \/ EndCycle(p)
      PROVE  UNCHANGED known
  BY <1>5
  DEF CancelNext, CancelUnknownProject, CancelDelete, CancelRecord, CancelSave, CancelDone,
      ReportAndPurge, EndCycle, Loop, Take, Skip, Save, Insert, Abort, locals
<1>6. ASSUME NEW p \in Conductor, Timeout(p) \/ Crash(p) \/ Restart(p) PROVE UNCHANGED known
  BY <1>6 DEF Timeout, Crash, Restart, locals
<1>7. ASSUME Expire \/ (\E b \in Backup : CinderWork(b)) \/ UNCHANGED vars
      PROVE  UNCHANGED known
  BY <1>7 DEF Expire, CinderWork, vars, locals
<1> QED BY <1>1, <1>2, <1>3, <1>4, <1>5, <1>6, <1>7 DEF Next, Step

\* Every worker has listed the projects.
AllKnown == \A p \in Conductor : known[p] = Project

LEMMA KnowsAll ==
  ASSUME Inductive, AllKnown, NEW p \in Conductor, NEW t \in Task, queue[t].status # "UNUSED"
  PROVE  Knows(p, t)
  BY ConductorAssumption DEF Inductive, RowsOK, AllKnown, Knows

LEMMA AlwaysKnown ==
  ASSUME Veterans = Conductor, "crash" \notin Faults
  PROVE  Spec => []AllKnown
<1>1. Init => AllKnown BY DEF Init, AllKnown
<1>2. Inductive /\ AllKnown /\ [Next]_vars => AllKnown'
  <2> SUFFICES ASSUME Inductive, AllKnown, [Next]_vars, NEW q \in Conductor
               PROVE  known'[q] = Project
    BY DEF AllKnown
  <2>1. TypeOK' /\ TypeOK BY TypePreserved DEF Inductive
  <2>2. known[q] \subseteq known'[q] BY <2>1, KnownGrows
  <2>3. known'[q] \in SUBSET Project BY <2>1 DEF TypeOK
  <2> QED BY <2>2, <2>3 DEF AllKnown
<1> QED BY <1>1, <1>2, AlwaysInductive, PTL DEF Spec

\* README.md:19: while no worker restarts, a task that was taken is not deleted,
\* with any number of workers and pullers.
THEOREM TasksAreTried ==
  ASSUME Veterans = Conductor, "crash" \notin Faults
  PROVE  Spec => TakenIsTried
<1> DEFINE Tried == \A t \in Task : queue[t].status = "INIT" => queue'[t].status # "GONE"
<1>1. ASSUME Inductive, AllKnown, [Next]_vars PROVE [Tried]_queue
  <2> SUFFICES ASSUME NEW t \in Task, queue[t].status = "INIT", queue'[t].status = "GONE"
               PROVE  FALSE
    OBVIOUS
  <2>1. PICK p \in Conductor : Step(p) \/ Timeout(p) \/ Crash(p) \/ Restart(p)
    BY <1>1, OnlyWorkers
  <2>2. Knows(p, t) BY <1>1, KnowsAll
  <2> QED BY <1>1, <2>1, <2>2, Removal DEF HasBackup, Started
<1> QED BY <1>1, AlwaysKnown, AlwaysInductive, PTL DEF Spec, TakenIsTried

-----------------------------------------------------------------------------
(* While nothing but backups fails, every backup is accounted for.         *)

\* Where a worker is about to close the task in hand.
Closing == {"saveDone", "failSave", "cancelSave"}

\* An id that is not saved is about to be, and a task is only closed once its
\* backup is on record.
HandOK(p) ==
  /\ made[p] # NULL => pc[p] = "saveWip"
  /\ pc[p] \in Closing => record[BackupOf(cur[p])] # "none"

Accounting == AllKnown /\ BackupsAccountedFor /\ \A p \in Conductor : HandOK(p)

LEMMA HandNext ==
  ASSUME Faults \subseteq {"create", "lease"}, Inductive, NEW p \in Conductor, HandOK(p),
         Step(p) \/ Timeout(p) \/ Crash(p) \/ Restart(p)
  PROVE  HandOK(p)'
<1>0. TypeOK /\ InHandOK(p) BY DEF Inductive
<1>1. CASE \/ StartCycle(p) \/ ReadWip(p) \/ ReadPlanned(p) \/ Survey(p) \/ SurveyRaises(p)
           \/ Enqueue(p) \/ ListTodo(p) \/ TodoDone(p)
  BY <1>0, <1>1
  DEF StartCycle, ReadWip, ReadPlanned, Survey, SurveyRaises, Enqueue, ListTodo, TodoDone,
      At, Goto, Unwind, ClearLocals, Loop, TypeOK, HandOK, Closing, locals
<1>2. CASE \/ TodoLock(p) \/ TodoUnlock(p) \/ WipLock(p) \/ WipUnlock(p) \/ ClaimRead(p)
           \/ ClaimSave(p)
  BY <1>0, <1>2
  DEF TodoLock, TodoUnlock, WipLock, WipUnlock, ClaimRead, ClaimSave, LockNext, Unlock, At,
      Goto, Abort, Unwind, ClearLocals, Loop, Take, Skip, Drop, TypeOK, HandOK, Closing,
      locals
<1>3. CASE \/ CreateUnknownProject(p) \/ CreateOk(p) \/ CreateNoBase(p) \/ CreateFailed(p)
           \/ SaveWip(p)
  BY <1>0, <1>3
  DEF CreateUnknownProject, CreateOk, CreateNoBase, CreateFailed, SaveWip, At, Goto,
      TypeOK, HandOK, Closing, locals
<1>4. CASE \/ ListWip(p) \/ WipAgain(p) \/ CheckStatus(p) \/ CheckNothing(p) \/ CheckRaises(p)
  BY <1>0, <1>4
  DEF ListWip, WipAgain, CheckStatus, CheckNothing, CheckRaises, At, Goto, Abort, Unwind,
      ClearLocals, Loop, TypeOK, HandOK, Closing, locals
<1>5. CASE RecordDone(p) \/ FailRecord(p) \/ CancelRecord(p)
  <2>1. BackupOf(cur[p]) \in Backup
    BY <1>0, <1>5 DEF RecordDone, FailRecord, CancelRecord, At, InHandOK, HasBackup, WipHeld
  <2> QED
    BY <1>0, <1>5, <2>1
    DEF RecordDone, FailRecord, CancelRecord, Insert, At, Goto, Abort, Unwind, ClearLocals,
        TypeOK, HandOK, Closing, BackupOf, locals
<1>6. CASE SaveDone(p) \/ FailSave(p) \/ CancelSave(p)
  BY <1>0, <1>6
  DEF SaveDone, FailSave, CancelSave, Save, At, Goto, Abort, Unwind, ClearLocals, TypeOK,
      HandOK, Closing, locals
<1>7. CASE FailDelete(p) \/ CancelDelete(p) \/ CancelNext(p) \/ CancelUnknownProject(p)
  BY <1>0, <1>7
  DEF FailDelete, CancelDelete, CancelNext, CancelUnknownProject, DeleteRaises, At, Goto,
      Abort, Unwind, ClearLocals, Loop, Take, Skip, TypeOK, HandOK, Closing, locals
<1>8. CASE CancelDone(p) \/ ReportAndPurge(p) \/ EndCycle(p) \/ Restart(p)
  BY <1>0, <1>8
  DEF CancelDone, ReportAndPurge, EndCycle, Restart, At, Goto, Abort, Unwind, ClearLocals,
      TypeOK, HandOK, Closing, locals
<1>9. CASE Timeout(p)
  BY <1>0, <1>9 DEF Timeout, TypeOK, HandOK, BackupOf, tables
<1>10. CASE Crash(p) BY <1>10 DEF Crash
<1> QED
  BY <1>1, <1>2, <1>3, <1>4, <1>5, <1>6, <1>7, <1>8, <1>9, <1>10 DEF Step

\* A started task is closed by a worker that has it in hand.
LEMMA ClosedInHand ==
  ASSUME Inductive, NEW p \in Conductor, NEW t \in Task,
         Step(p) \/ Timeout(p) \/ Crash(p) \/ Restart(p),
         queue[t].status = "WIP", queue'[t].status \notin {"WIP", "GONE"}
  PROVE  t = cur[p] /\ pc[p] \in Closing
<1>0. TypeOK /\ InHandOK(p) BY DEF Inductive
<1>1. CASE UNCHANGED queue BY <1>1
<1>2. CASE Enqueue(p) BY <1>0, <1>2 DEF Enqueue, InStatus, TypeOK
<1>3. CASE ClaimSave(p) \/ CreateFailed(p) \/ CreateNoBase(p) \/ SaveWip(p)
  BY <1>0, <1>3 DEF ClaimSave, CreateFailed, CreateNoBase, SaveWip, SetStatus, At, InHandOK,
                    TypeOK, Row
<1>4. CASE SaveDone(p) \/ FailSave(p) \/ CancelSave(p)
  BY <1>0, <1>4 DEF SaveDone, FailSave, CancelSave, Save, At, SetStatus, tables, TypeOK, Row,
                    Closing
<1>5. CASE \/ CreateUnknownProject(p) \/ CheckNothing(p) \/ CancelNext(p)
           \/ CancelUnknownProject(p)
  BY <1>0, <1>1, <1>5 DEF CreateUnknownProject, CheckNothing, CancelNext,
                          CancelUnknownProject, DeleteRow, SetStatus, TypeOK, Row
<1>6. CASE ReportAndPurge(p) BY <1>0, <1>6 DEF ReportAndPurge, TypeOK, Row
<1> QED
  BY <1>1, <1>2, <1>3, <1>4, <1>5, <1>6
  DEF Step, StartCycle, ReadWip, ReadPlanned, Survey, SurveyRaises, ListTodo, TodoLock,
      TodoUnlock, TodoDone, ClaimRead, CreateOk, ListWip, WipLock, WipUnlock, WipAgain,
      CheckStatus, CheckRaises, RecordDone, FailDelete, FailRecord, CancelDelete,
      CancelRecord, CancelDone, EndCycle, Timeout, Crash, Restart,
      LockNext, Unlock, Insert, tables

\* Backups come into being in the hand of a worker, and do not come back.
LEMMA BackupsNext ==
  ASSUME Faults \subseteq {"create", "lease"}, Inductive, [Next]_vars, NEW b \in Backup
  PROVE  /\ cinder[b].status = "gone" => cinder'[b].status = "gone"
         /\ cinder[b].status = "absent" =>
              \/ cinder'[b].status = "absent"
              \/ \E p \in Conductor : CreateOk(p) /\ made'[p] = b
<1>0. TypeOK BY DEF Inductive
<1>1. CASE UNCHANGED cinder BY <1>1
<1>2. ASSUME NEW p \in Conductor, FailDelete(p) \/ CancelDelete(p)
      PROVE  /\ cinder[b].status = "gone" => cinder'[b].status = "gone"
             /\ cinder[b].status = "absent" => cinder'[b].status = "absent"
  <2>1. DeleteAccepted(BackupOf(cur[p])) BY <1>2 DEF FailDelete, CancelDelete, DeleteRaises
  <2>2. HasBackup(cur[p])
    BY <1>2 DEF Inductive, InHandOK, FailDelete, CancelDelete, At, WipHeld
  <2>3. cinder[BackupOf(cur[p])].status # "absent"
    BY <2>2 DEF Inductive, HasBackup, RowsOK, FreshOK, Task
  <2> QED BY <1>0, <2>1, <2>2, <2>3 DEF DeleteAccepted, TypeOK, HasBackup
<1>3. ASSUME NEW p \in Conductor, CreateOk(p)
      PROVE  /\ cinder[b].status = "gone" => cinder'[b].status = "gone"
             /\ cinder[b].status = "absent" => cinder'[b].status = "absent" \/ made'[p] = b
  BY <1>0, <1>3 DEF CreateOk, CinderCreate, TypeOK
<1>4. ASSUME NEW p \in Conductor, CreateFailed(p) PROVE UNCHANGED cinder
  BY <1>4 DEF CreateFailed
<1>5. ASSUME NEW c \in Backup, CinderWork(c)
      PROVE  /\ cinder[b].status = "gone" => cinder'[b].status = "gone"
             /\ cinder[b].status = "absent" => cinder'[b].status = "absent"
  BY <1>0, <1>5 DEF CinderWork, TypeOK
<1>6. ASSUME NEW p \in Conductor, Step(p) \/ Timeout(p) \/ Crash(p) \/ Restart(p)
      PROVE  \/ UNCHANGED cinder
             \/ FailDelete(p) \/ CancelDelete(p) \/ CreateOk(p) \/ CreateFailed(p)
  BY <1>6
  DEF Step, StartCycle, ReadWip, ReadPlanned, Survey, SurveyRaises, Enqueue, ListTodo,
      TodoLock, TodoUnlock, TodoDone, ClaimRead, ClaimSave, CreateUnknownProject,
      CreateNoBase, SaveWip, ListWip, WipLock, WipUnlock, WipAgain, CheckStatus,
      CheckNothing, CheckRaises, RecordDone, SaveDone, FailRecord, FailSave, CancelNext,
      CancelUnknownProject, CancelRecord, CancelSave, CancelDone, ReportAndPurge, EndCycle,
      Timeout, Crash, Restart, LockNext, Unlock
<1> QED BY <1>1, <1>2, <1>3, <1>4, <1>5, <1>6 DEF Next, Expire, vars

\* What is accounted for stays so, whichever worker makes the step.
LEMMA StaysAccounted ==
  ASSUME Faults \subseteq {"create", "lease"}, Inductive, Accounting, [Next]_vars,
         NEW p \in Conductor, Step(p) \/ Timeout(p) \/ Crash(p) \/ Restart(p)
  PROVE  BackupsAccountedFor' /\ \A q \in Conductor : HandOK(q)'
<1>1. Effects(p) /\ Private(p) BY TypePreserved, WorkerFine DEF Inductive, Fine
<1>2. RecordEffect BY <1>1 DEF Effects
<1>3. ASSUME NEW q \in Conductor PROVE HandOK(q)'
  <2>1. CASE q = p BY <2>1, HandNext DEF Accounting
  <2>2. CASE q # p
    <3>1. pc'[q] = pc[q] /\ cur'[q] = cur[q] /\ made'[q] = made[q]
      BY <1>1, <2>2 DEF Private, Unseen
    <3>2. pc[q] \in Closing => HasBackup(cur[q])
      BY DEF Inductive, InHandOK, Closing, WipHeld
    <3>3. pc[q] \in Closing => queue'[cur[q]].backup = queue[cur[q]].backup
      BY <1>1, <3>2, RowsPersist DEF HasBackup
    <3> QED BY <1>2, <3>1, <3>2, <3>3 DEF HandOK, Accounting, RecordEffect, HasBackup, BackupOf
  <2> QED BY <2>1, <2>2
<1>4. ASSUME NEW b \in Backup, cinder'[b].status \notin {"absent", "gone"}
      PROVE  \/ \E q \in Conductor : made'[q] = b
             \/ \E t \in Task : queue'[t].status = "WIP" /\ queue'[t].backup = b
             \/ record'[b] # "none"
  <2>1. CASE cinder[b].status = "absent" BY <1>4, <2>1, BackupsNext
  <2>2. CASE \E q \in Conductor : made[q] = b
    <3>1. PICK q \in Conductor : made[q] = b BY <2>2
    <3>2. CASE q # p BY <1>1, <3>1, <3>2 DEF Private, Unseen
    <3>3. CASE q = p
      <4>1. pc[p] = "saveWip" BY <3>1, <3>3, ConductorAssumption DEF Accounting, HandOK
      <4>2. SaveWip(p)
        BY <4>1
        DEF Step, StartCycle, ReadWip, ReadPlanned, Survey, SurveyRaises, Enqueue, ListTodo,
            TodoLock, TodoUnlock, TodoDone, ClaimRead, ClaimSave, CreateUnknownProject,
            CreateOk, CreateNoBase, CreateFailed, ListWip, WipLock, WipUnlock, WipAgain,
            CheckStatus, CheckNothing, CheckRaises, RecordDone, SaveDone, FailDelete,
            FailRecord, FailSave, CancelNext, CancelUnknownProject, CancelDelete,
            CancelRecord, CancelSave, CancelDone, ReportAndPurge, EndCycle, Timeout, Crash,
            Restart, At, WipHeld
      <4>3. cur[p] \in Task BY <4>1 DEF Inductive, HoldsLock, TodoHeld
      <4> QED BY <3>1, <3>3, <4>2, <4>3 DEF SaveWip, Inductive, TypeOK, Row
    <3> QED BY <3>2, <3>3
  <2>3. CASE \E t \in InStatus("WIP") : BackupOf(t) = b
    <3>1. PICK t \in Task : queue[t].status = "WIP" /\ queue[t].backup = b
      BY <2>3 DEF InStatus, BackupOf
    <3>2. HasBackup(t) BY <3>1 DEF HasBackup, Started, BackupOf
    <3>3. queue'[t].backup = b BY <1>1, <3>1, <3>2, RowsPersist
    <3>4. queue'[t].status # "GONE"
      BY <1>4, <3>1, Removal, KnowsAll, BackupsNext DEF Accounting, BackupOf
    <3>5. CASE queue'[t].status = "WIP" BY <3>3, <3>5
    <3>6. CASE queue'[t].status # "WIP"
      <4>1. t = cur[p] /\ pc[p] \in Closing BY <3>1, <3>4, <3>6, ClosedInHand
      <4> QED BY <1>2, <3>1, <4>1 DEF Accounting, HandOK, RecordEffect, BackupOf
    <3> QED BY <3>5, <3>6
  <2>4. CASE record[b] # "none" BY <1>2, <2>4 DEF RecordEffect
  <2>5. CASE cinder[b].status = "gone" BY <1>4, <2>5, BackupsNext
  <2> QED BY <2>1, <2>2, <2>3, <2>4, <2>5 DEF Accounting, BackupsAccountedFor
<1> QED BY <1>3, <1>4 DEF BackupsAccountedFor, InStatus, BackupOf

\* Retention sees only backup_data: when no worker dies, no answer is lost and
\* no deletion is refused, each backup in Cinder is in the hand of a worker, in
\* an open task or on record, for any number of workers and pullers.
THEOREM AllAccountedFor ==
  ASSUME Veterans = Conductor, Faults \subseteq {"create", "lease"}
  PROVE  Spec => []BackupsAccountedFor
<1>1. Init => Accounting
  BY DEF Init, Accounting, AllKnown, BackupsAccountedFor, HandOK, Closing
<1>2. Inductive /\ AllKnown' /\ Accounting /\ [Next]_vars => Accounting'
  <2> SUFFICES ASSUME Inductive, AllKnown', Accounting, [Next]_vars PROVE Accounting'
    OBVIOUS
  <2>1. ASSUME NEW p \in Conductor, Step(p) \/ Timeout(p) \/ Crash(p) \/ Restart(p)
        PROVE  Accounting'
    BY <2>1, StaysAccounted DEF Accounting
  <2>2. CASE Expire \/ UNCHANGED vars
    BY <2>2
    DEF Expire, vars, tables, locals, Accounting, BackupsAccountedFor, HandOK, InStatus,
        BackupOf
  <2>3. ASSUME NEW c \in Backup, CinderWork(c) PROVE Accounting'
    <3>1. UNCHANGED <<queue, record, pc, cur, made>> BY <2>3 DEF CinderWork, tables, locals
    <3>2. \A b \in Backup : cinder[b].status \in {"absent", "gone"}
                              => cinder'[b].status \in {"absent", "gone"}
      BY <2>3 DEF CinderWork, Inductive, TypeOK
    <3> QED BY <3>1, <3>2 DEF Accounting, BackupsAccountedFor, HandOK, InStatus, BackupOf
  <2> QED BY <2>1, <2>2, <2>3 DEF Next
<1>3. Spec => []AllKnown BY AlwaysKnown
<1>4. Accounting => BackupsAccountedFor BY DEF Accounting
<1> QED BY <1>1, <1>2, <1>3, <1>4, AlwaysInductive, PTL DEF Spec
=============================================================================
