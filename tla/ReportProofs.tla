----------------------------- MODULE ReportProofs -----------------------------
(***************************************************************************)
(* When no other worker finishes tasks during the report, a task is purged *)
(* only after a delivered mail mentions it, whatever else fails: the mail  *)
(* has every finished task of the project from the second query on, and    *)
(* the lists of purge_backups find no task that is not in it.              *)
(* And whoever finishes tasks, no mail follows another of the same project *)
(* within a period whose timestamp was stored: a stored timestamp is at    *)
(* most as old as the mail, lasts for more than a period, and a project is *)
(* visited once in a cycle, which starts when no timestamp is that young.  *)
(***************************************************************************)
EXTENDS Report, TLAPS

USE ReportAssumption

LEMMA Ages == /\ OldAge \in Nat /\ 0 \in Age /\ OldAge \in Age
              /\ \A a \in Age : Older(a) \in Age
<1>1. KeptPeriods * ReportPeriod \in Nat BY SMT
<1> QED BY <1>1 DEF OldAge, Age, Older

LEMMA InitOK == Init => Inductive
<1> SUFFICES ASSUME Init PROVE Inductive
  OBVIOUS
<1>1. TypeOK
  BY Ages DEF Init, TypeOK, Finished, Pcs
<1> QED BY <1>1 DEF Init, Inductive, PurgedWasMailed

LEMMA NextOK ==
  ASSUME "others" \notin Faults, Inductive, [Next]_vars
  PROVE  Inductive'
<1>0. TypeOK BY DEF Inductive
<1> USE DEF Goto, puller, mails
<1>1. CASE Survey
  BY <1>0, <1>1 DEF Survey, Inductive, TypeOK, Pcs, Finished, PurgedWasMailed
<1>2. ASSUME NEW t \in Task, Finish(t) PROVE Inductive'
  BY <1>0, <1>2 DEF Finish, Inductive, TypeOK, Pcs, Finished, PurgedWasMailed
<1>3. CASE WorkDone
  BY <1>0, <1>3 DEF WorkDone, Inductive, TypeOK, Pcs, PurgedWasMailed
<1>4. CASE CheckPeriod
  BY <1>0, <1>4 DEF CheckPeriod, StopIn, Inductive, TypeOK, Pcs, PurgedWasMailed
<1>5. CASE NextProject
  BY <1>0, <1>5 DEF NextProject, Inductive, TypeOK, Pcs, PurgedWasMailed, Listed
<1>6. CASE ReadSuccess
  BY <1>0, <1>6 DEF ReadSuccess, Inductive, TypeOK, Pcs, PurgedWasMailed, Listed
<1>7. CASE ReadFailed
  BY <1>0, <1>7 DEF ReadFailed, NextOne, Inductive, TypeOK, Pcs,
                    PurgedWasMailed, Listed
<1>8. CASE Quota
  BY <1>0, <1>8 DEF Quota, NextOne, Inductive, TypeOK, Pcs, PurgedWasMailed,
                    Listed
<1>9. CASE Send
  BY <1>0, <1>9, Ages DEF Send, Deliver, NotSent, NextOne, Inductive, TypeOK, Pcs,
                          PurgedWasMailed, Listed
<1>10. CASE CreateRecord
  BY <1>0, <1>10, Ages DEF CreateRecord, NextOne, Inductive, TypeOK, Pcs,
                           PurgedWasMailed, Listed
<1>11. CASE PurgeSuccess
  BY <1>0, <1>11 DEF PurgeSuccess, Inductive, TypeOK, Pcs, PurgedWasMailed,
                     Listed
<1>12. CASE PurgeFailed
  BY <1>0, <1>12 DEF PurgeFailed, Inductive, TypeOK, Pcs, PurgedWasMailed,
                     Listed
<1>13. CASE DeleteTask
  BY <1>0, <1>13 DEF DeleteTask, NextOne, Inductive, TypeOK, Pcs, Finished,
                     PurgedWasMailed, Listed
<1>14. CASE PurgeStamps
  BY <1>0, <1>14 DEF PurgeStamps, StopIn, Inductive, TypeOK, Pcs, PurgedWasMailed
<1>15. CASE Tick
  BY <1>0, <1>15, Ages DEF Tick, Inductive, TypeOK, PurgedWasMailed, Listed
<1>16. CASE Crash
  BY <1>0, <1>16 DEF Crash, StopIn, Inductive, TypeOK, Pcs, PurgedWasMailed
<1>17. ASSUME NEW p \in Project, Disable(p) PROVE Inductive'
  BY <1>0, <1>17 DEF Disable, Inductive, TypeOK, PurgedWasMailed, Listed
<1>18. CASE UNCHANGED vars
  BY <1>0, <1>18 DEF vars, Inductive, TypeOK, PurgedWasMailed, Listed
<1> QED
  BY <1>1, <1>2, <1>3, <1>4, <1>5, <1>6, <1>7, <1>8, <1>9, <1>10, <1>11,
     <1>12, <1>13, <1>14, <1>15, <1>16, <1>17, <1>18 DEF Next, Publish

\* What is purged is what the mail was written from, at every query.
THEOREM AlwaysInductive ==
  ASSUME "others" \notin Faults
  PROVE  Spec => []Inductive
<1>1. Inductive /\ [Next]_vars => Inductive' BY NextOK
<1> QED BY <1>1, InitOK, PTL DEF Spec

\* README.md:126-127, for any projects, tasks and periods: as long as only the
\* puller finishes tasks, no task is purged that no delivered mail mentions.
THEOREM PurgeIsSafe ==
  ASSUME "others" \notin Faults
  PROVE  Spec => []PurgedWasMailed
<1>1. "others" \notin Faults /\ Inductive /\ [Next]_vars => Inductive'
  BY NextOK
<1>2. Inductive => PurgedWasMailed
  BY DEF Inductive
<1> QED BY <1>1, <1>2, InitOK, PTL DEF Spec

-----------------------------------------------------------------------------
Waited(p) == lastMail[p] >= ReportPeriod \/ p \in unstamped

\* The invariant behind MailsApart.
Spaced ==
  /\ TypeOK
  /\ \A p \in Project : Waited(p) \/ \E a \in stamps : a <= lastMail[p]
  /\ projects \cap current = {}
  /\ IF pc \in {"rest", "down", "work", "check"}
       THEN current = {} ELSE \A p \in projects : Waited(p)
  /\ pc \in {"success", "failed", "quota", "send"} =>
       \A p \in current : Waited(p)

LEMMA PeriodIsKept == KeptPeriods * ReportPeriod \in Nat
                      /\ ReportPeriod <= KeptPeriods * ReportPeriod
<1>1. KeptPeriods * ReportPeriod = ReportPeriod + (KeptPeriods - 1) * ReportPeriod
  BY SMT
<1>2. (KeptPeriods - 1) * ReportPeriod \in Nat
  BY SMT
<1> QED BY <1>1, <1>2

LEMMA OlderGrows ==
  ASSUME NEW a \in Age
  PROVE  /\ a >= ReportPeriod => Older(a) >= ReportPeriod
         /\ \A b \in Age : b <= a => Older(b) <= Older(a)
<1>1. OldAge \in Nat /\ ReportPeriod <= OldAge
  BY PeriodIsKept, Ages DEF OldAge
<1> QED BY <1>1 DEF Older, Age

LEMMA SpacedInit == Init => Spaced
<1> SUFFICES ASSUME Init PROVE Spaced
  OBVIOUS
<1>1. TypeOK BY InitOK DEF Inductive
<1>2. OldAge >= ReportPeriod BY PeriodIsKept DEF OldAge
<1> QED BY <1>1, <1>2 DEF Init, Spaced, Waited

LEMMA TypeNext ==
  ASSUME TypeOK, [Next]_vars
  PROVE  TypeOK'
<1> USE DEF Goto, puller, mails, NotSent, NextOne, StopIn
<1>1. CASE Survey \/ WorkDone \/ Crash
  BY <1>1 DEF Survey, WorkDone, Crash, TypeOK, Pcs
<1>2. ASSUME NEW t \in Task, Finish(t) PROVE TypeOK'
  BY <1>2 DEF Finish, TypeOK, Pcs, Finished
<1>3. CASE CheckPeriod \/ NextProject \/ ReadSuccess \/ ReadFailed \/ Quota
  BY <1>3 DEF CheckPeriod, NextProject, ReadSuccess, ReadFailed, Quota,
              TypeOK, Pcs, Listed
<1>4. CASE Send
  BY <1>4, Ages DEF Send, Deliver, TypeOK, Pcs
<1>5. CASE CreateRecord
  BY <1>5, Ages DEF CreateRecord, TypeOK, Pcs
<1>6. CASE PurgeSuccess \/ PurgeFailed \/ DeleteTask \/ PurgeStamps
  BY <1>6 DEF PurgeSuccess, PurgeFailed, DeleteTask, PurgeStamps, TypeOK, Pcs,
              Finished, Listed
<1>7. CASE Tick
  BY <1>7, Ages DEF Tick, TypeOK
<1>8. ASSUME NEW p \in Project, Disable(p) PROVE TypeOK'
  BY <1>8 DEF Disable, TypeOK
<1>9. CASE UNCHANGED vars
  BY <1>9 DEF vars, TypeOK
<1> QED
  BY <1>1, <1>2, <1>3, <1>4, <1>5, <1>6, <1>7, <1>8, <1>9 DEF Next, Publish

LEMMA SpacedNext ==
  ASSUME Zone \in Nat, Spaced, [Next]_vars
  PROVE  Spaced'
<1>0. TypeOK /\ TypeOK' BY TypeNext DEF Spaced
<1> USE DEF Goto, puller, mails, NotSent, NextOne, StopIn
<1>1. CASE Survey \/ WorkDone \/ Crash
  BY <1>0, <1>1 DEF Survey, WorkDone, Crash, Spaced, Waited
<1>2. ASSUME NEW t \in Task, Finish(t) PROVE Spaced'
  BY <1>0, <1>2 DEF Finish, Spaced, Waited
<1>3. CASE CheckPeriod
  <2>1. Due => \A p \in Project : Waited(p)
    BY <1>0 DEF Due, Spaced, Waited, TypeOK, Age
  <2> QED BY <1>0, <1>3, <2>1 DEF CheckPeriod, Spaced, Waited, TypeOK
<1>4. CASE NextProject \/ ReadSuccess \/ ReadFailed \/ Quota
  BY <1>0, <1>4 DEF NextProject, ReadSuccess, ReadFailed, Quota, Spaced, Waited
<1>5. CASE Send
  BY <1>0, <1>5 DEF Send, Deliver, Spaced, Waited, TypeOK
<1>6. CASE CreateRecord
  BY <1>0, <1>6 DEF CreateRecord, Spaced, Waited, TypeOK, Age
<1>7. CASE PurgeSuccess \/ PurgeFailed \/ DeleteTask
  BY <1>0, <1>7 DEF PurgeSuccess, PurgeFailed, DeleteTask, Spaced, Waited
<1>8. CASE PurgeStamps
  BY <1>0, <1>8, PeriodIsKept DEF PurgeStamps, Spaced, Waited, TypeOK, Age
<1>9. CASE Tick
  <2>1. ASSUME NEW p \in Project
        PROVE  /\ Waited(p) => Waited(p)'
               /\ \A a \in stamps :
                    a <= lastMail[p] => \E b \in stamps' : b <= lastMail'[p]
    <3>1. lastMail[p] \in Age /\ lastMail'[p] = Older(lastMail[p])
      BY <1>0, <1>9 DEF Tick, TypeOK
    <3>2. stamps \subseteq Age /\ stamps' = {Older(a) : a \in stamps}
      BY <1>0, <1>9 DEF Tick, TypeOK
    <3>3. Waited(p) => Waited(p)'
      BY <1>9, <3>1, OlderGrows DEF Tick, Waited
    <3>4. ASSUME NEW a \in stamps, a <= lastMail[p]
          PROVE  \E b \in stamps' : b <= lastMail'[p]
      <4>1. Older(a) \in stamps' /\ Older(a) <= Older(lastMail[p])
        BY <3>1, <3>2, <3>4, OlderGrows
      <4> QED BY <4>1, <3>1
    <3> QED BY <3>3, <3>4
  <2>2. \A p \in Project : Waited(p)' \/ \E a \in stamps' : a <= lastMail'[p]
    BY <2>1 DEF Spaced
  <2>3. pc' = pc /\ projects' = projects /\ current' = current
    BY <1>9 DEF Tick
  <2>4. projects \subseteq Project /\ current \subseteq Project
    BY <1>0 DEF TypeOK
  <2> QED BY <1>0, <2>1, <2>2, <2>3, <2>4 DEF Spaced
<1>10. ASSUME NEW p \in Project, Disable(p) PROVE Spaced'
  BY <1>0, <1>10 DEF Disable, Spaced, Waited
<1>11. CASE UNCHANGED vars
  BY <1>0, <1>11 DEF vars, Spaced, Waited
<1> QED
  BY <1>1, <1>2, <1>3, <1>4, <1>5, <1>6, <1>7, <1>8, <1>9, <1>10, <1>11
  DEF Next, Publish

\* README.md:134, for any projects, tasks, periods and failures, and with other
\* workers: a project is mailed again within a period only when the timestamp
\* of the first mail was not stored.  The conductors' time must not be behind UTC.
THEOREM MailsStayApart ==
  ASSUME Zone \in Nat
  PROVE  Spec => []MailsApart
<1>1. Spaced /\ [Next]_vars => Spaced'
  BY SpacedNext
<1>2. Spaced => MailsApart
  BY DEF Spaced, Waited, MailsApart
<1> QED BY <1>1, <1>2, SpacedInit, PTL DEF Spec
=============================================================================
