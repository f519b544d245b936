-------------------------------- MODULE Report --------------------------------
(***************************************************************************)
(* The last step of the puller's cycle: _report_backup_result decides      *)
(* whether a report is due, BackupResult.publish mails the finished tasks  *)
(* of each project, and purge_backups deletes them.  Other workers finish  *)
(* tasks in the meantime, mails are refused or answered too late, and the  *)
(* puller can die between any two steps.                                   *)
(*                                                                         *)
(* Times are ages in ticks; an age stops growing once nothing can tell it  *)
(* from an older one.                                                      *)
(***************************************************************************)
EXTENDS Integers

CONSTANTS
  Task,          \* the rows of queue_data
  Project,       \* OpenStack projects
  ProjectOf,     \* the project of each task
  ReportPeriod,  \* CONF.conductor.report_period
  Zone,          \* how many ticks the conductors' local time is ahead of UTC
  KeptPeriods,   \* report timestamps are kept for this many periods (10)
  MaxMails,      \* bound: how often a task is counted as mailed
  Faults         \* which disturbances may happen, a subset of FaultKinds

\* Other workers finish tasks, a project loses its last enabled server, a list
\* of servers, a quota or the receivers cannot be had from OpenStack, the mail
\* is refused, it is delivered but the answer is lost, the timestamp is not
\* stored, the puller dies.
FaultKinds ==
  {"others", "disable", "openstack", "mail", "answer", "stamp", "crash"}

ASSUME ReportAssumption ==
  /\ ProjectOf \in [Task -> Project]
  /\ ReportPeriod \in Nat \ {0} /\ KeptPeriods \in Nat \ {0}
  /\ Zone \in Int
  /\ MaxMails \in Nat \ {0} /\ Faults \subseteq FaultKinds

OldAge == KeptPeriods * ReportPeriod + 1 + (IF Zone > 0 THEN Zone ELSE 0)
Age    == 0 .. OldAge

VARIABLES
  task,       \* status of each row
  enabled,    \* the projects with a server whose metadata asks for backups
  stamps,     \* report_timestamp: the ages of its rows
  pc,         \* where the puller is
  projects,   \* result.project_list: the projects publish has still to visit
  current,    \* the project publish works on
  content,    \* the tasks in the mail under construction
  purge,      \* the tasks purge_backups has listed
  mailed,     \* how many delivered mails mention each task
  lastMail,   \* the age of the last mail delivered for each project
  unstamped   \* projects whose last mail has no stored timestamp

puller == <<pc, projects, current, content, purge>>
mails  == <<mailed, lastMail>>
vars   == <<task, enabled, stamps, puller, mails, unstamped>>

Finished == {"COMPLETED", "FAILED"}

Pcs == {"rest", "down", "work", "check", "publish", "success", "failed", "quota",
        "send", "stamp", "purgeSuccess", "purgeFailed", "delete", "purgeStamps"}

TypeOK ==
  /\ task \in [Task -> Finished \cup {"UNUSED", "OPEN", "GONE"}]
  /\ enabled \subseteq Project
  /\ stamps \subseteq Age
  /\ pc \in Pcs
  /\ projects \subseteq Project
  /\ current \subseteq Project
  /\ content \subseteq Task /\ purge \subseteq Task
  /\ mailed \in [Task -> 0 .. MaxMails]
  /\ lastMail \in [Project -> Age]
  /\ unstamped \subseteq Project

\* The rows of the current project in status s.
Listed(s) == {t \in Task : task[t] = s /\ ProjectOf[t] \in current}

Init ==
  /\ task = [t \in Task |-> "UNUSED"]
  /\ enabled = Project
  /\ stamps = {}
  /\ pc = "rest"
  /\ projects = {} /\ current = {} /\ content = {} /\ purge = {}
  /\ mailed = [t \in Task |-> 0]
  /\ lastMail = [p \in Project |-> OldAge]
  /\ unstamped = {}

Goto(where) == pc' = where

-----------------------------------------------------------------------------
(* The cycle around the report.                                            *)

\* The survey fills project_list anew with the projects that have an enabled
\* server, and plans tasks of these projects; a project whose servers cannot
\* be listed is left out.
Survey ==
  /\ pc \in {"rest", "down"} /\ Goto("work")
  /\ \/ projects' = enabled
     \/ "openstack" \in Faults /\ projects' \in SUBSET enabled
  /\ \E planned \in SUBSET {t \in Task : task[t] = "UNUSED"} :
       /\ \A t \in planned : ProjectOf[t] \in projects'
       /\ task' = [t \in Task |-> IF t \in planned THEN "OPEN" ELSE task[t]]
  /\ UNCHANGED <<enabled, stamps, current, content, purge, mails, unstamped>>

\* A worker closes a task: the puller before the report, another worker at
\* any time.
Finish(t) ==
  /\ task[t] = "OPEN"
  /\ pc = "work" \/ "others" \in Faults
  /\ \E s \in Finished : task' = [task EXCEPT ![t] = s]
  /\ UNCHANGED <<enabled, stamps, puller, mails, unstamped>>

\* _process_wip_tasks returns when it sees no open task, or has cancelled
\* those it saw.
WorkDone ==
  /\ pc = "work" /\ Goto("check")
  /\ (\A t \in Task : task[t] # "OPEN") \/ "others" \in Faults
  /\ UNCHANGED <<task, enabled, stamps, projects, current, content, purge,
                 mails, unstamped>>

\* The puller's cycle is over, or its process is.
StopIn(where) ==
  /\ Goto(where)
  /\ projects' = {} /\ current' = {} /\ content' = {} /\ purge' = {}

\* Mutant of Due: the threshold is one tick too young.
DueEarly == \A a \in stamps : a >= ReportPeriod - 1

\* No timestamp of any project is younger than report_period; the threshold is
\* off by the zone, as that of BackupChain is.
Due == \A a \in stamps : a >= ReportPeriod + Zone

CheckPeriod ==
  /\ pc = "check"
  /\ \/ Due /\ Goto("publish") /\ UNCHANGED <<projects, current, content, purge>>
     \/ ~Due /\ StopIn("rest")
  /\ UNCHANGED <<task, enabled, stamps, mails, unstamped>>

-----------------------------------------------------------------------------
(* publish_backup_result and BackupResult.publish.                         *)

NextProject ==
  /\ pc = "publish"
  /\ \/ \E p \in projects :
          /\ projects' = projects \ {p} /\ current' = {p}
          /\ Goto("success")
     \/ /\ projects = {} /\ current' = {} /\ Goto("purgeStamps")
        /\ UNCHANGED projects
  /\ UNCHANGED <<task, enabled, stamps, content, purge, mails, unstamped>>

\* publish returns, or an exception of it is caught in publish_backup_result.
NextOne ==
  Goto("publish") /\ content' = {} /\ purge' = {} /\ UNCHANGED projects

ReadSuccess ==
  /\ pc = "success" /\ content' = Listed("COMPLETED") /\ Goto("failed")
  /\ UNCHANGED <<task, enabled, stamps, projects, current, purge,
                 mails, unstamped>>

ReadFailed ==
  /\ pc = "failed"
  /\ LET found == content \cup Listed("FAILED") IN
     \/ found # {} /\ content' = found /\ Goto("quota")
        /\ UNCHANGED <<projects, purge>>
     \/ found = {} /\ NextOne
  /\ UNCHANGED <<task, enabled, stamps, current, mails, unstamped>>

\* The quota cannot be read, or its limit is zero.
Quota ==
  /\ pc = "quota"
  /\ \/ Goto("send") /\ UNCHANGED <<projects, content, purge>>
     \/ "openstack" \in Faults /\ NextOne
  /\ UNCHANGED <<task, enabled, stamps, current, mails, unstamped>>

Deliver ==
  /\ mailed' = [t \in Task |-> IF t \in content /\ mailed[t] < MaxMails
                                 THEN mailed[t] + 1 ELSE mailed[t]]
  /\ lastMail' = [p \in Project |-> IF p \in current THEN 0 ELSE lastMail[p]]
  /\ unstamped' = unstamped \cup current

NotSent == UNCHANGED <<mails, unstamped>>

\* Mutant of Send: a refused mail is taken for a sent one.
SendAnyway ==
  /\ pc = "send" /\ Goto("stamp")
  /\ Deliver \/ ("mail" \in Faults /\ NotSent)
  /\ UNCHANGED <<task, enabled, stamps, projects, current, content, purge>>

\* send_result_email: sent (or logged), no receiver, refused, or delivered
\* while the answer to it was lost.
Send ==
  /\ pc = "send"
  /\ \/ Deliver /\ Goto("stamp") /\ UNCHANGED <<projects, content, purge>>
     \/ Faults \cap {"openstack", "mail"} # {} /\ NextOne /\ NotSent
     \/ "answer" \in Faults /\ Deliver /\ NextOne
  /\ UNCHANGED <<task, enabled, stamps, current>>

CreateRecord ==
  /\ pc = "stamp"
  /\ \/ stamps' = stamps \cup {0} /\ Goto("purgeSuccess")
        /\ unstamped' = unstamped \ current
        /\ UNCHANGED <<projects, content, purge>>
     \/ "stamp" \in Faults /\ NextOne /\ UNCHANGED <<stamps, unstamped>>
  /\ UNCHANGED <<task, enabled, current, mails>>

-----------------------------------------------------------------------------
(* purge_backups, which lists the finished tasks again.                    *)

PurgeSuccess ==
  /\ pc = "purgeSuccess" /\ purge' = Listed("COMPLETED") /\ Goto("purgeFailed")
  /\ UNCHANGED <<task, enabled, stamps, projects, current, content,
                 mails, unstamped>>

\* Mutant of PurgeFailed: only the completed tasks are purged.
PurgeCompletedOnly ==
  /\ pc = "purgeFailed" /\ Goto("delete")
  /\ UNCHANGED <<task, enabled, stamps, projects, current, content, purge,
                 mails, unstamped>>

PurgeFailed ==
  /\ pc = "purgeFailed" /\ purge' = purge \cup Listed("FAILED")
  /\ Goto("delete")
  /\ UNCHANGED <<task, enabled, stamps, projects, current, content,
                 mails, unstamped>>

DeleteTask ==
  /\ pc = "delete"
  /\ \/ \E t \in purge :
          /\ task' = [task EXCEPT ![t] = "GONE"]
          /\ purge' = purge \ {t}
          /\ UNCHANGED <<pc, projects, content>>
     \/ purge = {} /\ NextOne /\ UNCHANGED task
  /\ UNCHANGED <<enabled, stamps, current, mails, unstamped>>

PurgeStamps ==
  /\ pc = "purgeStamps"
  /\ stamps' = {a \in stamps : a <= KeptPeriods * ReportPeriod + Zone}
  /\ StopIn("rest")
  /\ UNCHANGED <<task, enabled, mails, unstamped>>

-----------------------------------------------------------------------------
(* Time, users and crashes.                                                *)

Older(a) == IF a < OldAge THEN a + 1 ELSE a

Tick ==
  /\ stamps' = {Older(a) : a \in stamps}
  /\ lastMail' = [p \in Project |-> Older(lastMail[p])]
  /\ UNCHANGED <<task, enabled, puller, mailed, unstamped>>

Disable(p) ==
  /\ "disable" \in Faults /\ p \in enabled /\ enabled' = enabled \ {p}
  /\ UNCHANGED <<task, stamps, puller, mails, unstamped>>

Crash ==
  /\ "crash" \in Faults /\ pc \notin {"rest", "down"} /\ StopIn("down")
  /\ UNCHANGED <<task, enabled, stamps, mails, unstamped>>

Publish ==
  \/ CheckPeriod \/ NextProject \/ ReadSuccess \/ ReadFailed \/ Quota \/ Send
  \/ CreateRecord \/ PurgeSuccess \/ PurgeFailed \/ DeleteTask \/ PurgeStamps

Next ==
  \/ Survey \/ WorkDone \/ Publish \/ Tick \/ Crash
  \/ \E t \in Task : Finish(t)
  \/ \E p \in Project : Disable(p)

Spec == Init /\ [][Next]_vars

\* The puller's cycles follow one another and do not die for ever, open tasks
\* end (_process_wip_tasks cancels them in the end), time passes, and neither
\* the mail server nor OpenStack nor the database is down whenever a given
\* project is tried.
Fairness ==
  /\ WF_vars(Survey \/ WorkDone \/ Publish) /\ WF_vars(Tick)
  /\ <>[](pc # "down")
  /\ \A t \in Task : WF_vars(Finish(t))
  /\ SF_vars(Survey /\ projects' = enabled)
  /\ \A p \in Project :
       /\ SF_vars(Quota /\ current = {p} /\ pc' = "send")
       /\ SF_vars(Send /\ current = {p} /\ pc' = "stamp")
       /\ SF_vars(CreateRecord /\ current = {p} /\ pc' = "purgeSuccess")

FairSpec == Spec /\ Fairness

-----------------------------------------------------------------------------
\* README.md:126 "When report successfully sent to email or logs for specific
\* project. all success/failed tasks for that project will be purged": a task
\* is purged only after a mail that mentions it, whatever fails or dies in
\* between.
PurgedWasMailed == \A t \in Task : task[t] = "GONE" => mailed[t] > 0

\* README.md:134 "it will never goes earlier than `report_period`": a project
\* is mailed again within a period only when the timestamp of the first mail
\* was not stored, whatever happens to the mails of other projects.
MailsApart ==
  pc = "send" =>
    \A p \in current : lastMail[p] >= ReportPeriod \/ p \in unstamped

\* README.md:105-107: every finished task is reported and purged eventually.
EveryTaskReported ==
  \A t \in Task : task[t] \in Finished ~> task[t] = "GONE"

\* The invariant behind PurgedWasMailed when the puller is alone: from the
\* second query on, the mail under construction has every finished task of the
\* project, and what is purged is in a mail that was delivered.
Inductive ==
  /\ TypeOK /\ PurgedWasMailed
  /\ pc \notin {"rest", "down", "work"} => \A t \in Task : task[t] # "OPEN"
  /\ pc \notin {"rest", "down", "work", "check", "publish", "success"}
       => Listed("COMPLETED") \subseteq content
  /\ pc \in {"quota", "send", "stamp", "purgeSuccess", "purgeFailed", "delete"}
       => Listed("FAILED") \subseteq content
  /\ pc \in {"stamp", "purgeSuccess", "purgeFailed", "delete"}
       => \A t \in content : mailed[t] > 0
  /\ pc \in {"purgeFailed", "delete"} => purge \subseteq content
=============================================================================
