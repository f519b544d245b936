---------------------------- MODULE OpenstackCall ----------------------------
(***************************************************************************)
(* One call of OpenstackSDK about a backup: get_backup and delete_backup   *)
(* repeat a request that ends in an HttpException, waiting longer each     *)
(* time, until retry_timeout has passed; create_backup sends its request   *)
(* once.  Cinder may carry a request out and its answer still be an error. *)
(***************************************************************************)
EXTENDS Naturals

CONSTANTS
  Timeout,      \* CONF.openstack.retry_timeout
  MaxInterval,  \* CONF.openstack.max_retry_interval
  Slowest       \* bound: how long a request takes

ASSUME CallAssumption ==
  Timeout \in Nat \ {0} /\ MaxInterval \in Nat /\ Slowest \in Nat

VARIABLES
  op,        \* the method called
  phase,     \* where the call is
  backup,    \* the status of the backup in Cinder
  made,      \* backups this call has created
  elapsed,   \* the time since the call began
  interval   \* how long it waits next

vars == <<op, phase, backup, made, elapsed, interval>>

Done == {"returned", "none", "raised"}

Longest == Timeout + MaxInterval + Slowest

TypeOK ==
  /\ op \in {"get_backup", "create_backup", "delete_backup"}
  /\ phase \in {"send", "wait"} \cup Done
  /\ backup \in {"absent", "available", "deleting", "gone"}
  /\ made \in Nat /\ elapsed \in Nat /\ interval \in Nat

Shorter(x, y) == IF x < y THEN x ELSE y

Init ==
  /\ op \in {"get_backup", "create_backup", "delete_backup"}
  /\ phase = "send"
  /\ backup \in IF op = "create_backup" THEN {"absent"}
                ELSE {"available", "deleting", "gone"}
  /\ made = 0 /\ elapsed = 0 /\ interval = Shorter(1, MaxInterval)

-----------------------------------------------------------------------------
\* What Cinder does on a request, and its answer: "ok", 404, or another error.
Carry(answer) ==
  \/ /\ op = "get_backup" /\ answer = (IF backup = "gone" THEN "404" ELSE "ok")
     /\ UNCHANGED <<backup, made>>
  \/ /\ op = "create_backup" /\ answer = "ok"
     /\ backup' = "available" /\ made' = made + 1
  \/ /\ op = "delete_backup" /\ UNCHANGED made
     /\ \/ backup = "available" /\ backup' = "deleting" /\ answer = "ok"
        \/ backup = "deleting" /\ UNCHANGED backup /\ answer = "error"
        \/ backup = "gone" /\ UNCHANGED backup /\ answer = "404"

\* The answer that arrives: a request that was carried out, or never was, can
\* end in a status that is retried or in an exception that is none of HTTP.
Arrives(answer) ==
  \/ Carry(answer)
  \/ /\ answer \in {"error", "exception"}
     /\ \/ UNCHANGED <<backup, made>>
        \/ \E a \in {"ok", "404", "error"} : Carry(a)

\* Mutant of Retried: create_backup is retried like the others.
RetriedAlways(answer, now) == answer = "error" /\ now < Timeout

\* Mutant of Retried: the time that has passed is not looked at.
RetriedForever(answer, now) == answer = "error" /\ op # "create_backup"

\* RetryHTTPError and stop_after_delay; a code of skip_retry_codes counts as an
\* "exception" here.
Retried(answer, now) ==
  answer = "error" /\ op # "create_backup" /\ now < Timeout

\* Mutant of Ends: any HttpException counts as not found.
EndsLoosely(answer) ==
  CASE answer = "ok" -> "returned"
    [] answer \in {"404", "error"} -> "none"
    [] OTHER -> "raised"

\* How an attempt that is not retried ends the call.
Ends(answer) ==
  CASE answer = "ok" -> "returned"
    [] answer = "404" -> "none"
    [] OTHER -> "raised"

Attempt ==
  /\ phase = "send"
  /\ \E answer \in {"ok", "404", "error", "exception"}, d \in 1 .. Slowest :
       /\ Arrives(answer)
       /\ elapsed' = elapsed + d
       /\ phase' = IF Retried(answer, elapsed + d) THEN "wait" ELSE Ends(answer)
  /\ UNCHANGED <<op, interval>>

Wait ==
  /\ phase = "wait" /\ phase' = "send"
  /\ elapsed' = elapsed + interval
  /\ interval' = Shorter(2 * interval, MaxInterval)
  /\ UNCHANGED <<op, backup, made>>

\* Cinder ends the deletion, asked for by this call or another.
CinderDeletes ==
  /\ backup = "deleting" /\ backup' = "gone"
  /\ UNCHANGED <<op, phase, made, elapsed, interval>>

Next == Attempt \/ Wait \/ CinderDeletes

Spec == Init /\ [][Next]_vars

-----------------------------------------------------------------------------
\* conf/conductor.py:91 "The timeout for retry OpenStackSDK HTTP exceptions":
\* a call takes no longer than the timeout and one more wait and request.
EndsInTime == elapsed < Longest

\* What the callers make of a result: a get_backup of None, after which a row
\* is deleted, means that Cinder has no such backup, and a delete_backup that
\* returns, after which a backup is recorded as failed, that it is going;
\* whatever answers were lost on the way.
ResultHolds ==
  /\ op = "get_backup" /\ phase = "none" => backup = "gone"
  /\ op = "delete_backup" /\ phase \in {"returned", "none"}
       => backup \in {"deleting", "gone"}

\* create_backup never makes Cinder start a second backup, also when the answer
\* to the first request is lost.
CreatedOnce == made <= 1

\* The invariant behind them.
Inductive ==
  /\ TypeOK /\ ResultHolds
  /\ interval <= MaxInterval
  /\ phase = "wait" => elapsed < Timeout /\ op # "create_backup"
  /\ phase = "send" => elapsed < Timeout + MaxInterval
  /\ EndsInTime
  /\ op = "create_backup" => IF phase = "send" THEN made = 0 ELSE made <= 1
  /\ op # "create_backup" => made = 0
=============================================================================
