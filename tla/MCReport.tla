------------------------------- MODULE MCReport -------------------------------
(* Report with two projects: three tasks, or two when time matters more. *)
EXTENDS Report, TLC

CONSTANTS p1, p2, t1, t2, t3

TwoTasks   == (t1 :> p1) @@ (t2 :> p2)
ThreeTasks == (t1 :> p1) @@ (t2 :> p1) @@ (t3 :> p2)
=============================================================================
