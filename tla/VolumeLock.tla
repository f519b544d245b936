------------------------------ MODULE VolumeLock ------------------------------
(***************************************************************************)
(* What the workers expect of common/lock.py: a named lock that at most    *)
(* one client holds.  It is tried without blocking, so there is nothing to *)
(* wait for, and it is given back by its holder, or by the backend when    *)
(* the holder is dead.  Conductor uses its locks in this way; FileLock and *)
(* LeaseLock are the two backends.                                         *)
(***************************************************************************)
CONSTANT Client    \* the processes that use the lock

VARIABLE holders   \* those that are inside their with-block and acquired

TypeOK == holders \subseteq Client

Init == holders = {}

Acquire(c) == holders = {} /\ holders' = {c}

Release(c) == c \in holders /\ holders' = holders \ {c}

Next == \E c \in Client : Acquire(c) \/ Release(c)

Spec == Init /\ [][Next]_holders

\* README.md:22 "only one of the Staffeln conductor service will be able to
\* pick up that task at the same time".
OneHolder == \A c, d \in holders : c = d
=============================================================================
