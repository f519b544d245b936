------------------------------ MODULE LeaseLock ------------------------------
(***************************************************************************)
(* One lock of the Kubernetes backend: K8sCoordinator hands out sherlock   *)
(* locks, a Lease object that is taken when it is absent or older than     *)
(* `expire` (3600 s) and never renewed.  The holder does not notice that   *)
(* its lease has expired.  Times are counted in ticks.                     *)
(***************************************************************************)
EXTENDS Naturals

CONSTANTS
  Client,    \* the processes that use the lock
  Expiry,    \* K8sCoordinator.expire
  MaxHold,   \* bound: the longest a with-block lasts
  None

LeaseLockAssumption ==
  Expiry \in Nat /\ MaxHold \in Nat /\ None \notin Client /\ None \notin Nat

VARIABLES
  holder,   \* the holder named in the lease, None when there is no lease
  age,      \* the time since the lease was taken, up to Expiry + 1
  held      \* how long each client is in its with-block, None when outside

vars == <<holder, age, held>>

TypeOK ==
  /\ holder \in Client \cup {None}
  /\ age \in 0 .. Expiry + 1
  /\ held \in [Client -> 0 .. MaxHold \cup {None}]

Init ==
  /\ holder = None /\ age = 0
  /\ held = [c \in Client |-> None]

Inside(c) == held[c] # None

\* Mutants of Available: the lease never expires; it expires too early.
AvailableNever == holder = None
AvailableEarly == holder = None \/ age > 0

Available == holder = None \/ age > Expiry

Acquire(c) ==
  /\ ~Inside(c) /\ Available
  /\ holder' = c /\ age' = 0
  /\ held' = [held EXCEPT ![c] = 0]

\* The lease is deleted only by the client it names.
Release(c) ==
  /\ Inside(c)
  /\ IF holder = c THEN holder' = None /\ age' = 0 ELSE UNCHANGED <<holder, age>>
  /\ held' = [held EXCEPT ![c] = None]

\* The client dies and its lease stays.
Crash(c) ==
  /\ Inside(c) /\ held' = [held EXCEPT ![c] = None]
  /\ UNCHANGED <<holder, age>>

Tick ==
  /\ \A c \in Client : held[c] # MaxHold
  /\ age' = IF holder # None /\ age <= Expiry THEN age + 1 ELSE age
  /\ held' = [c \in Client |-> IF Inside(c) THEN held[c] + 1 ELSE None]
  /\ UNCHANGED holder

Next ==
  \/ \E c \in Client : Acquire(c) \/ Release(c) \/ Crash(c)
  \/ Tick

Spec == Init /\ [][Next]_vars

-----------------------------------------------------------------------------
Holders == {c \in Client : Inside(c)}

Abstract == INSTANCE VolumeLock WITH holders <- Holders

\* With-blocks shorter than the lease make it the lock the workers expect.
IsVolumeLock == Abstract!Spec

\* README.md:33 "With role control, there is only one Staffeln service that
\* can perform volume collection and backup task scheduling at the same time".
OneHolder == Abstract!OneHolder

\* A lease that a dead client left behind can be taken again some day.
LeaseComesBack == Holders = {} ~> (Available \/ Holders # {})

\* The invariant behind IsVolumeLock: who is inside is named in the lease, and
\* has been inside for as long as the lease is old.
Inductive ==
  /\ TypeOK
  /\ \A c \in Client : Inside(c) => holder = c /\ age = held[c]
=============================================================================
