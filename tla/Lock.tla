---------------------------------- MODULE Lock ----------------------------------
(***************************************************************************)
(* A lock of common/lock.py with the backend that LockManager chooses: the *)
(* file backend of tooz when coordination.backend_url is set, the leases   *)
(* of Kubernetes when it is not.  The choice is made once; every process   *)
(* of the deployment makes the same.                                       *)
(***************************************************************************)
EXTENDS FileLock, Naturals

CONSTANTS Expiry, MaxHold   \* as in LeaseLock

ASSUME LockAssumption ==
  Expiry \in Nat /\ MaxHold \in Nat /\ None \notin Nat

VARIABLES
  backend,           \* whose coordinator LockManager has
  holder, age, held  \* as in LeaseLock

leases   == <<holder, age, held>>
lockVars == <<backend, vars, leases>>

Lease == INSTANCE LeaseLock

\* LockManager.__init__
Choose == backend \in {"file", "lease"}

LockInit == Choose /\ Init /\ Lease!Init

\* The other backend is not used.
OnFile  == backend = "file" /\ UNCHANGED <<backend, leases>>
OnLease == backend = "lease" /\ UNCHANGED <<backend, vars>>

LockNext == (OnFile /\ Next) \/ (OnLease /\ Lease!Next)

LockSpec == LockInit /\ [][LockNext]_lockVars

\* Time passes, and every with-block is left.
FairLockSpec ==
  /\ LockSpec
  /\ WF_lockVars(OnLease /\ Lease!Tick)
  /\ \A c \in Client : WF_lockVars(OnLease /\ Lease!Release(c))

-----------------------------------------------------------------------------
(* What LeaseLock says of the leases.                                      *)

\* lock.py:143-182: a lease is the lock the workers expect as long as no
\* with-block is longer than it, whoever dies.
LeaseIsVolumeLock == Lease!IsVolumeLock

\* The lease of a client that died can be taken again some day: it expires,
\* and lock.py:151 gives it an hour.
LeaseComesBack == backend = "lease" => Lease!LeaseComesBack
=============================================================================
