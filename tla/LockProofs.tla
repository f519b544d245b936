------------------------------ MODULE LockProofs ------------------------------
(***************************************************************************)
(* Lock implements VolumeLock with either backend, and removes its files.  *)
(* A file that is not removed is the one that all who have it open have    *)
(* open, so that the flock decides between all of them.  A lease that no   *)
(* with-block outlasts names the client inside and is as old as its stay,  *)
(* so that it has not expired.                                             *)
(***************************************************************************)
EXTENDS Lock, TLAPS

\* Whatever the other backend does, one alone makes its own steps or none.
LEMMA OneBackend ==
  /\ LockInit => Init /\ Lease!Init
  /\ [LockNext]_lockVars => [Next]_vars /\ [Lease!Next]_(Lease!vars)
BY DEF LockInit, LockNext, OnFile, OnLease, lockVars, leases, vars, Lease!vars

-----------------------------------------------------------------------------
(* The file backend.                                                       *)

USE FileLockAssumption

LEMMA FileInitOK == Init => Inductive
BY DEF Init, Inductive, TypeOK

LEMMA FileNextOK ==
  ASSUME Inductive, [Next]_vars
  PROVE  Inductive'
<1>0. TypeOK BY DEF Inductive
<1>1. ASSUME NEW c \in Client, Open(c) PROVE Inductive'
  BY <1>0, <1>1 DEF Inductive, TypeOK, Open, Goto, Unused
<1>2. ASSUME NEW c \in Client, TryLock(c) PROVE Inductive'
  BY <1>0, <1>2 DEF Inductive, TypeOK, TryLock, Goto, Close
<1>3. ASSUME NEW c \in Client, Release(c) PROVE Inductive'
  BY <1>0, <1>3 DEF Inductive, TypeOK, Release, Goto, Close
<1>4. ASSUME NEW c \in Client, Glob(c) \/ Unlink(c) PROVE Inductive'
  BY <1>0, <1>4 DEF Inductive, TypeOK, Glob, Unlink, Goto
<1>5. ASSUME NEW c \in Client, Crash(c) PROVE Inductive'
  BY <1>0, <1>5 DEF Inductive, TypeOK, Crash, Goto, Close
<1>6. CASE UNCHANGED vars
  BY <1>0, <1>6 DEF Inductive, TypeOK, vars
<1> QED BY <1>1, <1>2, <1>3, <1>4, <1>5, <1>6 DEF Next

\* A client enters when nobody is inside, and every other step changes
\* nothing or takes one client out.
LEMMA FileStepMaps ==
  ASSUME Inductive, remove = FALSE, [Next]_vars
  PROVE  [Abstract!Next]_KeptHolders
<1>0. KeptHolders = Holders /\ KeptHolders' = Holders'
  BY DEF KeptHolders, Next, vars, Open, TryLock, Release, Glob, Unlink, Crash
<1>1. ASSUME NEW c \in Client, Open(c) PROVE Holders' = Holders
  BY <1>1 DEF Open, Goto, Holders, Inductive, TypeOK
<1>2. ASSUME NEW c \in Client, TryLock(c)
      PROVE  [Abstract!Next]_KeptHolders
  <2>1. CASE owner[file[c]] # None
    <3>1. Holders' = Holders
      BY <1>2, <2>1 DEF TryLock, Goto, Holders, Inductive, TypeOK
    <3> QED BY <1>0, <3>1
  <2>2. CASE owner[file[c]] = None
    <3>1. file[c] = path
      BY <1>2 DEF TryLock, Inductive
    <3>2. Holders = {}
      BY <3>1, <2>2 DEF Holders, Inductive
    <3>3. Holders' = {c}
      BY <1>2, <2>2, <3>2 DEF TryLock, Goto, Holders, Inductive, TypeOK
    <3> QED BY <1>0, <3>2, <3>3 DEF Abstract!Next, Abstract!Acquire
  <2> QED BY <2>1, <2>2
<1>3. ASSUME NEW c \in Client, Release(c) \/ Crash(c)
      PROVE  [Abstract!Next]_KeptHolders
  <2>1. Holders' = Holders \ {c}
    BY <1>3 DEF Release, Crash, Goto, Holders, Inductive, TypeOK
  <2> QED BY <1>0, <2>1 DEF Abstract!Next, Abstract!Release
<1>4. ASSUME NEW c \in Client, Glob(c) \/ Unlink(c) PROVE FALSE
  BY <1>4 DEF Inductive, Glob, Unlink
<1>5. CASE UNCHANGED vars
  BY <1>0, <1>5 DEF vars, Holders
<1> QED BY <1>0, <1>1, <1>2, <1>3, <1>4, <1>5 DEF Next

\* lock.py:53-59 without remove_lock: a lock whose file stays implements
\* VolumeLock for any number of clients, whoever dies.
THEOREM FileLockIsVolumeLock == LockSpec => IsVolumeLock
<1>1. Init => Abstract!Init
  BY DEF Init, Abstract!Init, KeptHolders, Holders
<1>2. Inductive /\ [Next]_vars => [Abstract!Next]_KeptHolders
  <2> SUFFICES ASSUME Inductive, [Next]_vars
               PROVE  [Abstract!Next]_KeptHolders
    OBVIOUS
  <2>1. remove' = remove /\ remove \in BOOLEAN
    BY DEF Next, vars, Inductive, TypeOK, Open, TryLock, Release, Glob,
           Unlink, Crash
  <2>2. CASE remove
    BY <2>1, <2>2 DEF KeptHolders
  <2>3. CASE ~remove
    BY <2>1, <2>3, FileStepMaps
  <2> QED BY <2>2, <2>3
<1>3. Inductive /\ [Next]_vars => Inductive'
  BY FileNextOK
<1> QED BY <1>1, <1>2, <1>3, FileInitOK, OneBackend, PTL
        DEF LockSpec, IsVolumeLock, Abstract!Spec

-----------------------------------------------------------------------------
\* While the file of a volume is there somebody is still to remove it: a client
\* that goes out without doing so has found the file locked, by one that is in.
SomebodyRemoves ==
  /\ TypeOK
  /\ \A c \in Client : pc[c] = "opened" => file[c] \in Inode
  /\ \A i \in Inode : owner[i] # None => pc[owner[i]] = "in"
  /\ remove /\ path # None => \E c \in Client : pc[c] # "out"

LEMMA TypeNext ==
  ASSUME TypeOK, [Next]_vars
  PROVE  TypeOK'
<1>1. ASSUME NEW c \in Client, Open(c) \/ TryLock(c) \/ Release(c) PROVE TypeOK'
  BY <1>1 DEF TypeOK, Open, TryLock, Release, Goto, Close
<1>2. ASSUME NEW c \in Client, Glob(c) \/ Unlink(c) \/ Crash(c) PROVE TypeOK'
  BY <1>2 DEF TypeOK, Glob, Unlink, Crash, Goto, Close
<1>3. CASE UNCHANGED vars
  BY <1>3 DEF TypeOK, vars
<1> QED BY <1>1, <1>2, <1>3 DEF Next

LEMMA SomebodyRemovesNext ==
  ASSUME SomebodyRemoves, [Next]_vars
  PROVE  SomebodyRemoves'
<1>0. TypeOK /\ TypeOK' BY TypeNext DEF SomebodyRemoves
<1> USE DEF SomebodyRemoves, Goto
<1>1. ASSUME NEW c \in Client, Open(c) PROVE SomebodyRemoves'
  BY <1>0, <1>1 DEF Open, TypeOK
<1>2. ASSUME NEW c \in Client, TryLock(c) PROVE SomebodyRemoves'
  <2>1. CASE owner[file[c]] = None
    BY <1>0, <1>2, <2>1 DEF TryLock, TypeOK
  <2>2. CASE owner[file[c]] # None
    <3>1. /\ owner' = [i \in Inode |-> IF owner[i] = c THEN None ELSE owner[i]]
          /\ pc' = [pc EXCEPT ![c] = "out"] /\ pc[c] = "opened"
          /\ UNCHANGED <<remove, path>>
      BY <1>2, <2>2 DEF TryLock, Close
    <3>2. file[c] \in Inode /\ owner[file[c]] \in Client \ {c}
      BY <1>0, <2>2, <3>1 DEF TypeOK
    <3>3. \A d \in Client : pc'[d] = "opened" => d # c /\ file'[d] = file[d]
      BY <1>0, <1>2, <2>2, <3>1 DEF TryLock, Close, TypeOK
    <3>4. pc'[owner[file[c]]] = "in"
      BY <1>0, <3>1, <3>2 DEF TypeOK
    <3> QED BY <1>0, <2>2, <3>1, <3>2, <3>3, <3>4 DEF TypeOK
  <2> QED BY <2>1, <2>2
<1>3. ASSUME NEW c \in Client, Release(c) PROVE SomebodyRemoves'
  BY <1>0, <1>3 DEF Release, Close, TypeOK
<1>4. ASSUME NEW c \in Client, Glob(c) PROVE SomebodyRemoves'
  BY <1>0, <1>4 DEF Glob, TypeOK
<1>5. ASSUME NEW c \in Client, Unlink(c) PROVE SomebodyRemoves'
  BY <1>0, <1>5 DEF Unlink, TypeOK
<1>6. ASSUME NEW c \in Client, Crash(c) PROVE SomebodyRemoves'
  BY <1>0, <1>6 DEF Crash, Close, TypeOK
<1>7. CASE UNCHANGED vars
  BY <1>0, <1>7 DEF vars
<1> QED BY <1>1, <1>2, <1>3, <1>4, <1>5, <1>6, <1>7 DEF Next

\* lock.py:125, for any number of clients and files: unless a client has died,
\* no file of a volume stays behind when all have left.
THEOREM NothingLeft == LockSpec => []NoFileLeft
<1>1. Init => SomebodyRemoves
  BY DEF Init, SomebodyRemoves, TypeOK
<1>2. SomebodyRemoves => NoFileLeft
  BY DEF SomebodyRemoves, NoFileLeft
<1>3. SomebodyRemoves /\ [Next]_vars => SomebodyRemoves'
  BY SomebodyRemovesNext
<1> QED BY <1>1, <1>2, <1>3, OneBackend, PTL DEF LockSpec

-----------------------------------------------------------------------------
(* The lease backend.                                                      *)

LEMMA LeaseAssumption == Lease!LeaseLockAssumption
BY LockAssumption, FileLockAssumption DEF Lease!LeaseLockAssumption

LEMMA LeaseInitOK ==
  ASSUME Lease!LeaseLockAssumption
  PROVE  Lease!Init => Lease!Inductive
BY DEF Lease!LeaseLockAssumption, Lease!Init, Lease!Inductive, Lease!TypeOK,
       Lease!Inside

LEMMA LeaseNextOK ==
  ASSUME Lease!LeaseLockAssumption, MaxHold <= Expiry, Lease!Inductive,
         [Lease!Next]_(Lease!vars)
  PROVE  Lease!Inductive'
<1> USE DEF Lease!LeaseLockAssumption
<1>0. Lease!TypeOK BY DEF Lease!Inductive
<1>1. ASSUME NEW c \in Client, Lease!Acquire(c) PROVE Lease!Inductive'
  BY <1>0, <1>1 DEF Lease!Inductive, Lease!TypeOK, Lease!Acquire, Lease!Inside,
                   Lease!Available
<1>2. ASSUME NEW c \in Client, Lease!Release(c) PROVE Lease!Inductive'
  BY <1>0, <1>2 DEF Lease!Inductive, Lease!TypeOK, Lease!Release, Lease!Inside
<1>3. ASSUME NEW c \in Client, Lease!Crash(c) PROVE Lease!Inductive'
  BY <1>0, <1>3 DEF Lease!Inductive, Lease!TypeOK, Lease!Crash, Lease!Inside
<1>4. CASE Lease!Tick
  BY <1>0, <1>4 DEF Lease!Inductive, Lease!TypeOK, Lease!Tick, Lease!Inside
<1>5. CASE UNCHANGED Lease!vars
  BY <1>0, <1>5 DEF Lease!Inductive, Lease!TypeOK, Lease!vars, Lease!Inside
<1> QED BY <1>1, <1>2, <1>3, <1>4, <1>5 DEF Lease!Next

\* A client takes the lease when nobody is inside.
LEMMA LeaseStepMaps ==
  ASSUME Lease!LeaseLockAssumption, MaxHold <= Expiry, Lease!Inductive,
         [Lease!Next]_(Lease!vars)
  PROVE  [Lease!Abstract!Next]_(Lease!Holders)
<1> USE DEF Lease!LeaseLockAssumption
<1>0. Lease!TypeOK BY DEF Lease!Inductive
<1>1. ASSUME NEW c \in Client, Lease!Acquire(c)
      PROVE  [Lease!Abstract!Next]_(Lease!Holders)
  <2>1. Lease!Holders = {}
    BY <1>0, <1>1 DEF Lease!Acquire, Lease!Available, Lease!Holders, Lease!Inductive,
                     Lease!TypeOK, Lease!Inside
  <2>2. Lease!Holders' = {c}
    BY <1>0, <1>1, <2>1 DEF Lease!Acquire, Lease!Holders, Lease!TypeOK, Lease!Inside
  <2> QED BY <2>1, <2>2 DEF Lease!Abstract!Next, Lease!Abstract!Acquire
<1>2. ASSUME NEW c \in Client, Lease!Release(c) \/ Lease!Crash(c)
      PROVE  [Lease!Abstract!Next]_(Lease!Holders)
  <2>1. Lease!Holders' = Lease!Holders \ {c} /\ c \in Lease!Holders
    BY <1>0, <1>2 DEF Lease!Release, Lease!Crash, Lease!Holders, Lease!TypeOK, Lease!Inside
  <2> QED BY <2>1 DEF Lease!Abstract!Next, Lease!Abstract!Release, Lease!Holders
<1>3. CASE Lease!Tick
  <2>1. Lease!Holders' = Lease!Holders
    BY <1>0, <1>3 DEF Lease!Tick, Lease!Holders, Lease!TypeOK, Lease!Inside
  <2> QED BY <2>1
<1>4. CASE UNCHANGED Lease!vars
  BY <1>4 DEF Lease!vars, Lease!Holders, Lease!Inside
<1> QED BY <1>1, <1>2, <1>3, <1>4 DEF Lease!Next

\* lock.py:143-182: with-blocks that end before the lease expires make the
\* lease a VolumeLock for any number of clients, whoever dies.
THEOREM LeaseLockIsVolumeLock ==
  ASSUME MaxHold <= Expiry
  PROVE  LockSpec => LeaseIsVolumeLock
<1>1. Lease!Init => Lease!Abstract!Init
  BY DEF Lease!Init, Lease!Abstract!Init, Lease!Holders, Lease!Inside
<1>2. Lease!Init => Lease!Inductive
  BY LeaseInitOK, LeaseAssumption
<1>3. Lease!Inductive /\ [Lease!Next]_(Lease!vars) => Lease!Inductive'
  BY LeaseNextOK, LeaseAssumption
<1>4. Lease!Inductive /\ [Lease!Next]_(Lease!vars)
      => [Lease!Abstract!Next]_(Lease!Holders)
  BY LeaseStepMaps, LeaseAssumption
<1> QED BY <1>1, <1>2, <1>3, <1>4, OneBackend, PTL
        DEF LockSpec, LeaseIsVolumeLock, Lease!IsVolumeLock, Lease!Abstract!Spec
=============================================================================
