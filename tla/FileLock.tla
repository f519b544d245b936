------------------------------- MODULE FileLock -------------------------------
(***************************************************************************)
(* One lock of the tooz file backend as common/lock.py drives it: acquire  *)
(* opens the file at the lock's path, creating it when it is missing, and  *)
(* flocks what it opened; __exit__ releases and, for the volume locks,     *)
(* removes the file.  A flock belongs to the open file and not to the      *)
(* path, so it survives the removal of the file.  A process that died is   *)
(* gone: the one that takes its place is another client.                   *)
(***************************************************************************)
CONSTANTS
  Client,       \* the processes that use the lock
  Inode,        \* the files there can be at the path over time
  None

ASSUME FileLockAssumption == None \notin Client /\ None \notin Inode

VARIABLES
  remove,  \* Lock.remove_lock: TRUE for volumes, FALSE for the other locks
  path,    \* the file the path names
  file,    \* the file each client has open
  owner,   \* the client that has each file flocked
  pc       \* where each client is in Lock.__enter__ and __exit__

vars == <<remove, path, file, owner, pc>>

TypeOK ==
  /\ remove \in BOOLEAN
  /\ path \in Inode \cup {None}
  /\ file \in [Client -> Inode \cup {None}]
  /\ owner \in [Inode -> Client \cup {None}]
  /\ pc \in [Client -> {"out", "opened", "in", "glob", "unlink", "dead"}]

Init ==
  /\ remove \in BOOLEAN
  /\ path = None
  /\ file = [c \in Client |-> None]
  /\ owner = [i \in Inode |-> None]
  /\ pc = [c \in Client |-> "out"]

Goto(c, where) == pc' = [pc EXCEPT ![c] = where]

\* Closing the file, or the death of the process, drops the flock.
Close(c) ==
  /\ file' = [file EXCEPT ![c] = None]
  /\ owner' = [i \in Inode |-> IF owner[i] = c THEN None ELSE owner[i]]

Unused(i) == i # path /\ \A c \in Client : file[c] # i

Open(c) ==
  /\ pc[c] = "out"
  /\ \E i \in Inode :
       /\ i = path \/ (path = None /\ Unused(i))
       /\ path' = i
       /\ file' = [file EXCEPT ![c] = i]
  /\ Goto(c, "opened")
  /\ UNCHANGED <<remove, owner>>

\* Mutant of TryLock: the result of flock is ignored.
TryLockAnyway(c) ==
  /\ pc[c] = "opened" /\ Goto(c, "in")
  /\ owner' = [owner EXCEPT ![file[c]] = c]
  /\ UNCHANGED <<remove, path, file>>

TryLock(c) ==
  /\ pc[c] = "opened"
  /\ \/ /\ owner[file[c]] = None
        /\ owner' = [owner EXCEPT ![file[c]] = c]
        /\ Goto(c, "in")
        /\ UNCHANGED file
     \/ /\ owner[file[c]] # None
        /\ Close(c) /\ Goto(c, "out")
  /\ UNCHANGED <<remove, path>>

Release(c) ==
  /\ pc[c] = "in" /\ Close(c)
  /\ Goto(c, IF remove THEN "glob" ELSE "out")
  /\ UNCHANGED <<remove, path>>

\* Mutant of Glob: the pattern lacks the prefix and matches nothing.
GlobMisses(c) ==
  pc[c] = "glob" /\ Goto(c, "out") /\ UNCHANGED <<remove, path, file, owner>>

\* remove_lock: whatever the path names now, and it may be gone already.
Glob(c) ==
  /\ pc[c] = "glob"
  /\ Goto(c, IF path = None THEN "out" ELSE "unlink")
  /\ UNCHANGED <<remove, path, file, owner>>

Unlink(c) ==
  /\ pc[c] = "unlink" /\ path' = None /\ Goto(c, "out")
  /\ UNCHANGED <<remove, file, owner>>

Crash(c) ==
  /\ pc[c] \notin {"out", "dead"} /\ Close(c) /\ Goto(c, "dead")
  /\ UNCHANGED <<remove, path>>

Next ==
  \E c \in Client :
    Open(c) \/ TryLock(c) \/ Release(c) \/ Glob(c) \/ Unlink(c) \/ Crash(c)

Spec == Init /\ [][Next]_vars

-----------------------------------------------------------------------------
Holders == {c \in Client : pc[c] = "in"}

KeptHolders == IF remove THEN {} ELSE Holders

Abstract == INSTANCE VolumeLock WITH holders <- KeptHolders

\* A lock whose file stays (PULLER, RETENTION) is the lock the workers
\* expect, whoever dies.
IsVolumeLock == Abstract!Spec

\* README.md:22 again, for every lock: those of volumes have their file
\* removed.
OneHolder == \A c, d \in Holders : c = d

\* lock.py:125 "Most locks clean up on release, but not the file lock, so we
\* manually clean them": as long as nobody dies no file of a volume stays
\* behind, however the removals of one client interleave with the openings
\* of the others.
NoFileLeft == remove /\ (\A c \in Client : pc[c] = "out") => path = None

\* The invariant behind IsVolumeLock: who is inside has the file of the path
\* flocked, which is the file everybody opens.
Inductive ==
  /\ TypeOK
  /\ ~remove =>
       \A c \in Client :
         /\ pc[c] \in {"opened", "in"} => file[c] = path /\ path # None
         /\ pc[c] = "in" => owner[path] = c
         /\ pc[c] \notin {"glob", "unlink"}
=============================================================================
