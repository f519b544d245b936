SPECIFICATION Spec
CONSTANTS
  Conductor = {c1, c2}
  Volume = {v1}
  Server = {s1, s2}
  Project = {proj1}
  Veterans = {c1}
  Faults = {"crash", "create", "lost", "status", "delete"}
  MaxTasks = 1
  MaxBackups = 2
  Free = Free
  Orphan = Orphan
  NULL = NULL
  v1 = v1
  v2 = v2
  s1 = s1
  s2 = s2
  proj1 = proj1
  c1 = c1
  c2 = c2
  ProjectOf <- OneProject
  Candidate <- AnyKind
INVARIANT OneBackupPerTask
INVARIANT CompletedIsRecorded
INVARIANT Inductive
PROPERTY ForwardOnly
PROPERTY IsTaskLifecycle
 
