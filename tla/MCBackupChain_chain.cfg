SPECIFICATION Spec
CONSTANTS
  Task = {t1, t2}
  FullDepth = 3
  MinInterval = 2
  Zone = 1
  Faults = {"others", "history", "create", "backup"}
INVARIANT TypeOK
PROPERTY OrderHonoured
PROPERTY IntervalKept
