SPECIFICATION FairSpec
CONSTANTS
  p1 = p1
  p2 = p2
  t1 = t1
  t2 = t2
  t3 = t3
  Task = {t1, t2}
  Project = {p1, p2}
  ProjectOf <- TwoTasks
  ReportPeriod = 1
  Zone = 0
  KeptPeriods = 1
  MaxMails = 1
  Faults = {"others", "mail", "stamp", "crash"}
PROPERTY EveryTaskReported
