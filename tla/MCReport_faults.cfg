SPECIFICATION Spec
CONSTANTS
  p1 = p1
  p2 = p2
  t1 = t1
  t2 = t2
  t3 = t3
  Task = {t1, t2, t3}
  Project = {p1, p2}
  ProjectOf <- ThreeTasks
  ReportPeriod = 2
  Zone = 1
  KeptPeriods = 1
  MaxMails = 1
  Faults = {"openstack", "mail", "answer", "stamp", "crash", "disable"}
INVARIANT PurgedWasMailed
INVARIANT MailsApart
