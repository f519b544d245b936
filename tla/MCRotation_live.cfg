SPECIFICATION FairSpec
CONSTANTS
  i1 = i1
  i2 = i2
  i3 = i3
  Instance = {i1}
  MaxBackups = 3
  MaxAge = 2
  MaxRun = 2
  Zone = 0
  Default = 1
  Custom <- Shorter
  Faults = {"servers"}
  NoRow = NoRow
  Unset = Unset
  Empty = Empty
PROPERTY ExpiredGoes
