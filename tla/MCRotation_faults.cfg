SPECIFICATION Spec
CONSTANTS
  i1 = i1
  i2 = i2
  i3 = i3
  Instance = {i1, i2, i3}
  MaxBackups = 3
  MaxAge = 3
  MaxRun = 2
  Zone = 1
  Default = 0
  Custom <- Mixed
  Faults = {"projects", "cinder"}
  NoRow = NoRow
  Unset = Unset
  Empty = Empty
 
PROPERTY KeepsUnexpired
PROPERTY NewestFirst
