SPECIFICATION Spec
CONSTANTS
  Task = {t1}
  FullDepth = 1
  MinInterval = 1
  MaxBackups = 4
  MaxAge = 1
  RetentionTime = 0
  Volume = Volume
  Faults = {"cinder"}
  NoRow = NoRow
  Unset = Unset
  Empty = Empty
PROPERTY OrderKept
 
