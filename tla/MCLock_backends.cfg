SPECIFICATION FairLockSpec
CONSTANTS
  Client = {c1, c2, c3, c4}
  Inode = {i1, i2, i3, i4, i5}
  Expiry = 16
  MaxHold = 16
  None = None
CHECK_DEADLOCK FALSE
INVARIANT NoFileLeft
PROPERTY IsVolumeLock
PROPERTY LeaseIsVolumeLock
PROPERTY LeaseComesBack
