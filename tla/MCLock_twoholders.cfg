SPECIFICATION LockSpec
CONSTANTS
  Client = {c1, c2, c3}
  Inode = {i1, i2, i3, i4}
  Expiry = 4
  MaxHold = 4
  None = None
CHECK_DEADLOCK FALSE
INVARIANT OneHolder
