SPECIFICATION Spec
CONSTANTS
  Object = {a, b}
  Value = {u, v}
  Column <- Columns
  MaxId = 2
  Sqlite = FALSE
  Faults = {"crash", "db"}
SYMMETRY Symmetry
INVARIANT Consistent
PROPERTY IsRowStore
PROPERTY SavesItsOwnRow
CHECK_DEADLOCK FALSE
