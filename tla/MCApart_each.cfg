SPECIFICATION PartSpec
CONSTANTS
  Timeout = 12
  MaxInterval = 5
  Slowest = 3
  Request = {r1, r2, r3}
  PolicyFaults = {"db", "delete"}
  Number = {0, 1, 2024}
  MaxPieces = 2
  Starts <- Winters
  Days = 35
  Host = {a, b, c}
  Command = {"create_schema", "upgrade"}
  Target = {2, 4}
  Installed <- Databases
  Faults = {"crash"}
INVARIANT EndsInTime
INVARIANT ResultHolds
INVARIANT CreatedOnce
INVARIANT ParsesFormat
INVARIANT CutInTime
INVARIANT VersionTells
PROPERTY KeptOnceRecorded
PROPERTY ThresholdAdvances
 
CHECK_DEADLOCK FALSE
