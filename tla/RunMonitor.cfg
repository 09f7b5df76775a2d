\* One snapshot at any time of two launches, with one exception or kill; freed
\* inode numbers come back.
CONSTANTS
  p1 = p1
  p2 = p2
  Processes <- Pair
  Callers <- BranchAndStudy
  MaxFaults = 1
  InodesReused = TRUE
  OperatorCleans = FALSE
  MaxSnapshots = 1
SPECIFICATION MonitorSpec
INVARIANTS
  SnapshotsAreConsistent
CHECK_DEADLOCK FALSE
