\* One branch whose bookkeeping fails after the transcript was written.
CONSTANTS
  p1 = p1
  p2 = p2
  p3 = p3
  Processes <- Pair
  Callers <- Branches
  MaxFaults = 1
  InodesReused = FALSE
  OperatorCleans = FALSE
SPECIFICATION Spec
INVARIANTS
  OwnedFailuresAreCleanedUp
CHECK_DEADLOCK FALSE
