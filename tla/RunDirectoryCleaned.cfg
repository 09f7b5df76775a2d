\* Two launches while an operator cleans generated artifacts; fresh inode numbers.
CONSTANTS
  p1 = p1
  p2 = p2
  p3 = p3
  Processes <- Pair
  Callers <- AnyCaller
  MaxFaults = 1
  InodesReused = FALSE
  OperatorCleans = TRUE
SPECIFICATION Spec
SYMMETRY Launches
INVARIANTS
  CleanersOwnTheLedger
CHECK_DEADLOCK FALSE
