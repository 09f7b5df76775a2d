\* Three launches into one directory, of both kinds, with two exceptions or kills anywhere.
CONSTANTS
  p1 = p1
  p2 = p2
  p3 = p3
  Processes <- Trio
  Callers <- AnyCaller
  MaxFaults = 2
  InodesReused = TRUE
  OperatorCleans = FALSE
SPECIFICATION Spec
SYMMETRY Launches
INVARIANTS
  OneHolder
  FinishedRunsStayWhole
PROPERTIES
  ArtifactsAreRetained
CHECK_DEADLOCK FALSE
