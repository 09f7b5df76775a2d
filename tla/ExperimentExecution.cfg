SPECIFICATION Spec
CONSTANTS
  Experiments = {"audit", "noisy", "quality", "responsive", "ablation", "atlas", "graph"}
  Launches = {p1, p2}
  NumCells = 2
  Versions = {1, 2, 3}
  DesignOf <- MCDesignOf
  MaxChanges = 2
  MaxFaults = 2
  None = None
SYMMETRY MCSymmetry
INVARIANTS
  ResultsRestOnTheirRuns
  OneExecutionPerDirectory
  FailuresAreToldTruly
PROPERTIES
  EvidenceIsRetained
CHECK_DEADLOCK FALSE
