\* Three freezes and two runs of a study that is edited at any time.
CONSTANTS
  f1 = f1
  f2 = f2
  f3 = f3
  r1 = r1
  r2 = r2
  v1 = v1
  v2 = v2
  None = None
  Freezers <- ThreeFreezers
  Runners <- TwoRunners
  Versions <- TwoVersions
SPECIFICATION Spec
SYMMETRY Renamings
INVARIANTS
  FrozenRunsAreOfTheLock
PROPERTIES
  LockIsImmutable
CHECK_DEADLOCK FALSE
