SPECIFICATION FairSpec
CONSTANTS
  NumAgents = 2
  Actions <- MCActions
  Abstain = "abstain"
  Legal <- MCLegal
  MaxRounds = 3
  OpeningRounds = {0, 2}
  DomainEventTypes <- MCDomainEvents
  Cadences = {0, 1, 2}
  InvalidPolicies = {"fail", "abstain"}
  RunIds = {"run"}
  None = None
INVARIANTS
  SealedRunsValidate
  CheckpointsAreForkable
  ArtifactsAccountForLedger
PROPERTIES
  ImplementsGame
  EveryRunEnds
CHECK_DEADLOCK FALSE
