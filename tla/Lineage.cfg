SPECIFICATION FairLineageSpec
CONSTANTS
  NumAgents = 2
  Actions <- MCActions
  Abstain = "abstain"
  Legal <- MCLegal
  MaxRounds = 3
  OpeningRounds = {1}
  DomainEventTypes <- MCDomainEvents
  Cadences = {1}
  InvalidPolicies = {"fail"}
  RunIds = {1, 2, 3}
  None = None
  Original = "original"
  Override = "override"
  Overrides = {{}, {1}}
  MaxRuns = 3
INVARIANTS
  FiledRunsLoad
  BranchesAccountForAncestry
  ReplayReproduces
  PoliciesAreInherited
PROPERTY
  ReplaysEnd
CONSTRAINT Chains
CHECK_DEADLOCK FALSE
