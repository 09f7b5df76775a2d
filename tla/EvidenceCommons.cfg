SPECIFICATION PlaySpec
CONSTANTS
  NumAgents = 3
  Slots = {"slot"}
  Candidates <- MCCandidates
  Truth <- MCTruth
  Evidence = {1, 2, 3, 4, 5}
  Facts <- MCFacts
  Holders <- MCHolders
  InspectBudget = 3
  VerifyBudget = 2
  Cost <- MCCost
  Pay <- MCPay
  MaxRounds = 8
  Touched = {1, 2}
  MaxClaims = 2
  MaxCited = 1
  Casts <- MCCasts
  Settings <- MCSettings
  AuditedCasts <- MCAuditedCasts
  Schedule <- MCSchedule
  Accuracy <- MostlyRight
  Unavailable <- SometimesMissing
  None = None
INVARIANTS
  AcceptedClaimsHaveProvenance
  OrderMattersOnlyThroughShares
  PoliciesActLegally
  AuditsFollowTheSchedule
  PeerCountIsALowerBound
PROPERTY
  PrivateActsAreUnobserved
CONSTRAINT Small
CHECK_DEADLOCK FALSE
