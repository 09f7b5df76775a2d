SPECIFICATION Spec
CONSTANTS
  Settings <- MCSettings
  Pay <- MCPay
  Scale = 12
  None = None
INVARIANTS
  TftIsExploitedAtMostOnce
  DefectionStaysWithinReach
  RatesAreAsForetold
  PlayFollowsTheExactLaw
CHECK_DEADLOCK FALSE
