SPECIFICATION FairSpec
CONSTANTS
  NumAgents = 2
  Rounds = 1
  MaxRetries = 1
  RateLimitRetries = 1
  RetryDelay = 1
  Usages = {"measured", "unmeasured"}
  Limits <- MCLimits
  MaxEpisodes = 2
  MaxNow = 1
  None = None
INVARIANTS
  WireWithinLimits
  StopReasonMatchesSeal
  RunLimitStopIsFinal
  ManifestsCountRequests
PROPERTY
  EveryEpisodeIsSealed
CONSTRAINT WideOnce
CHECK_DEADLOCK FALSE
