\* Every cell of the six experiments on the Evidence Commons.  Deadlock is checked: an
\* episode whose policy asks for an illegal action would be stuck.
SPECIFICATION Spec
CONSTANTS
  None = None
  Parts <- MCParts
INVARIANTS
  AuditFeedbackIsAsForetold
  NoisyCorpusIsAsForetold
  RuleComparisonsAreAsForetold
  IncentiveAtlasIsAsDerived
