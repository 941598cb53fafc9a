SPECIFICATION FairSpec
CONSTANTS
  UsesLimit = 2
  HistoryCap = 1
  Evaluator = {e1, e2}
  Action <- MCTwoCalls
  PolicyInput <- MCFewPolicyInputs
  RiskInput <- MCFewRiskInputs
  Config <- MCDefault
  Threshold = 70
  MaxGrants = 1
  MaxTime = 1
  OnceTtl = 1
  SessionTtl = 2
  TimedTtl = 1
INVARIANTS
  SingleUseAcrossEvaluations
PROPERTIES
  EveryActionIsDecided
