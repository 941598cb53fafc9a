SPECIFICATION Spec
CONSTANTS
  UsesLimit = 2
  HistoryCap = 1
  Evaluator = {e1}
  Action <- MCActions
  PolicyInput <- MCPolicyInputs
  RiskInput <- MCRiskInputs
  Config <- MCPresets
  Threshold = 70
  MaxGrants = 1
  MaxTime = 0
  OnceTtl = 1
  SessionTtl = 2
  TimedTtl = 1
INVARIANTS
  NoAllowByDefault
  ApprovalIsExplicit
  FailuresAreAudited
  UnloggedIsNotAllowed
  RecordedOnce
