SPECIFICATION Spec
CONSTANTS
  UsesLimit = 2
  HistoryCap = 2
  Caller = {c1, c2}
  Action <- MCAction
  MaxGrants = 2
  MaxTime = 1
  OnceTtl = 1
  SessionTtl = 1
SYMMETRY MCSymmetry
INVARIANTS
  IndInv
  SingleUse
  UsesAreAudited
PROPERTIES
  ConsumedIsFinal
  IndexesFollowTheirGrants
  UsesAreCovered
