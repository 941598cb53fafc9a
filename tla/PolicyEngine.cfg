SPECIFICATION EngineSpec
CONSTANTS
  Fragments <- MCFragments
  Canonical <- MCCanonical
  Home <- MCHome
  HashOrders <- MCOrders
  OrgDocs <- MCOrgDocs
  LocalDocs <- MCLocalDocs
  Calls <- MCCalls
CHECK_DEADLOCK FALSE
INVARIANTS
  VerdictIsStrongest
  BaselineHolds
  LocalRulesOnlyTighten
  LabelsGrantNothing
  
