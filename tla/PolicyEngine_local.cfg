SPECIFICATION EngineSpec
CONSTANTS
  Fragments <- MCFragments
  Canonical <- MCCanonical
  Home <- MCHome
  HashOrders <- MCOrders
  OrgDocs <- MCOrgDocs
  LocalDocs <- MCLocalDocs
  Calls <- MCCalls
INVARIANT LocalOnlyTightens
CHECK_DEADLOCK FALSE
