SPECIFICATION FairSpec
CONSTANTS
  Conn = {c1}
  Requests <- MCRequests
  Responses <- MCResponses
  Tool = {"read", "send"}
  Policies <- MCPolicies
  Feeds <- MCFeeds
  MaxChanges = 2
INVARIANTS
  ResponsesAreJudgedByOneGuard
  
PROPERTIES
  LocalIndicatorsArrive
