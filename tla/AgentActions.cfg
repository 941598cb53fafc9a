SPECIFICATION Spec
CONSTANTS
  Fragments <- MCFragments
  Wire <- MCWire
  Context <- MCContext
  Resolver <- MCResolver
INVARIANTS
  TrustIsEarned
  
  
