SPECIFICATION FairSpec
CONSTANTS
  good = good
  bad = bad
  Refresher = {r1}
  Reader = {x1}
  Doc <- MCDoc
  Broken <- MCBroken
  Source = {"ControlPlane", "Cache"}
  Config <- MCDeployments
INVARIANTS
  AvailabilityCoherent
  SignedSourceOnly
  ReportedIsEnforced
PROPERTIES
  Heals
