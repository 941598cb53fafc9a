SPECIFICATION FairSpec
CONSTANTS
  Emitter = {e1, e2}
  Capacity = 2
  BatchSize = 2
  MaxRetries = 2
  MaxEvents = 5
CHECK_DEADLOCK FALSE
INVARIANTS
  Accounted
PROPERTIES
  QueuedIsSettled
  ShutdownStops
