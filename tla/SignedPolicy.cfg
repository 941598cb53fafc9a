SPECIFICATION Spec
CONSTANTS
  NoOrg = "unset"
  Org <- MCOrg
  Key = {"primary", "secondary", "test", "extra"}
  Body <- MCBody
  Valid = {"strict", "lax", "laxer"}
  Digest <- MCDigest
  WireDigest <- MCWireDigest
  Envelope <- MCEnvelope
  Fleet <- MCFleet
  AcceptanceFile <- MCAcceptanceFile
  PinnedKey <- MCPinnedKey
  KeySettings <- MCKeySettings
  MaxTime = 3
INVARIANTS
  EnforcedIsAuthentic
  EnforcedIsRecorded
  LastKnownGood
PROPERTIES
  MovesForward
