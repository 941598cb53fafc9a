SPECIFICATION FairSpec
CONSTANTS
  ClientFrame <- MCClientFrame
  ServerBody <- MCServerBody
  RedactKeys <- MCRedactKeys
  Modes = {"FailOpen", "DegradeSafely"}
  MaxClient = 2
  MaxServer = 1
CHECK_DEADLOCK FALSE
INVARIANTS
  EveryFrameHasOneFate
  OnlyWhatWasAllowedIsRelayed
  ServerFramesAreSanitized
PROPERTIES
  ServerFramesArrive
  WrapperEnds
