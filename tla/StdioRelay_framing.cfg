SPECIFICATION Spec
CONSTANTS
  ClientFrame <- MCClientFrame
  ServerBody <- MCOneBody
  RedactKeys <- MCRedactKeys
  Modes = {"FailOpen", "DegradeSafely"}
  MaxClient = 1
  MaxServer = 1
CHECK_DEADLOCK FALSE
INVARIANT FramesStayWhole
