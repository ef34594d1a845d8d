SPECIFICATION Spec
CONSTANTS
  SndBuf = 4
  Sizes = {1, 2}
  MaxMsgs = 2
  highWaterMark_ = 2
  PeerMay = {"data", "fin"}
  Polite = TRUE
  ServerMayDie = FALSE
  Workers = {w1}
  WorkerMay = {"shutdown"}
  IOThread = io
CHECK_DEADLOCK FALSE
INVARIANT
  OnlyRacingShutdownsExit
PROPERTIES
  ClosingCompletes
