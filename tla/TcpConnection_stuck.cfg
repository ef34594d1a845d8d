SPECIFICATION Spec
CONSTANTS
  SndBuf = 2
  Sizes = {1, 3}
  MaxMsgs = 1
  highWaterMark_ = 2
  PeerMay = {"data"}
  Polite = TRUE
  ServerMayDie = FALSE
  Workers = {}
  WorkerMay = {}
  IOThread = io
CHECK_DEADLOCK FALSE
PROPERTY
  ShutdownCompletes
