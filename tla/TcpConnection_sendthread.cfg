SPECIFICATION SendersSpec
CONSTANTS
  SndBuf = 2
  Sizes = {1, 3}
  MaxMsgs = 2
  highWaterMark_ = 2
  PeerMay = {"data"}
  Polite = TRUE
  ServerMayDie = FALSE
  Workers = {w1}
  WorkerMay = {"send"}
  IOThread = io
CHECK_DEADLOCK FALSE
INVARIANT
  StreamInOrder
