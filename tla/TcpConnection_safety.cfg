SPECIFICATION SafeSpec
CONSTANTS
  SndBuf = 2
  Sizes = {1, 3}
  MaxMsgs = 2
  highWaterMark_ = 2
  PeerMay = {"data", "fin", "reset", "urgent"}
  Polite = FALSE
  ServerMayDie = TRUE
  Workers = {w1}
  WorkerMay = {"shutdown"}
  IOThread = io
CHECK_DEADLOCK FALSE
INVARIANTS
  ConnInv
  StreamInOrder
  NoTruncation
  PendingIsWatched
  CallbacksInOrder
