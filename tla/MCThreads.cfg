SPECIFICATION Spec
CHECK_DEADLOCK FALSE
CONSTANTS
  Putters = {p1, p2}
  Takers = {c1, c2}
  MaxSize = 1
  MaxPuts = 2
  PoolWorkers = {w1, w2}
  PoolClients = {u1, u2}
  MaxQueueSizes = {0, 1}
  MaxRuns = 2
  LinesPerBuffer = 1
  DropAbove = 3
  DropKeep = 2
  MaxLines = 6
  MaxThreads = 2
  MaxGets = 3
INVARIANTS
  QueueHandsOver
  PoolHandsOver
  ThreadHandshake
  LogHandsOver
  EltLoopsInUse
PROPERTY
  ThreadsProgress
