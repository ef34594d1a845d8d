SPECIFICATION NetSpec
CHECK_DEADLOCK FALSE
CONSTANTS
  Channels = {c1, c2, c3}
  Fds = {fd1, fd2}
  NoChannel = NoChannel
  NoFd = NoFd
  PollChannels = {1, 2, 3}
  TimerAddrs = {1, 2}
  TimerDelays = {0, 2}
  MaxTimers = 3
  MaxTime = 3
  MaxRetryDelay = 3
  MaxCalls = 2
  MaxAttempts = 3
  KeepAlive = 3
  NcSizes = {1, 3}
  NcRoom = 2
  NcMark = 2
  NcCalls = 3
  SrvPools = {0, 2}
  SrvConns = 3
  MaxFds = 3
INVARIANTS
  PollerInv
  NoDanglingChannel
  
  TimersKept
  ClientSound
  
  ServerSound
