SPECIFICATION AppSpec
CHECK_DEADLOCK FALSE
CONSTANTS
  RbThreads = {1, 2}
  RbBackends = {0, 1}
  RbClients = {1, 2, 3}
  RbRequests = 2
  RbDrops = 1
  MuxClients = {1, 2}
  MuxIds = 1
  MuxPacket = 1
  MuxSizes = {1, 2}
  MuxBytes = 3
  MuxBackends = 2
  McSessions = {1, 2}
  McKeys = {1}
  McLongest = 1
  McRequests = 3
  RelayMark = 2
  RelayChunk = 2
  RelayBytes = 4
  ChatMembers = {1, 2, 3}
  ChatLoops = {1, 2}
  ChatMessages = 2
  HubClients = {1, 2}
  HubTopics = {1, 2}
  HubCommands = 3
  HubTicks = 1
  RpcClients = {1, 2}
  RpcBackends = {1, 2}
  RpcCalls = {1, 2, 3}
  RpcConns = 1
  IdleConns = {1, 2, 3}
  IdleSeconds = 2
  MaxConnections = 1
  ForceDelay = 2
  IdleEnd = 4
INVARIANTS
  
  
  
  ChatReachesAll
  HubKeepsCurrent
  
  IdleClosesInTime
