SPECIFICATION DataSpec
CHECK_DEADLOCK FALSE
CONSTANTS
  Bytes <- MCBytes
  Zero = 0
  kCheapPrepend = 1
  kInitalSize = 3
  ExtraSize = 2
  Strings <- MCStrings
  Lengths <- MCLengths
  MaxReadable = 4
  NbCheap = 2
  NbInitial = 2
  NbExtra = 2
  NbMost = 4
  NbCalls = 4
  HttpRequests = 3
  CodecFrames = 2
  ThrRequests = 3
  ThrWorkers = {1, 2}
  FcgiRequests = 2
  SolBox = 2
  SolLines = 2
  StatSeconds = 3
  StatClock = 6
  StatRecords = 3
  StatSamples = 4
  SuRequests = 3
  SuWorkers = {1, 2}
  SuRoom = 1
  SuQueue = 1
  SuPipelines = 2
  DateYears = {1900, 1902, 1969, 1970, 2000, 2023, 2024, 2037, 2100, 2499, 2500}
  ZoneEnd = 34
  LogSize = 12
  LogMaxNumeric = 4
  LogLines = 4
  LogClockEnd = 5
  SmallMost = 5
  FetchLengths = {3, 6, 7, 8}
  FetchPieces = 3
  FetchMin = 2
  DnsQueries = {1, 2, 3}
  RedisCommands = 3
  WcSenders = {1, 2}
  WcBuckets = {1}
  WcMaxHash = 1
  WcBatch = 2
  WcMark = 1
  WcRoom = 1
  TrNumbers = {1, 2, 3}
  TrLengths = {1, 2, 3}
  FtFiles = {0, 2, 3, 4}
  FtBuf = 2
  BnClients = {1, 2}
  BnRequests = 2
  BnEchoes = 4
INVARIANTS
  IndicesOrdered
  SpaceBounded
  ProtocolsSound
  
  
  ClientsSound
  
PROPERTY
  ImplementsByteQueue
