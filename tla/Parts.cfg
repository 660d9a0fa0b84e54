CONSTANTS
  OtaServers <- MCServers
  OtaSizes <- MCSizes
  OtaChunk = 2
  RespBufLen = 5
  HttpChunkSize = 5
  OtaMaxWire = 12
  NetPorts <- MCPorts
  NetMaxBytes = 3
  NetReadLen = {1, 3}
  ClockRange = 16
  ClockWaits = {0, 1, 5, 8, 9, 15}
  ClockLongest = 20
  TimerNums = {1, 2}
  TimerPeriods = {1, 3}
  TimerRange = 6
  KeyWants <- MCKeyWants
  DebounceTime = 1
  ClickTime = 4
  PressTime = 3
  KeyMaxAge = 5
  KeySteps = {1, 2}
  Requests <- MCRequests
  ConnectPacket <- MCConnect
  Arrivals <- MCArrivals
  SendBufLen = 132
  ReadBufLen = 16
  CutAt = {0, 1, 3, 6, 11, 16, 64, 130}
  StrayIds = {0, 258}
  WireMaxPackets = 4
  FilterChars = {"a", "/", "+", "#", "control"}
  NameChars = {"a", "b", "/"}
  FilterLen = 4
  NameLen = 4
  TopicMaxLen = 5
  CoapPorts <- MCUdpPorts
  DeviceId <- MCDeviceId
  Password <- MCPassword
  AuthTokens <- MCAuthTokens
  DeviceInfo <- MCDeviceInfo
  CloudData <- MCCloudData
  CoapAnswers <- MCCoapAnswers
  FirstIds = {1, 65534}
  MaxPdu = 97
  CoapSendsMax = 2
  CoapAnswersMax = 1
  Publishers = {"a", "b"}
  SecureModes = {1, 2, 3}
  BlockLen = 2
  IndexRange = 6
  PacketIdRange = 2
  PayloadLens = {5, 7}
  CryptoSessionsMax = 2
  CryptoSendsMax = 2
  LogTags = {"a", "b", "c", "d"}
  LogText <- MCLogText
  LogLevels = {1, 4}
  TAG_CACHE_SIZE = 3
  LogGenerationsMax = 5
SPECIFICATION PartsSpec
CHECK_DEADLOCK FALSE
INVARIANTS
  PartsTypeOK
  OtaInOrder
  NetBytesReported
  ClockRight
  OneShotOnce
  LongPressEnds
  ConnectionInStep
  HandlerOfCoveringFilter
  ServerReadsTheRequest
  AnswerFindsItsRequest
  PayloadsRead
  CacheFollowsLevels
PROPERTIES
  OtaEnds
  TimerFires
