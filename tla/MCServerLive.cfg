CONSTANTS
  c1 = c1
  c2 = c2
  c3 = c3
  A = A
  B = B
  Chan = {c1, c3}
  Client <- MCClient
  Kind <- TcpAndQuic
  Device <- TwoDevices
  Introduced <- MCIntroduced
  TunMode = TRUE
  MaxResponses = 1
  SessionId = {0, 1, 2}
  Ip = {ip}
  NotIp = NotIp
  ConnectionId = {1}
  MaxSubmitted = 1
  MaxReturned = 2
SPECIFICATION FairServerSpec
CHECK_DEADLOCK FALSE
INVARIANT ChannelGapless
PROPERTIES UsesBridge TeardownCompletes
