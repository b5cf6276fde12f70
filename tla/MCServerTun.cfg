CONSTANTS
  c1 = c1
  c2 = c2
  c3 = c3
  A = A
  B = B
  Chan = {c1, c2, c3}
  Client <- MCClient
  Kind <- MCKind
  Device <- MCDevice
  Introduced <- MCIntroduced
  TunMode = TRUE
  MaxResponses = 1
  SessionId = {0, 1, 2}
  Ip = {ip}
  NotIp = NotIp
  ConnectionId = {1}
  MaxSubmitted = 1
  MaxReturned = 1
SPECIFICATION ServerSpec
CHECK_DEADLOCK FALSE
INVARIANTS NoDanglingIp NothingLeaks RouteReceiverOpen ReturnsReachTheirClient
