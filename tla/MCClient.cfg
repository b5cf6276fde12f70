SPECIFICATION Spec
CONSTANTS
  Configs <- Clients
  MaxCert = 3
  Provider = {p1}
  MaxInstance = 2
  Conn = {1, 2, 3}
INVARIANTS SocketsOnTheirNetwork StalePinHeals PeersAccounted OneRelayPerPeer
PROPERTIES IdentityIsKept EstablishEnds
CHECK_DEADLOCK FALSE
