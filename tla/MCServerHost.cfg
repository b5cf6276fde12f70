SPECIFICATION Spec
CONSTANTS
  Device = {d1, d2}
  Conn = {c1, c2}
  NoDevice = NoDevice
  MaxPair = 5
  Hosts <- MCHosts
SYMMETRY Symmetry
INVARIANTS
  
  KeysComeFromPairing
  PairedAreKept
  HostRestored
  ServedPairMatches
PROPERTY ShowsCerts
CHECK_DEADLOCK FALSE
