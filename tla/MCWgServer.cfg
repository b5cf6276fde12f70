CONSTANTS
  Device = {d1, d2}
  WgKey = {k1, k2}
  Addr = {a1, a2}
  NoAddr = NoAddr
  TunMode = TRUE
  MixedDevice = {d2}
  MaxSession = 3
  MaxDatagrams = 2
SYMMETRY Symmetry
SPECIFICATION WgsSpec
CHECK_DEADLOCK FALSE
INVARIANTS  SessionBelongsToDevice
