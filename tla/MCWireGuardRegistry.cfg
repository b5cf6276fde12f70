CONSTANTS
  Device = {d1, d2, d3}
  WgKey = {k1, k2}
  Hosts = 2
  PeerLease = 2
  MaxTime = 4
SYMMETRY Symmetry
SPECIFICATION WgSpec
CHECK_DEADLOCK FALSE
INVARIANTS AddressesUnique AssignmentsSurvive PanicsOnlyWhenFull
PROPERTY LeaseRunsItsTerm
