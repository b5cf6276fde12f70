SPECIFICATION VpnSpec
CONSTANTS
  Thread = {m, t1}
  Main = m
  HandoverWorks = TRUE
  Sid = {1, 2}
CHECK_DEADLOCK FALSE
INVARIANT NoSilentDeath
  
