SPECIFICATION PathSpec
CONSTANTS
  Kinds = {"tcp", "ws", "quic"}
  Frames <- MCFrames
  Capacity = 7
CHECK_DEADLOCK FALSE
INVARIANTS NothingReadAheadIsLost FramesIntact
  
