CONSTANTS
  Payload = {a, b}
  ConnIds = {0, 1}
  ConnId = 1
  SeqSpace = 6
  MaxFrames = 5
SPECIFICATION Spec
INVARIANTS ReleasesAllItCan BufferHoldsOnlyTheGapped
PROPERTY ImplementsChannel
