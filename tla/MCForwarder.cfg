SPECIFICATION Spec
CONSTANTS
  TcpFlows <- Flows
  Workloads <- Loads
  CmdCapacity = 3
  TxCapacity = 1
  UdpKeys = {k1}
  MaxReplies = 1
  MaxEvents = 2
CHECK_DEADLOCK FALSE
INVARIANTS NoLostWakeup  SlotsAccounted FlowsAccounted
PROPERTY StreamInOrder
