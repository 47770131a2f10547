SPECIFICATION TcpSpec
CONSTANTS
  NoFlow = NoFlow
  FlowTimeout = 2
  Openers = {"local"}
  MaxQueue = 2
CHECK_DEADLOCK FALSE
INVARIANTS
  OpenConnectionKept
PROPERTIES
  UnusedFlowForgotten
