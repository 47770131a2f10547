SPECIFICATION Spec
CONSTANTS
  tun = tun
  x1 = x1
  p1 = p1
  p2 = p2
  q1 = q1
  q2 = q2
  TunIP = tun
  ExtraIPs <- OneExtra
  Ports <- OnePort
  LocalEps <- BothIPs
  Paths <- TwoPaths
  NoPath = NoPath
  None = None
  Queues <- TwoQueues
  Ui = Ui
  Maint = Maint
  EgressPkts <- ThirdJoin
  IngressPkts <- JoinOnly
  MaxFlows = 3
  MaxPackets = 3
  Reaping = TRUE
CHECK_DEADLOCK FALSE
SYMMETRY Symmetry
INVARIANTS
  SubflowsDistinct
PROPERTIES
  MultipathPathStable
