SPECIFICATION FairSpec
CONSTANTS
  tun = tun
  x1 = x1
  p1 = p1
  p2 = p2
  q1 = q1
  q2 = q2
  TunIP = tun
  ExtraIPs <- OneExtra
  Ports <- OnePort
  LocalEps <- BothIPs
  Paths <- TwoPaths
  NoPath = NoPath
  None = None
  Queues <- OneQueue
  Ui = Ui
  Maint = Maint
  EgressPkts <- JoinFin
  IngressPkts <- ThirdOnly
  MaxFlows = 3
  MaxPackets = 3
  Reaping = FALSE
CHECK_DEADLOCK FALSE
PROPERTIES
  TableDrains
