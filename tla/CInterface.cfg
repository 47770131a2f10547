SPECIFICATION FairSpec
CONSTANTS
  o1 = o1
  o2 = o2
  p1 = p1
  Ops <- TwoOps
  Paths <- OnePath
  Dests <- OneDest
  BindAS <- OneAS
  Ports <- OnePort
  External <- NatEndpoint
  RawPaths <- TwoRawPaths
  PathData <- LocalPath
  Payloads <- TwoPayloads
  MaxInbox = 2
  MaxPackets = 2
  MaxHeld = 1
  MaxCalls = 6
  None = None
CHECK_DEADLOCK FALSE
INVARIANTS
  PacketValid
  PathsHeldAlive
  CompletedOnce
PROPERTIES
  DataDelivered
