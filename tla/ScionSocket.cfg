SPECIFICATION Spec
CONSTANTS
  l1 = l1
  e1 = e1
  e2 = e2
  r1 = r1
  r2 = r2
  s1 = s1
  Backends = {"posix", "asio"}
  Locals <- OneLocal
  External <- TwoExternal
  Remotes <- TwoRemotes
  Servers <- OneServer
  None = None
  Mail <- Mixed
  FlagSets <- SomeFlags
  QueueSize = 2
  MaxTx = 2
  MaxArrivals = 2
  Retries = 1
CHECK_DEADLOCK FALSE
INVARIANTS
  MappingGenuine
  LearnedOnce
  HandledOnce
PROPERTIES
  PeekAgrees
  QueueDrained
  GetStunMappingEnds
