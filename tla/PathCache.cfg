SPECIFICATION Spec
CONSTANTS
  far = far
  local = local
  maint = maint
  tun = tun
  Routes <- MCRoutes
  LocalRoutes <- MCLocalRoutes
  FlowRoutes <- MCFlowRoutes
  Threads <- MCThreads
  Maint = maint
  Free = Free
  Daemon = Daemon
  Absent = Absent
  Lifetimes <- MCLifetimes
  Forever = 99
  MinAccepted = 2
  RefreshAt = 3
  Interval = 1
  MaxDelay = 1
  MaxQueries = 2
  MaxTime = 4
  UserActs = TRUE
INVARIANTS
  PendingHasQuery
  NeverRunsDry
  RetriedInTime
PROPERTIES
  RefreshEnds
