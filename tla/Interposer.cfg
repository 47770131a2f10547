CONSTANTS
  t1 = t1
  t2 = t2
  f1 = f1
  b = b
  c = c
  own = own
  p1 = p1
  p2 = p2
  g1 = g1
  g2 = g2
  None = None
  Threads = {t1, t2}
  Fds = {f1}
  Addrs = {b, c}
  Own = own
  Mapped = {own}
  Hash <- MCHash
  Configured <- MCConfigured
  MaxSurrogate = 4
  Order <- MCOrder
  Gens = {g1, g2}
  MaxBatch = 2
  AllowPromote = TRUE
  Families = {"inet6"}
  MaxCalls = 4
  MaxEvents = 1
SPECIFICATION Spec
INVARIANTS
  CachedHeaderValid
  SocketOutlivesCall
  GivenAddressResolves
PROPERTIES
  StickyPath
SYMMETRY Symmetry
CHECK_DEADLOCK FALSE
