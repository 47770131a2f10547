SPECIFICATION Spec
CONSTANTS
  t1 = t1
  t2 = t2
  e1 = e1
  e2 = e2
  x1 = x1
  x2 = x2
  x3 = x3
  x4 = x4
  Threads <- TwoThreads
  External <- TwoAddresses
  Local = Local
  Unmapped = Unmapped
  Txs <- FourTxs
  NoTx = NoTx
  NoPacket = NoPacket
  NatTimeout = 2
  MaxDelay = 1
  Start = 3
  MaxTime = 8
  MaxPackets = 5
  Broken = TRUE
SYMMETRY Symmetry
CHECK_DEADLOCK FALSE
INVARIANTS
  MappingCurrent
  NotBlocked
  IdleNotUnderestimated
  SentOnce
