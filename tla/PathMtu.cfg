SPECIFICATION Spec
CONSTANTS
  d1 = d1
  d2 = d2
  d3 = d3
  d4 = d4
  n1 = n1
  n2 = n2
  n3 = n3
  Dests <- MCDests
  Nodes <- MCNodes
  NoNode = NoNode
  Unknown = Unknown
  NoRecord = NoRecord
  PathMtus <- MCPathMtus
  ScmpMtus <- MCScmpMtus
  HopMtus <- MCHopMtus
  Capacities <- MCCapacities
  MaxTime = 3
SYMMETRY Symmetry
INVARIANTS
  IndexMatchesList
  WithinCapacity
  SortedByAccess
PROPERTIES
  ClearRemovesOld
  ImplementsMap
