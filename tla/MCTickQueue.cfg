SPECIFICATION Spec
CONSTANTS
  LocalNodes = {l1}
  NetworkNodes = {n1, n2}
  RingSlots = 3
  Timed <- MCWithLimit
  MaxTicks = 3
INVARIANTS TypeOK NodesConserved TicksInOrder
PROPERTIES CallReturns
