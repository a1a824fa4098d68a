SPECIFICATION Spec
CONSTANTS
  Procs = {p1, p2}
  Nobody = Nobody
  AnyPeer = AnyPeer
  Pairs <- MCPairs
  Filters = {Nobody, p1, p2}
  OwnerCap = 2
  QueueCap = 2
  CacheCap = 2
  FlowCap = 2
  Refresh = 1
  GcEvery = 1
  Expire = 2
  Times = {1, 2, 4}
  MaxEvents = 4
SYMMETRY MCSymmetry
INVARIANTS
  Accounted
PROPERTY FlowsKept
