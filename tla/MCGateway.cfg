SPECIFICATION FairSpec
CONSTANTS
  MaxPath = 3
  MaxQuery = 4
  MaxWrites = 2
  MaxUnits = 2
  MaxHints = 1
  Asks = {1, 2, 3}
  Routed = {"/a", "/b", "/c"}
  Hosts = {"h", "i"}
  Bad = {"/c", "i"}
  Reqs = {q1, q2}
  Nobody = Nobody
  Threads = {t1, t2}
  MaxSets = 3
  MaxStmts = 3
  MaxDepth = 2
CHECK_DEADLOCK FALSE
INVARIANTS Forwarded Proxied Kept Recorded Transacted
PROPERTY CopiesEnd
