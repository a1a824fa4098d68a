SPECIFICATION Spec
CONSTANTS
  Methods = {GET, POST}
  Engines = {"rdx", "dir", "hst"}
  Chars = {"a", "A", "."}
  MaxPath = 3
  Trees <- MCTrees
  Configs <- MCConfigs
  Names = {"k", "m"}
  MaxItems = 2
  MaxArgs = 2
  MaxBound = 4
  Requests = {q1, q2}
  NoRequest = NoRequest
  MaxRoutes = 1
SYMMETRY Alike
CHECK_DEADLOCK FALSE
INVARIANTS Found Files Bound Served
