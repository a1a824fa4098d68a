SPECIFICATION FairSpec
CONSTANTS
  web = web
  cat = cat
  bee = bee
  Modules = {m1, m2}
  Servers = {web, cat, bee}
  KindOf <- MCKindOf
  Keys = {1, 2}
INVARIANTS
  LastInFirstOut
  ClosedOnce
  HttpBeforeModules
PROPERTIES
  SignalEnds
