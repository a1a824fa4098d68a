SPECIFICATION FairSpec
CONSTANTS
  Controls = {pinger}
  Writer = writer
  Reader = reader
  Nobody = Nobody
  Cap = 1
  CtlMax = 2
  Limit = 2
  Sizes = {1, 3}
  MaxUnits = 3
  MaxFrame = 2
  MaxWork = 3
INVARIANTS
  Lawful
  Faithful
PROPERTIES
  ControlReturns
