SPECIFICATION FairSpec
CONSTANTS
  Conns = {c1}
  Nobody = Nobody
  Key <- MCOwnKey
  Native = TRUE
  MaxFrames = 4
  MaxPush = 0
INVARIANTS
  Whole
PROPERTY HandlerEnds
