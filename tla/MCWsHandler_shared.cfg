SPECIFICATION Spec
CONSTANTS
  Conns = {c1, c2}
  Nobody = Nobody
  Key <- MCSharedKey
  Native = FALSE
  MaxFrames = 1
  MaxPush = 1
INVARIANT NothingLeft
