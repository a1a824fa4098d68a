SPECIFICATION FairSpec
CONSTANTS
  Runners = {r1, r2}
  Stoppers = {s1, s2}
  Fds = {1, 2}
  Probes = 2
  Protocols = {"p", "q"}
  MaxText = 5
  MaxBytes = 8
  Users = {1, 2}
  FrameKinds = {"plain", "deflated"}
  Conns = {1, 2}
  MaxConn = 1
  Limits <- MCLimits
  Cap = 5
  CapPayload = 4
  Scan = 2
  MaxLen = 2
  MaxMsgs = 2
  MaxPacket = 5
  MaxSent = 5
  MaxStray = 1
CHECK_DEADLOCK FALSE
INVARIANTS NothingHeld Shaken Framed 
PROPERTY AllReturn
