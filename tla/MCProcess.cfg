SPECIFICATION FairSpec
CONSTANTS
  Callers = {c1, c2}
  MaxGen = 2
  Piped = TRUE
  Forks = TRUE
INVARIANTS
  TypeOK
  OneGeneration
  SignalledStaysStopping
PROPERTIES
  WaitSound
  RestartReplaces
  ImplementsSupervisor
  StopCompletes
  CallsReturn
