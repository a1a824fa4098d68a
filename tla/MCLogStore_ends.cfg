SPECIFICATION FairSpec
CONSTANTS
  Posts = {p1, p2}
  NoPost = NoPost
  Kinds = {"writer", "applog"}
  Batch = 1
  MaxSize = 1
  Days = 2
  Tagged = FALSE
  Faults = TRUE
  Closes = TRUE
INVARIANTS
  AcceptedStored
PROPERTY BatchesEnd
