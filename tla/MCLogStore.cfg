SPECIFICATION Spec
CONSTANTS
  Posts = {p1, p2}
  NoPost = NoPost
  Kinds = {"writer"}
  Batch = 2
  MaxSize = 1
  Days = 1
  Tagged = TRUE
  Faults = FALSE
  Closes = FALSE
SYMMETRY PostSymmetry
INVARIANTS
  PostOrder
  Bounded
