SPECIFICATION Spec
CONSTANTS
  Posts = {p1, p2}
  NoPost = NoPost
  Kinds = {"applog"}
  Batch = 2
  MaxSize = 1
  Days = 2
  Tagged = FALSE
  Faults = FALSE
  Closes = FALSE
PROPERTY RecyclerGoesOn
