SPECIFICATION Spec
CONSTANTS
  Objects = {o, f}
  Functions = {f}
  Contexts = {c1}
  AutoTieValues = {TRUE, FALSE}
  Sharing = FALSE
  MaxRefs = 2
  MaxCount = 4
INVARIANTS
  NoDangling
CHECK_DEADLOCK FALSE
