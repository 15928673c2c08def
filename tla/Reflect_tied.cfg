SPECIFICATION FairSpec
CONSTANTS
  Objects = {o, f}
  Functions = {f}
  Contexts = {c1, c2}
  AutoTieValues = {TRUE, FALSE}
  Sharing = FALSE
  MaxRefs = 2
  MaxCount = 4
INVARIANTS
  TypeOK
  HeldUsable
  CountCovers
  PassportSound
PROPERTIES
  UnrootedAtRelease
  Reclaimed
CHECK_DEADLOCK FALSE
