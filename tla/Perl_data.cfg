SPECIFICATION Spec
CONSTANTS
  Kinds = {"ARRAY", "HASH"}
  Names = {n1, n2}
  Digits = {0}
  Values = {v1}
  Undefined = Undefined
  Hole = Hole
  Bad = Bad
  Thrown = Thrown
  MaxLen = 3
  MaxLoops = 2
INVARIANTS
  TypeOK
  LoopsComplete
PROPERTY
  NothingLost
