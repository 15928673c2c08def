SPECIFICATION FairSpec
CONSTANTS
  None = None
  r1 = r1
  r2 = r2
  c1 = c1
  c2 = c2
  watch = watch
  refuse = refuse
  Runtimes = {r1, r2}
  Contexts = {c1, c2}
  Addresses = {1, 2}
  Handlers = {watch, refuse}
  Holds <- MCHolds
  Answers <- MCAnswers
  MaxDepth = 4
INVARIANTS
  TypeOK
  Outlived
  FindsIt
  Reclaimed
PROPERTY Stops
CHECK_DEADLOCK FALSE
