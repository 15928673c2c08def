SPECIFICATION FairSpec
CONSTANTS
  Programs <- MCPrograms
  MaxRuns = 3
  MaxDepth = 5
INVARIANTS
  TypeOK
  Guarded
  Tidy
PROPERTIES
  Stops
CHECK_DEADLOCK FALSE
