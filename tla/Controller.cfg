SPECIFICATION CtlSpec
CONSTANTS
  None = None
  Contexts = {c1}
  File = File
  Heir = Heir
  Socket = Socket
  Utils = Utils
  Packages = {File, Heir, Utils}
  Names = {n1}
  k1 = k1
  k2 = k2
  Constructors = {k1, k2}
  ISA <- MCISA
  New <- MCNew
  Tweaked = {File}
INVARIANTS
  CtlTypeOK
  BoundRight
  ChainEnds
CHECK_DEADLOCK FALSE
