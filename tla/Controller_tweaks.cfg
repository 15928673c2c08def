SPECIFICATION CtlSpec
CONSTANTS
  None = None
  Contexts = {c1, c2}
  File = File
  Heir = Heir
  Socket = Socket
  Utils = Utils
  Packages = {File, Heir}
  Names = {n1}
  k1 = k1
  k2 = k2
  Constructors = {k1, k2}
  ISA <- MCISA
  New <- MCNew
  Tweaked = {File}
INVARIANT Tweaks
CHECK_DEADLOCK FALSE
