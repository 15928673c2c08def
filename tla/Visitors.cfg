SPECIFICATION Spec
CONSTANTS
  Things = {t1, t2}
  Shells = {s1, s2, s3}
  Contexts = {c1, c2}
  c1 = c1
  t1 = t1
  s1 = s1
  s2 = s2
  None = None
  MaxMagic = 2
  Programs <- MCPrograms
INVARIANTS
  TypeOK
  IdentityKept
  MagicExact
  HandleHonest
  NoLeak
PROPERTIES
  RoundTripIntegrity
CHECK_DEADLOCK FALSE
