SPECIFICATION Spec
CONSTANTS
  Classes = {k1, k2, k3}
  Names = {foo, bar}
  Contexts = {c1, c2}
  Objects = {o1}
  Width = 4
  None = None
  Error = Error
  m = m
  p = p
  q = q
  Members <- AllMembers
  Definitions <- AllDefinitions
INVARIANTS
  TypeOK
  Dispatch
SYMMETRY AnyNames
