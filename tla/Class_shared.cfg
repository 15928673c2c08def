SPECIFICATION Spec
CONSTANTS
  Classes = {k1, k2}
  Names = {foo}
  Contexts = {c1, c2}
  Objects = {o1}
  Width = 4
  None = None
  Error = Error
  m = m
  p = p
  q = q
  Members <- AllMembers
  Definitions <- AllDefinitions
INVARIANT
  OwnClass
