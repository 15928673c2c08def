SPECIFICATION Spec
CONSTANTS
  Contexts = {c1, c2}
  Values = {v1}
  PerlSubs = {s1, s2}
  Functions = {g1}
  Undefined = Undefined
  None = None
  x = x
  f = f
  Scalars <- AllScalars
  Subs <- AllSubs
  Programs <- AllPrograms
INVARIANT
  TypeOK
PROPERTIES
  Vetoed
  NeverReplaced
SYMMETRY AnyContexts
