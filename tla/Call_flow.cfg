SPECIFICATION Spec
CONSTANTS
  Contexts = {c1, c2}
  Errors = {e1, e2}
  Falsy = {e1}
  NoError = NoError
  Nobody = Nobody
  Cancelled = Cancelled
  MaxDepth = 6
INVARIANTS
  TypeOK
  NothingPending
  CurrentRight
PROPERTIES
  ExceptionFlow
  NeverSilent
