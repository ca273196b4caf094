\* Well-behaved clients: nobody rejects what he has resolved.
SPECIFICATION Spec
CONSTANTS
  p1 = p1
  p2 = p2
  p3 = p3
  p4 = p4
  f1 = f1
  undefined = undefined
  error = error
  Promises = {p1, p2, p3, p4}
  Plain = {undefined, error}
  Foreign = {f1}
  Undefined = undefined
  TypeError = error
  Falsy = {undefined}
  None = None
  User = User
  Results = {f1, undefined, p1, p2, p3, p4}
  Reasons = {error}
  HookPairs <- ThenOnly
  LateReject = FALSE
SYMMETRY Identities
INVARIANTS FulfilledWithPlain NobodyLeftBehind
PROPERTIES ReportsAreRejections Implements
CHECK_DEADLOCK FALSE
