\* Foreign thenables, every shape of then(), liveness.
SPECIFICATION FairSpec
CONSTANTS
  p1 = p1
  p2 = p2
  p3 = p3
  p4 = p4
  f1 = f1
  undefined = undefined
  error = error
  Promises = {p1, p2, p3}
  Plain = {undefined, error}
  Foreign = {f1}
  Undefined = undefined
  TypeError = error
  Falsy = {undefined}
  None = None
  User = User
  Results = {undefined, f1, p1, p2, p3}
  Reasons = {error}
  HookPairs <- CatchOnly
  LateReject = TRUE
PROPERTIES RejectionsSurface Delivers FulfilledIsFinal
CHECK_DEADLOCK FALSE
