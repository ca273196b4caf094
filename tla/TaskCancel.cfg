\* cancel() against what the readme says of it.
SPECIFICATION Spec
CONSTANTS
  Tasks = {t1, t2}
  None = None
  Few = 2
  Transformers <- NoneOnly
SYMMETRY Identities
PROPERTY CancelledNeverSettles
CHECK_DEADLOCK FALSE
