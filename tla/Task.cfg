\* Three tasks, chained in every way; two where lists are knotted.
SPECIFICATION Spec
CONSTANTS
  Tasks = {t1, t2, t3}
  None = None
  Few = 2
  Transformers <- NoneOrBoth
SYMMETRY Identities
INVARIANTS SharedFate NobodyLost
PROPERTIES OutcomesFinal
CHECK_DEADLOCK FALSE
