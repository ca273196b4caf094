\* One supervisor with two watched files, and files that are busy twice at most.
SPECIFICATION Spec
CONSTANTS
  MaxAttempt = 2
  Windows = FALSE
  Files = {f1, f2}
  Config = config
INVARIANTS OneChild RestartingIsSignalled
PROPERTY ChangeIsTaken
CHECK_DEADLOCK FALSE
