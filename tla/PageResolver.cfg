\* Every file system, one that fails included.
SPECIFICATION Spec
CONSTANTS
  Paths <- MCPaths
  Index = "index"
INVARIANTS PageFound
PROPERTY Ends
CHECK_DEADLOCK FALSE
