\* The pages of the paths above, against the readme.
SPECIFICATION Spec
CONSTANTS
  Paths <- MCPaths
  Index = "index"
INVARIANT ParentPages
CHECK_DEADLOCK FALSE
