SPECIFICATION Spec
CONSTANTS
  Root = root
  Node = {root, a, b, c, d}
  Few = {a, b, c}
  None = None
  MaxListed = 2
  MaxHidden = 1
  Scenes = {"moves", "structure", "hover", "select", "keys"}
SYMMETRY Nodes
INVARIANTS TreeShape ShownAsItIs MoveLands
PROPERTIES LinesKept
CHECK_DEADLOCK FALSE
