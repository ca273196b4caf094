\* A scene for each part; the values of the observed arrays are alike.
SPECIFICATION MCSpec
CONSTANTS
  n1 = n1
  n2 = n2
  n3 = n3
  n4 = n4
  n5 = n5
  n6 = n6
  n7 = n7
  n0 = n0
  k1 = k1
  k2 = k2
  Boxes = {n1, n2}
  Fx = {n1}
  Asking = {n2}
  Space = {2, 4, 6}
  MaxOpen = 2
  MaxImmediate = 2
  Value = {u, w}
  Undefined = None
  Obj = {n1, n2}
  Observer = {n3, n4}
  Property = {"p"}
  Absent = None
  Entry = 2
  MaxRecords = 3
  Name = {"p", "q"}
  Nil = None
  Watches <- Watched
  Transformed = {n4}
  MaxCycles = 2
  MaxChanges = 3
  Option = {n1, n2, n3}
  Default = n1
  Item = {n1, n2}
  Types <- Kinds
  DefaultType = "plain"
  Key = {k1, k2}
  Table = {n1, n2}
  MaxItems = 2
  Mod = {n1, n2}
  Inline = {n2}
  Lists <- ModLists
  MaxRequires = 3
  File = {n1, n2}
  Main = n1
  Spot = {0, 1, 2}
  Home = 0
  Occupied = {1}
  Known = {0, 2}
  Local = {2}
  UndoLimit = 2
  MaxDemands = 4
  Side = {n1, n2}
  Handlers = {n2}
  NoOption = None
  MenuOption = {n1, n2, n3, n4, n5, n6, n7}
  MenuRoot = n0
  MenuOptions <- Grouped
  Radio = {n4, n5, n6}
  Sep = {n5, n2}
  Checkbox = {n7}
  Disabled = {}
  Shortcut <- Shortcuts
  Target = {k1, k2}
  Asked <- States
  None = None
SYMMETRY Values
INVARIANTS
  ModulesLoadedOnce ToldTheValue CallsAnswered SamePlace InsertTrue MenusKept
  TransfersLand ViewsTrue BoxesAnswered SplicesReplay ToldTheDifference StaleIsNoticed
PROPERTIES ToldOldAndNew IteratorsFollowTheWalk NoItemLost CheckpointSettles
\* The user stops, a process ends, a bound is reached.
CHECK_DEADLOCK FALSE
