------------------------------ MODULE Controls ------------------------------
(***************************************************************************)
(* What the user asks of the tree of the client, and through what: the     *)
(* demands, which can be undone (Demon), those passed to another process   *)
(* (Manager), the menu of the new views (Menu) and that of a tree          *)
(* (ContextMenu).  They share no state: a step is a step of one of them.   *)
(***************************************************************************)
EXTENDS Integers

CONSTANTS
  Spot, Home, Occupied, Known, Local, UndoLimit,          \* of Demon
  Side, Handlers,                                         \* of Manager
  MaxDemands,                                             \* of both
  MenuOption, MenuRoot, NoOption, MenuOptions, Radio, Checkbox, Sep, \* of both menus
  Disabled, Shortcut,                                     \* of Menu
  Target, Asked                                           \* of ContextMenu

VARIABLES
  tree, listed, ins, lockers, treated, index, deferred, call, waiting, restorers, undos, redos, asks, base, latest, mixed,
  sent, callbacks, doing, demands, answers,
  menu, shortcut, inserted,
  treeMenu, heard

DE == INSTANCE Demon WITH
        Place <- Spot, Taken <- Occupied, Limit <- UndoLimit,
        stack <- treated, stacks <- deferred, demands <- asks, raced <- mixed
MG == INSTANCE Manager
MN == INSTANCE Menu WITH
        Option <- MenuOption, Root <- MenuRoot, None <- NoOption, Options <- MenuOptions, Key <- Shortcut
CM == INSTANCE ContextMenu WITH
        Option <- MenuOption, Root <- MenuRoot, None <- NoOption, Options <- MenuOptions, State <- Asked,
        m <- treeMenu

ASSUME ControlAssumption ==
  DE!DemonAssumption /\ MG!ManagerAssumption /\ MN!MenuAssumption /\ CM!ContextMenuAssumption

demonVars ==
  <<tree, listed, ins, lockers, treated, index, deferred, call, waiting, restorers, undos, redos, asks, base, latest, mixed>>
managerVars == <<sent, callbacks, doing, demands, answers>>
menuVars == <<menu, shortcut, inserted>>
treeMenuVars == <<treeMenu, heard>>
controlVars == <<demonVars, managerVars, menuVars, treeMenuVars>>

ControlInit == DE!Init /\ MG!Init /\ MN!Init /\ CM!Init

DemonNext == DE!Next /\ UNCHANGED <<managerVars, menuVars, treeMenuVars>>
ManagerNext == MG!Next /\ UNCHANGED <<demonVars, menuVars, treeMenuVars>>
MenuNext == MN!Next /\ UNCHANGED <<demonVars, managerVars, treeMenuVars>>
TreeMenuNext == CM!Next /\ UNCHANGED <<demonVars, managerVars, menuVars>>

ControlNext == DemonNext \/ ManagerNext \/ MenuNext \/ TreeMenuNext

ControlSpec == ControlInit /\ [][ControlNext]_controlVars

-----------------------------------------------------------------------------
(* The undos lead back to where the user began, no call of the demon is    *)
(* stuck, and a demand to the other process is answered once.              *)
CallsAnswered == DE!UndoLeadsBack /\ DE!NothingStuck /\ MG!OneAsked

(* One option lit, one group open, one radio chosen, one of the menu and   *)
(* the tree that hears, the shortcuts of the options that are there.       *)
MenusKept == MN!OneOfEach /\ MN!ShortcutsThere /\ CM!OneOfEach /\ CM!MenuOrTree
=============================================================================
