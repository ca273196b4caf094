------------------------------- MODULE Client -------------------------------
(***************************************************************************)
(* Parts of the client, and the files of its server, of which theorems are *)
(* proved: boxes (Box), listeners of a model (Watch), the observers of an  *)
(* object (ObjectObserver) and those of paths (PathObserver), selectors    *)
(* (Selector), the properties of nodes (Properties), the tables of the     *)
(* store (Db) and the loaders (Require and ModuleCache).  They share no    *)
(* state: a behaviour is about one of them, its scene, and the variables   *)
(* of the others are 0.  The two kinds of observers ask the same engine    *)
(* whether it has Object.observe.                                          *)
(***************************************************************************)
EXTENDS Integers

CONSTANTS
  Boxes, Fx, Asking, Space, MaxOpen, MaxImmediate,        \* of Box
  Value,                                                  \* of Watch and ObjectObserver
  Obj, Observer,                                          \* of both kinds of observers
  Property, Absent, Entry, MaxRecords,                    \* of ObjectObserver
  Name, Nil, Watches, Transformed, MaxCycles, MaxChanges, \* of PathObserver
  Option, Default,                                        \* of Selector
  Item, Types, DefaultType, Key,                          \* of Properties
  Undefined,                                              \* of Watch and Properties
  Table, MaxItems,                                        \* of Db
  Mod, Inline, Lists, MaxRequires,                        \* of Require
  File, Main,                                             \* of ModuleCache
  None

VARIABLES
  scene,
  b, focusedBox, active, space, asked, opens, closes, wanted, raced,
  data, hasData, told, by,
  object, state, value, direct, oldObject, entries, cache, known,
  memory, run, writes,
  kind, hasFocus, selector, openers, renewed, departed, choice,
  properties, created, attached, hadKey, fired,
  disk, tables, whole, loading, reading, mkdirs, creates, unlinks, calls, errors, lost,
  provided, loaded, fetching, listeners, dependencies, counted, resolved, called, stack, thrown,
  parent, children, modules, resolvedPaths, source, exports, evaluating, throwing, underway, runs, failed, got,
  hasObserve

O == INSTANCE Box
W == INSTANCE Watch
G == INSTANCE ObjectObserver WITH Name <- Property
H == INSTANCE PathObserver WITH m <- memory
SE == INSTANCE Selector WITH s <- selector, open <- openers, left <- departed, told <- choice
PR == INSTANCE Properties WITH s <- properties, inside <- attached
T == INSTANCE Db WITH writes <- creates
RQ == INSTANCE Require WITH exports <- provided, count <- counted, calls <- called
MO == INSTANCE ModuleCache WITH cache <- modules, loading <- underway

ASSUME ClientAssumption ==
  O!BoxAssumption /\ None \notin Observer /\ H!PathAssumption /\ PR!PropertiesAssumption
  /\ RQ!RequireAssumption /\ MO!ModuleAssumption

boxVars == <<b, focusedBox, active, space, asked, opens, closes, wanted, raced>>
watchVars == <<data, hasData, told, by>>
objectVars == <<object, state, value, direct, oldObject, entries, cache, known>>
pathVars == <<memory, run, writes>>
selectorVars == <<kind, hasFocus, selector, openers, renewed, departed, choice>>
propertyVars == <<properties, created, attached, hadKey, fired>>
dbVars == <<disk, tables, whole, loading, reading, mkdirs, creates, unlinks, calls, errors, lost>>
requireVars == <<provided, loaded, fetching, listeners, dependencies, counted, resolved, called, stack, thrown>>
moduleVars ==
  <<parent, children, modules, resolvedPaths, source, exports, evaluating, throwing, underway, runs, failed, got>>
clientVars ==
  <<scene, boxVars, watchVars, objectVars, pathVars, selectorVars, propertyVars, dbVars, requireVars, moduleVars,
    hasObserve>>

BoxRest ==
  /\ b = 0 /\ focusedBox = 0 /\ active = 0 /\ space = 0 /\ asked = 0
  /\ opens = 0 /\ closes = 0 /\ wanted = 0 /\ raced = 0
WatchRest ==
  /\ data = 0 /\ hasData = 0 /\ told = 0 /\ by = 0
ObjectRest ==
  /\ object = 0 /\ state = 0 /\ value = 0 /\ direct = 0 /\ oldObject = 0
  /\ entries = 0 /\ cache = 0 /\ known = 0
PathRest ==
  /\ memory = 0 /\ run = 0 /\ writes = 0
SelectorRest ==
  /\ kind = 0 /\ hasFocus = 0 /\ selector = 0 /\ openers = 0 /\ renewed = 0
  /\ departed = 0 /\ choice = 0
PropertyRest ==
  /\ properties = 0 /\ created = 0 /\ attached = 0 /\ hadKey = 0 /\ fired = 0
DbRest ==
  /\ disk = 0 /\ tables = 0 /\ whole = 0 /\ loading = 0 /\ reading = 0
  /\ mkdirs = 0 /\ creates = 0 /\ unlinks = 0 /\ calls = 0 /\ errors = 0 /\ lost = 0
RequireRest ==
  /\ provided = 0 /\ loaded = 0 /\ fetching = 0 /\ listeners = 0 /\ dependencies = 0
  /\ counted = 0 /\ resolved = 0 /\ called = 0 /\ stack = 0 /\ thrown = 0
ModuleRest ==
  /\ parent = 0 /\ children = 0 /\ modules = 0 /\ resolvedPaths = 0 /\ source = 0 /\ exports = 0
  /\ evaluating = 0 /\ throwing = 0 /\ underway = 0 /\ runs = 0 /\ failed = 0 /\ got = 0

AtRest ==
  /\ BoxRest /\ WatchRest /\ ObjectRest /\ PathRest /\ SelectorRest /\ PropertyRest /\ DbRest
  /\ RequireRest /\ ModuleRest /\ hasObserve = 0

OthersRest ==
  /\ IF scene = "boxes" THEN TRUE ELSE BoxRest
  /\ IF scene = "watch" THEN TRUE ELSE WatchRest
  /\ IF scene = "object" THEN TRUE ELSE ObjectRest
  /\ IF scene = "path" THEN TRUE ELSE PathRest
  /\ IF scene = "selector" THEN TRUE ELSE SelectorRest
  /\ IF scene = "properties" THEN TRUE ELSE PropertyRest
  /\ IF scene = "db" THEN TRUE ELSE DbRest
  /\ IF scene = "require" THEN TRUE ELSE RequireRest
  /\ IF scene = "module" THEN TRUE ELSE ModuleRest
  /\ IF scene \in {"object", "path"} THEN TRUE ELSE hasObserve = 0

OthersKept ==
  /\ IF scene = "boxes" THEN TRUE ELSE UNCHANGED boxVars
  /\ IF scene = "watch" THEN TRUE ELSE UNCHANGED watchVars
  /\ IF scene = "object" THEN TRUE ELSE UNCHANGED objectVars
  /\ IF scene = "path" THEN TRUE ELSE UNCHANGED pathVars
  /\ IF scene = "selector" THEN TRUE ELSE UNCHANGED selectorVars
  /\ IF scene = "properties" THEN TRUE ELSE UNCHANGED propertyVars
  /\ IF scene = "db" THEN TRUE ELSE UNCHANGED dbVars
  /\ IF scene = "require" THEN TRUE ELSE UNCHANGED requireVars
  /\ IF scene = "module" THEN TRUE ELSE UNCHANGED moduleVars
  /\ IF scene \in {"object", "path"} THEN TRUE ELSE UNCHANGED hasObserve

Init ==
  /\ \/ scene = "boxes" /\ O!Init
     \/ scene = "watch" /\ W!Init
     \/ scene = "object" /\ G!Init
     \/ scene = "path" /\ H!Init
     \/ scene = "selector" /\ SE!Init
     \/ scene = "properties" /\ PR!Init
     \/ scene = "db" /\ T!Init
     \/ scene = "require" /\ RQ!Init
     \/ scene = "module" /\ MO!Init
  /\ OthersRest

Next ==
  /\ UNCHANGED scene
  /\ \/ scene = "boxes" /\ O!Next
     \/ scene = "watch" /\ W!Next
     \/ scene = "object" /\ G!Next
     \/ scene = "path" /\ H!Next
     \/ scene = "selector" /\ SE!Next
     \/ scene = "properties" /\ PR!Next
     \/ scene = "db" /\ T!Next
     \/ scene = "require" /\ RQ!Next
     \/ scene = "module" /\ MO!Next
  /\ OthersKept

Spec == Init /\ [][Next]_clientVars

-----------------------------------------------------------------------------
(* A box is shown, has the focus and is asked about as its calls say, and  *)
(* what it asks is answered once.                                          *)
BoxesAnswered == scene = "boxes" => O!BoxesAnswered

(* A listener of a watched key is told every change, with the old value.   *)
ToldOldAndNew == [][scene = "watch" => W!TellsOldAndNew]_clientVars

(* An observer of an object is told the difference with what it knew.      *)
ToldTheDifference == scene = "object" => G!ToldTheDifference

(* With Object.observe, an observer of a path that has an old value has a  *)
(* record on its way.                                                      *)
StaleIsNoticed == scene = "path" => H!StaleIsNoticed

(* Without it, a checkpoint that ends leaves no old value.                 *)
CheckpointSettles == [][scene = "path" => H!Settles]_clientVars

(* What a listener was told of a property or of a choice is what is there.*)
ToldTheValue ==
  /\ scene = "properties" => PR!ToldTheValue
  /\ scene = "selector" => SE!LeftTold

(* A module is provided once, complete and in order, and nobody who waits  *)
(* for it is forgotten (require.js, module.js).                            *)
ModulesLoadedOnce ==
  /\ scene = "require" => RQ!CalledOnceComplete /\ RQ!NobodyForgotten
  /\ scene = "module" => MO!OneModulePerFile /\ MO!StaleOnlyInCycles

(* No item of a table is written over another.                             *)
NoItemLost == [][scene = "db" => T!ItemsKept]_clientVars
=============================================================================
