# nodesite: a formal model

nodesite is a web server and a browser client that stand on foundations of their
own: a `Promise`, a pausable and cancellable `Task`, a router whose middlewares are
chained by `Promise.route`, a resolver of pages, a supervisor that forks the server
and restarts it when files change; and in the browser a tree of nodes with its view,
its menus, its transfers and its undo, two module loaders, and a polyfill of
`Object.observe`. Nearly everything that can go wrong in it is a matter of order:
which of two callbacks comes first, what is settled when a callback runs, what a list
looks like after the call it was read before, what a view still says of a node that
has gone.

This directory holds TLA+ modules translated from that code, the TLC configurations
that check them on small instances, and TLAPS proofs of what matters most for
instances of any size. `PROJECT.json` maps every definition to the lines it stands
for, and lists the components, the runs, the theorems and the hazards. Paths below
are relative to `src/`; `promise/`, `task/`, `node-process/`, `notifier/`,
`emitter/` and `file-observer/` are in `node_modules/`, `router/` in
`app/server/node_modules/`, and the files of the client in `app/client/js/vrac/`.

```
tlc -workers 2 -config RequestHandler.cfg RequestHandler   # model-check
tlapm RequestHandlerProofs.tla                             # check the proofs
```

## 1. The system

### Components, their state and their operations

**Server and foundations**

| component | state | operations | what makes it correct |
|---|---|---|---|
| **promise** (`promise/index.js`, `call-thenable.js`) | `state`, `value`, `resolving`, `handled`, `pendingList`; the queue of `setImmediate`; the call stack, because settling runs subscribers synchronously | constructor, `resolve`, `reject`, `then`, adoption of thenables, report of unhandled rejections | one outcome, told once and in order to everybody who subscribed; never a thenable as a value; rejections do not vanish |
| **promise route** (`promise/route.js`) | the iterator over the functions, `rejected`, `value` | `nextPromise`, after each function settles | each function that fits is asked in turn, with the right reason; the first value ends it |
| **promise first, mapFirst** | the iterator, `reason` | next function after a rejection the filter accepts | first success in order, and none is passed over |
| **request handler** (`router/index.js`, `request`, `response`) | the promise of the answer, the timer, the error page, the tasks of the request | route, ready, populate, timeout, error page | each request is answered exactly once, by what settled first |
| **page resolver** (`router/middleware/page`) | directory and lookup in progress, two `reason` variables | one `stat` after the other | the first candidate that is a file is the page; the pages of the path itself are among the candidates |
| **task** (`task/task.js`) | `state`, `isPaused`, `isCancelled`, `isBlocked`, `previous`, `nextList` | `then`, `catch`, `fork`, `chain`, `complete`, `fail`, `pause`, `resume`, `cancel` | tasks that wait for one another share their fate; nobody in a chain is forgotten; outcomes are final |
| **supervisor** (`node-process`, `manage.js`) | `state`, the child, `config`, observed files, timers of `reload` | `start`, `kill`, `restart`, file changes, `exit` | one child at most; every change that is heard leads to a new child |
| **old store** (`app/server/vrac/db.js`) | tables and items in memory, their files | `load`, `insertTable`, `insert`, `remove` of an item; crash and restart | no item is written over another one; `load` answers once |
| **old process channel** (`app/server/vrac/manager.js`) | listeners by the name of an action, on both sides | `demand`, `demanded`, `result` | each demand has one answer |
| **file actions** (`app/client/vrac/action/filesystem`) | the file system | `insert`, `rename`, `trash`, `recycle`, `move`, `write` | the answer of an insert says what is on the disk |

**Client**

| component | state | operations | what makes it correct |
|---|---|---|---|
| **tree** (`tree/tree.js`, `tree.types.js`) | children, parents, types, properties, hidden nodes | `insert`, `remove`, `move`, with what prepares and prevents them; properties | it stays a tree; a node lands where it was asked; listeners of a property hear its value |
| **explorer** (`tree/treeView.js`, `tree.explorer.js`) | trunks, visible nodes, classes, expanded, lighted, focused and selected nodes | the listeners of the tree, of the mouse and of the keys | what is shown is what is there |
| **menus** (`tree/menu.js`, `tree.menu.js`, `view/menu.js`) | states of options, groups, timers, shortcuts | open, pointer, keys, timers, close | one group and one option in play; the tree hears its keys again |
| **transfers** (`tree/tree.clipboard.js`, `tree.drag.js`) | clipboard, what is dragged and over what | cut, copy, paste, drag, drop | what was taken lands whole, where it was put |
| **edition** (`tree/tree.edition.js`, `editableTextNode.js`) | one input, what the tree listens to | rename, keys, blur | the tree has its keys back, no name is lost |
| **demands** (`tree/tree.demon.js`, `tree.memory.js`, `tree.ajax.js`, `tree.problems.js`, `tree.unique.js`, `tree.list.js`, `memory.js`) | stacks of calls, the undo history | demand, answers of the user and of the server, undo, redo | each demand is answered and undone in order |
| **views** (`view.js`, `view/node.js`, `view/rootnode.js`, `view/tree.js`) | states of views, drawn children, edges | expand, hide, destroy, select, drag over | classes and references say what is drawn |
| **models** (`model.js`) | data, getters with their keys | `set`, `unset`, `watch` | a listener is told the value and the value before |
| **selectors** (`tree/tree.selector.js`, `view/selector.js`, `controller/`) | opened, the choice | open, choose, blur | what it shows is what was chosen |
| **boxes** (`view/box/box.js`, `popup.valid.js`) | opened, displayed, the focus before, effects | open, close, blur, question | each question is answered once; the focus goes back |
| **loaders** (`require.js`, `require.client.js`, `js/Module/module.js`) | exports, listeners, modules being evaluated | `require`, `provide`, evaluation | each module runs once; each callback is called once |
| **paths, iterators** (`path.js`, `nodeIterator.js`, `treeIterator.js`) | — | `normalize`, `resolve`, `relative`; `next`, `prev` | they lead to the same place; they answer nodes in the order of a walk |
| **object observation** (`vrac/Object.observe`) | observers, records, copies, paths | open, check, records, checkpoint | splices rebuild the array; differences are told once; nobody is stale after a checkpoint |

Promise combinators, task combinators, notifier, emitter, file tables, observers, the
dependency resolver and helpers are in section 5.

### How they interact

* The HTTP server calls `router.route` once per request. The handler starts the
  tasks of the request (`request.resolve`), waits for `request.ready()`, runs the
  middlewares with `Promise.route`, populates the response, and races all that
  with a timer (`Promise.race`). `Router.route` ends the answer. The page middleware
  is one of the functions of that route: it runs `Promise.mapFirst` over the
  directories and `Promise.first` in each, and resolves with null when there is no
  page, which is how the next middleware gets its turn.
* All of these are subscribers of the promise, and therefore run *inside* the call
  that settles it, except for a `then()` on a settled promise, which goes through
  `setImmediate`. Tasks do not use promises: they share `previous` and `nextList`,
  and call each other's `pause`, `resume` and `cancel` directly.
* The supervisor, in a process of its own, knows the server by its signals, its
  exits and its files.
* In the client everything is synchronous but timers, effects, the answers of the
  user and of the server, and the script elements of the loader. A plugin of the tree
  listens to the actions of `tree.js` and calls other actions in the middle of them:
  the explorer redraws inside the insertion, the edition opens an input inside
  that, and that takes the focus from another input, whose `blur` runs there and
  then. Demands go through the demon, which hands each to the problems (a name is
  taken, a place was not listed), to the server and to the memory, in this order. Clipboard and drag do not:
  they move nodes directly.
* With `Object.observe` observers are called back with records; without it
  `performMicrotaskCheckpoint` compares copies until nothing changes.

### Where it is hard

The hazards are listed one by one in `PROJECT.json`, each with the properties that
would see it go wrong. They come in these families:

1. **Re-entrance.** A subscriber runs inside `clean()` and settles promises whose own
   `clean()` is further down the stack; a callback of `require` provides modules in
   the loop that called it; a callback of a checkpoint closes observers of the list
   that is walked.
2. **Two settlers.** `resolve(thenable)` leaves the state pending, so that a second
   `reject` gets through; a timer and a response race; a task is cancelled while a
   thenable has its callbacks; a result comes for a demand of the other side.
3. **What is read late.** `first` reads a `reason` that the filter did not let be
   written; `adoptState` of a task sees the flags of one `setImmediate` later; a blur
   runs its `setImmediate` when another box is active; the timer of a menu fires when
   the pointer is elsewhere; records outlive the observer they were for.
4. **Graphs that change.** `chain` and the `insert` behind `complete(task)` join
   chains that pausing and cancelling run through; a move counts the node that
   leaves; a removal takes the lighted and the selected nodes along.
5. **Partial failure.** The error page itself fails; an insert fails below files that
   are made; a process ends between the index of an item and its write; an
   evaluation throws in the middle of a cycle of modules.
6. **Waiting.** A task of the request waits for the end of the tasks; a middleware
   never settles; a child must be gone before the next one is forked.
7. **Edges.** The limit of the undo history, `..` past the first name, the last node
   of an iteration, an index behind the place a node leaves.

## 2. The modules

| module | of | role |
|---|---|---|
| `PromiseContract` | — | what a promise owes its subscribers: one outcome, told once, in order |
| `Promise`, `MCPromise` | `promise/index.js`, `call-thenable.js` | the code, with its call stack and its queue; `Implements` refines the contract |
| `Route` | `promise/route.js` | `Promise.route` over N functions, with its properties |
| `RequestHandler` | `router/index.js`, `request` | extends `Route`: a request from `route` to the end of the answer |
| `PageResolver`, `MCPageResolver` | `page`, `promise/first.js` | which page answers a path |
| `Task`, `MCTask` | `task/task.js` | the graph of tasks |
| `NodeProcess` | `node-process/index.js` | the supervisor |
| `Tree` | `tree/tree.js` | the tree as a value: insert, remove, move, and the places they give |
| `Explorer`, `MCExplorer` | `treeView.js`, `tree.explorer.js` | extends `Tree`: what is drawn of it, driven by the program, the mouse and the keys |
| `Transfer` | `tree.clipboard.js`, `tree.drag.js` | extends `Tree`: cut, copy, paste, drag and drop |
| `Properties` | `tree.js`, `tree.keyshortcut.js` | properties of nodes over those of their type |
| `Demon` | `tree.demon.js` and the plugins it calls | demands, undo and redo |
| `ContextMenu` | `tree/menu.js`, `tree.menu.js` | the menu of the tree |
| `Menu` | `view/menu.js` | the menu of the views |
| `ViewTree` | `view/*.js` | the views of a tree, their states and edges |
| `Watch` | `model.js`, `view.js` | getters and who watches them |
| `Selector` | `tree.selector.js`, `view/selector.js`, `controller/` | both selectors |
| `Box` | `view/box/box.js`, `popup.valid.js` | boxes, effects and questions |
| `Edition` | `tree.edition.js`, `editableTextNode.js` | the input that edits a name |
| `Iterators`, `Paths` | `nodeIterator.js`, `treeIterator.js`, `path.js` | pure algorithms against their definitions |
| `Require`, `ModuleCache` | `require*.js`, `Module/module.js` | the two loaders |
| `FileActions` | `action/filesystem` | files made and moved by concurrent calls that fail |
| `Db`, `Manager` | `app/server/vrac` | the store and the channel of the old server |
| `ArraySplice`, `ArrayObserver` | `Object.observe/ArrayObserver` | splices, from copies and from records |
| `ObjectObserver`, `PathObserver` | `Object.observe` | the other observers and the checkpoint |
| `Client` | | instances of `Box`, `Watch`, `ObjectObserver`, `PathObserver`, `Selector`, `Properties`, `Db`, `Require` and `ModuleCache`, each in a scene of its own, with their constants left open for the theorems |
| `Controls` | | instances of `Demon`, `Manager`, `Menu` and `ContextMenu` side by side, with theirs: what the user asks of the tree, and through what |
| `MCClient` | | extends `Client` and `Controls` with an instance of each of the other modules from `Transfer` on |
| `PromiseProofs`, `RequestHandlerProofs`, `TaskProofs`, `PageResolverProofs`, `ExplorerProofs`, `NodeProcessProofs` | | the theorems of section 4 about the module of that name; `ExplorerProofs` has those about `Controls` too |
| `ObserverProofs`, `ClientProofs` | | those about `Client`: who listens and observes, and the rest |

Operators whose comment begins with *Fault* or *Mutant* are not the code: each is the
version of an operator with a likely bug in it, and shows that a property would
see that bug.

### Promise

A JavaScript thread runs one call at a time, so the state is the heap (one
function per field of the code), the queue of `setImmediate` (`immediates`) and
the call stack (`calls`, the innermost call first). A step runs the head of the
stack: `AdoptState` is `adoptState`, up to the function of the user it calls;
`HandlerReturn` and `HandlerThrow` are the end of that function; `Reply` is the
call of the resolver with its result; `Cleaned` is the end of `clean()`. While a
function of the user is at the head of the stack — or the stack is empty — user
code may do anything: `New`, `CallResolve`, `CallReject`, `CallThen`.
`RunImmediate` takes the next callback once the stack is empty. A thenable of
another library holds the two callbacks of `callThenable` (`lent`), and may call
one inside `then` (`ForeignResolve`, `ForeignReject` while its call is on the
stack), or later, or never. The history variables `subscribers` and `told`, which no
guard reads, are what the contract is about.

Two assumptions are named. A foreign thenable answers once for each promise it was
given (`lent`): that is the contract of thenables, and nothing in `call-thenable.js`
enforces it. `LateReject` tells whether user code calls `reject` on a promise that it has
resolved with something pending. The code does not guard against it, and the contract
does not hold then: the answer of the thenable overwrites the rejection. The run
`promise` therefore has `LateReject = FALSE` and checks the refinement; the run
`promise_fair` has `LateReject = TRUE` and checks what holds all the same.

### Route and RequestHandler

`Route` keeps the local variables of `Promise.route`. A value is known by the
function that made it, `Null` being null and undefined. `Start`, `CallFunction`
(the `setImmediate` of `initialPromise.then(fn)`) and `FunctionSettles` are its
steps; `NextPromise` is `nextPromise()`. Since the callbacks of a promise run in
the call that settles it, everything that follows a function synchronously is
part of the same step. `RequestHandler` extends it by the request (`RequestReady`,
`RequestFails`, `ConsumeBody`), the error page (`ErrorPage`, `PageRead`), the
population of the response, the race (`Answers`) and the timer, which nothing
cancels. Which middlewares never settle, which ones take an error and what the
client accepts is chosen in `Init`.

### PageResolver

One action, `Stat`: the callback of `fs.stat` and all that runs behind it, through two
nested `Promise.first`. The content of the file system, `failure` standing for any
error but ENOENT, is chosen in `Init`: the code only reads it. The names of a path
have no extension, and the path `/` is left out (`pagePaths` gives it the
candidates of an empty name). `Candidates` are the pages the code looks for, `Documented`
those of the table of the readme and of the comment of `PageResolver/index.js`. The two
share the pages of the path itself only: the code looks for the *whole* path below each
of the directories above it, and never for the page of a parent. `PageFound` states what
the code does with its own candidates and, of the documented ones, that those of the path
itself are found; `ParentPages` states the rest, and is violated.

### Task

`pause`, `resume` and `cancel` call themselves synchronously along `previous` and
`nextList`; nothing on the way but listeners, which observe. A propagation is thus
one step, and `Spread` is the set of tasks it reaches: the least set closed
under the links between tasks that are not in the new state already. `Become` is
`become`, `Completes` is `resolveCompletion` for each kind of value, `Insert` is
`insert` (a task completed with another one), `AdoptState` is the callback of
`setImmediate`. `fork` writes `task.propagation` while `propagate` reads
`propagationDirection`, so that a fork spreads both ways like any other task: there is no
action for it beside `Then`.

Nothing in `chain` keeps a task from being chained with itself (`task.js:312-324`), and
completing a task with one *before* it puts that one after itself: both leave a loop in
the lists, `knotted` says that it happened, and `Endless` that a call which follows the
lists from a task never returns. It overflows the stack instead: `chain` and `insert`
throw before they link anything (`insert` has given away the place of the task by then), and a
settlement or a resumption ends halfway, so that the task keeps its outcome and tells
nobody (`Overflows`, `unheard`). Completing a task with one *after* it throws
likewise. The order in which a resumption comes to the tasks, and with it where
it overflows, is left open.

### NodeProcess

A signal, the exit of the child and the `exit` event are three steps, and file
changes and timers come in between. `Restart`, `StartChild` and `Signal` are helpers,
since `restart()` is called by four handlers; a helper takes the configuration as its
parameter because a handler may have unset it before. An exception thrown halfway
leaves what was written before it. `ConfigChanges` has the guard `~watched` because
`unobserveFile` throws when files are watched. A `FileNotifier` is deaf for 100 ms after it
has notified, and when it was just opened (`file-observer/index.js:26-38`): the files that are
deaf are `quiet`, `Heard` is its `handleEvent`, and `IntervalEnds` lets the time pass. A change
that is not heard is lost if the next child has been forked already, or none is to
be; otherwise that child starts after it.

### Tree, Explorer and Transfer

`Tree` has no variables: its operators go from a tree to the tree after an insertion,
a removal or a move, with the indices the code computes. `Explorer` keeps one
record, `view`: the tree, the trunks and branches that are drawn, the list of visible
nodes, the classes that draw the lines (`first`, `last`, ...) and the states. A handler
calls others in the middle of its work (a removal unselects, unlights, gives the focus
away), so each is an operator from the view it finds to the view it leaves, and an
action is what the user or the program starts. The states are set by `applyAction`,
which looks at none of the definitions `cancel` and `prevent` of a state. A node that
leaves is unselected and nothing else: `node.unselect()` answers the tree, whose `blur()`
and `unlight()` find no node (`tree.explorer.js:280`, `tree.js:509-514`, `612-633`), so that it stays
lighted and focused out of the tree, which still knows it. `OneOfEach` therefore speaks of the nodes
that the tree knows, wherever they are.

`Transfer` moves lists of nodes as the clipboard and the drag do: through
`tree.move`, without what `prepare` would do to the arguments. A drop *before* or
*after* a node therefore lands inside it; `LandsTogether` states where nodes do land. Between
a cut and its paste the option *remove* of the menu takes the selected nodes out, and an undo or a redo
moves others (`remove`, `move`). The clipboard listens to `moveout` (`tree.clipboard.js:90-95`) to forget
a node that goes, but nothing in the repository emits it: the node stays in the clipboard
and is pasted back.

### The rest of the client

* **Demon**: the queue of stacks and the calls of one stack; a call goes through
  problems, ajax and memory, each of which may put it off until the user or the server
  answers. The tree is reduced to where one node is, whether it has its own name or a free one, which
  places have another node of its name, and which ones have had their children listed. The five
  deciders of `tree.unique.js` are there: `transfer` (`submit`), `cancel` (`cancelCall`), `remove`
  (`removeOther`), `usefree` and `list`; the last three put a call in before the one that is treated.
  Bounds: one free name, which is free everywhere, and the user does not remove the node itself (a
  name that is given twice conflicts with the node that has it). Of the actions with a name to
  check, only moves are demanded; insert, copy, trash and recycle are not modelled.
* **ContextMenu**, **Menu**: states are sets, an event of a state runs its listener in
  the same step; timers are actions of their own that may fire at any time. An option is plain, a radio
  or a checkbox: activating a checkbox leaves the menu open, and a second time takes the state back.
* **ViewTree**: the elements that exist, their classes, and the fields of the tree that
  refer to views. **Watch**: the getters of two watched keys, one of which depends on
  the other. **Selector**, **Box**, **Edition**: the life of each with the events of the
  focus, which come inside the calls that move it, and with `setImmediate` and effects
  as steps of their own. In **ViewTree** the listeners of the selection are those of
  `app/client/node_modules/vrac/ui/selection.js`; the key that makes `removeAll` keep what is selected is
  `control`, and stands for shift there; the range that shift makes (99-102) and `control+a` (68-74) are left
  out. In **Box** the edges are those of `ui/surface.js`; left out are the option `closedestroy`
  (`box.js:63`), which is false and which nobody sets, and the width that follows a change of height (80-82).
* **Require** keeps the stack of the loops of `applyEachOnce` and their counts;
  **ModuleCache** the stack of modules being evaluated, any of which may throw.
* **Paths** and **Iterators** are pure; their behaviours only walk through all short
  inputs. A loop that does not end in the code (`hung`) ends the behaviour; `IteratorsFollowTheWalk`
  says from which nodes `TreeIterator.next` is such a loop, and from no others.
* **FileActions**: each call of `fs` is a step, and may fail. **Db**: the same, and
  the process may crash and restart between any two; `remove` of an item takes its file away, while
  the table keeps the item and its index. **Manager**: two processes and
  the messages on their way.
* **ArrayObserver** has `ArraySplice`'s pure algorithms (edit distance, merging of records) run
  on the records of every sequence of changes. **ObjectObserver** has the pool of
  observed objects, in which an entry is used again; **PathObserver** the observed
  sets and the checkpoint, which call the program back in the middle of their loops.
  The engine's `Object.observe` is external. None of these files loads as it is committed:
  `ArrayObserver.js:52` requires `./ArraySlice` where the file is `ArraySplice.js`, and its `init`
  (6-10) reads an `array` that is not defined there; `ObjectObserver.js:92` closes `Observer.create({`
  of line 3 with `};`, a syntax error; and what `index.js` defines (`hasObserve`,
  `getObservedObject`, ...) the other files use without a `require`. The modules are translations of the
  algorithms as they are meant. So is **Box** where it listens: `box.js:55` calls `this.elementEmitter`
  as a function, where line 62 calls its `on`; what a box extends, `ui/surface.js`, gives it no such
  emitter, and none named `windowEmitter` (164, 179) is defined anywhere. As it is committed, a box with
  `echapclose` (the default) throws when it is created. They are taken as emitters of the
  element and of the window.

## 3. What is checked

| run | instance | shows |
|---|---|---|
| `promise` | 4 promises, one foreign thenable, `then(f)` | `FulfilledWithPlain`; `NobodyLeftBehind`; `ReportsAreRejections`; `Implements` (refinement of `PromiseContract`) |
| `promise_fair` | 3 promises, one foreign thenable, `then(null, f)`, late rejections | `RejectionsSurface`, `Delivers` (liveness), `FulfilledIsFinal` |
| `handler` | 3 middlewares of either arity, hanging or not; timeout or not; every accept header | `InTurn`, `EndsWithLastCall`, `AnsweredOnce`, `NoAnswerLost`, `AnswersEventually` |
| `handler_value` | 2 middlewares | **violated**: a value found by a middleware is what the client gets |
| `handler_ready` | 2 middlewares, with fairness | **violated**: a request gets ready or fails |
| `pages` | five paths of 1 to 3 names, every content of the file system | `PageFound` (the first file among the candidates of the code, those of the path itself included), `Ends` |
| `pages_documented` | the same | **violated**: a path without a page is answered by the page of a path above it |
| `task` | 3 tasks, any calls in any order; 2 once a list is knotted or a task has a transformer | `SharedFate`, `NobodyLost` (no loop but those that nothing checks, everybody in a list or in the queue), `OutcomesFinal` |
| `task_cancel` | 2 tasks | **violated**: a cancelled task never completes or fails |
| `supervisor` | two watched files; a file busy twice at most | `OneChild`, `RestartingIsSignalled`, `ChangeIsTaken` (liveness) |
| `explorer` | 5 nodes | `TreeShape`, `ShownAsItIs`, `MoveLands`, `LinesKept` |
| `client` | one scene per component, below | sixteen properties, each about one or two scenes |

`explorer` has five scenes, which restrict what drives the tree: *moves* (four
nodes, any move), *structure* (insert, remove, hide, show, expand, contract), *hover*,
*select* and *keys*.

The scenes of `client` share no state; one run holds them all, and a behaviour is in
one of them. The parts with theorems are composed in `Client` and `Controls`, by the names of
their variables; the variables `v1`, `v2`, ... are those of the module of any other scene.

| scene | instance | property |
|---|---|---|
| require | 2 modules, one in the page; 3 calls | `ModulesLoadedOnce`: a callback is called once, with everything; nobody is forgotten, a `TypeError` aside |
| module | 2 files, any cycle, any exception | the same: each file is run once; unfinished exports are seen only in cycles or after a failure |
| properties | 2 nodes, 2 types, 2 keys | `ToldTheValue`: listeners heard the value that is there, or that it was removed from over one of the type; keys are listened to |
| selector | 3 options, both kinds | the same, of the choice, once the focus has left |
| watch | 2 getters over 2 keys, 3 values | `ToldOldAndNew`: every change is told, with the value before |
| demon | 3 places (one taken, and not listed; one local), limit of 2, 4 demands | `CallsAnswered`: undo leads back, redo forward, no queue is stuck |
| manager | 2 sides, 4 demands each | the same: one demand under way for all who wait |
| paths | all paths of 4 and 3 segments of `""`, `.`, `..`, `a` | `SamePlace` |
| iterators | two trees of 5 nodes, every filter | `IteratorsFollowTheWalk` |
| files | 6 entries, 3 concurrent inserts, one move, one trash, any error | `InsertTrue` |
| db | 2 tables, 2 items, crashes; one file removed at a time, with one write under way | `NoItemLost` |
| contextmenu | 7 options in 2 levels, 2 targets | `MenusKept`: one lit, one open, one radio; the menu or the tree hears |
| menu | 7 options in 2 levels, the last radio neither lit nor chosen; a shared shortcut | the same, and shortcuts lead to options that are there |
| clipboard, drag | 3 nodes, 2 selected; between a cut and its paste any removal, and moves to one of the nodes | `TransfersLand` |
| pointing, dragging, shaping | 3 or 4 views | `ViewsTrue`: classes agree with the fields, the edges are right |
| edition | 2 nodes, 2 names | the same: one input, with the focus; the tree hears when there is none |
| boxes | 2 boxes opened twice; 3 widths, while one of them has been open | `BoxesAnswered` |
| array | length 3, 3 records between checks, 2 values and holes | `SplicesReplay`: from records or copies, splices rebuild the array, in ascending order |
| object | 2 objects, 2 observers, 2 entries, 3 records | `ToldTheDifference` |
| path | 2 objects with 2 names, 2 observers, 2 cycles, 3 changes in callbacks | `StaleIsNoticed`, `CheckpointSettles` |

Where the code breaks a rule in a known way, the property names the exception (the
history variables `raced`, `early`, `lost`, `hung` and the like) and the comment says
what it is, so that the rest is still checked; the exceptions are listed below.

### Bounds, and why they are enough

* Promises and tasks are identities used once (`"free"` until created). Four promises
  are a promise, one that it is resolved with, and two subscribers — enough for
  a subscriber of a subscriber, two subscribers in order, a chain of resolutions, a
  cycle of promises resolved with each other, and calls nested three deep. Liveness
  is checked with three, without symmetry.
* Three tasks are the least with a task both before and after another; joining a chain,
  taking a place in one and branching need no more. A loop needs one or two, and so does
  a transformer: `Few` keeps the third task out of those behaviours.
* Three middlewares make the pattern *value or null, error handler, function behind
  it*; the proofs cover any number, and so do those about paths and tasks.
* Paths of pages have at most three names, one of which may be `index`, so that two
  candidates can be the same file.
* A supervisor has one child; `MaxAttempt = 2` makes a timer that sets another one. Two files:
  one is deaf while the other is heard.
* Five nodes give the explorer a first, a middle and a last sibling, a child below one
  of them and another parent. `MaxListed` and `MaxHidden` bound the list of selected
  nodes (which may hold duplicates) and the hidden nodes. `Few` keeps the fourth node
  to the scene of moves.
* In the scenes of `client`, two of a kind are enough for one to come in the middle of
  the other, which is what their hazards are about; three where an order counts (siblings,
  options, records). The numbers of calls (`MaxRequires`, `MaxDemands`, `MaxOpen`,
  `MaxRecords`, ...) are the least with which all cases were seen to happen: every
  action and every branch of the next-state relations is taken.

`CHECK_DEADLOCK FALSE` is there because identities run out, a request that has been
answered stops, and so does a search that has found its page, a walk, or a user. What
must not stop is stated as liveness.

### Fairness, and why the code justifies it

* *Promise*: the thread runs its stack and the event loop its queue (`AdoptState`,
  `Reply`, `Cleaned`, `RunImmediate`, `ForeignReturn`), and a function given to `then`
  returns. None for user calls: nobody has to settle a promise.
* *RequestHandler*: timers fire, files are read, callbacks run, tasks of the request
  and middlewares end — apart from those that `Init` makes hang.
* *PageResolver*: every `stat` calls back.
* *NodeProcess*: a child that was signalled exits, its exit is delivered, timers fire. None
  for a child that was not, nor for file changes or user calls.
* *Task* and the modules of the client: no liveness is claimed. What liveness would need
  is stated as an invariant instead: `NobodyLeft` (whoever waits is in a list that will
  be read or in the queue), `NobodyForgotten`, `NothingStuck`, `OneAsked`, `StaleIsNoticed`.

### What the violated runs found

1. **A routed value never reaches the client** (`router/index.js:42`). The handler calls
   `this.response.resolve`, a method `Response` does not have; the `TypeError`
   ends every answered request in a 500.
2. **A request with a parsed body is never ready** (`router/request/request-body/index.js:14`).
   The task waits for `request.consume()`, which waits for `request.ready()`,
   which waits for the task. Without a timeout the client waits for ever.
3. **The page of a parent is never looked for** (`router/middleware/page/PageResolver/index.js:120`). The
   readme of the resolver has `user.page` and `user/index.page` behind `user/32.page` for
   `/user/32`; the code tries `user/user/32.page` and `user/user/32/index.page` instead, then the
   pages of the path itself, and gives the request to the next middleware.
4. **A cancelled task completes** when the thenable it was completed with answers
   (`task/task.js:96`).

### Also met in the code

These are no runs; most are the exceptions that properties name, or what a model leaves
out because the code ends there.

* *Task*: `fork` against the readme (`task.js:372`); `p.chain(p)` and a task completed with one before
  it make a loop, in which a later settlement overflows (`task.js:312`, `326`); a task inserted in a
  paused chain runs;
  `isBefore` never ends. `TaskList` listens to `failure` where tasks notify `fail`;
  `Task.timeout` sets its timer without the delay.
* *Promise.all* is resolved by its first plain value (`promise/index.js:216`).
* `Promise.first` rejects with the reason before the last one, or with none (`promise/first.js:47`, against
  the comment on line 11): a file system error after a page that was not found becomes *page not
  found*, and the next middleware answers. It is modelled, and no run states it.
* *Supervisor*: a change of a file less than 100 ms after another one that has led to a new child is lost
  (`file-observer/index.js:29`).
* *Explorer*: a node that leaves the tree keeps the light and the focus, where line 280 of `tree.explorer.js` asks
  that it lose them (for a copy, the comment of 284 gives the reason: that the tree keep the right references);
  the listener of `blur` reads a variable that does not exist (295); selecting a selected node lists it twice; a trunk keeps the
  classes of its last place (`treeView.js:94`, `ReusesTrunk`); `right` contracts a node
  that is expanded (363).
* *Transfer*: *before* and *after* land inside, *after* in reverse; a node dropped
  below itself hangs the page; one node that may move lets all others move with it; a cut
  of nothing changes the effect of what was copied; paste after copy throws; what was removed or
  moved after a cut is pasted all the same.
* *Properties*: removing a property over one of the type tells `undefined`
  (`tree.js:106`), and nothing tells the value of the type until it changes or the node enters again, which
  `ToldTheValue` excepts; setting one to the value of the type is dropped (95); when the key
  changes the old shortcut stays.
* *Demon*: an undo asked while the user is asked undoes the action before; an error of the
  server puts the deferred calls back in another order; a call put in at index 0 (to list, to remove or to
  rename) goes before the last of the stack, and not before the one it is for; a name given twice conflicts with
  the node that has it; removing a node that is gone hangs the demon.
* *Menus*: `esc` in a group closes it and leaves the focus in it, since `contract` answers the tree
  (`tree/menu.js:506`), so that a second `esc` closes nothing, where the comment of 503 wants one at the root to
  close the menu; `reset` of `tree/menu.js:117` clears no state, and of an actived radio
  runs its action; timers outlive the menu; the tree hears `keydown` twice after its
  menu was opened once. An option of `view/menu.js` works once; its keys are lost, for
  `focused` is never written; `this` in `resetNode` (384) is the menu.
* *Views*: a child hidden before it is drawn takes the class of its sibling; a destroyed
  view stays among its siblings, where `changeStructure` throws; a drop throws.
  *Watch*: a plain key is watched with the listener as the key (`view.js:155`); unset
  leaves `undefined`; data set before `setData` are shared by all models.
* *Selectors*: the first blur tells a change to nothing; a selector disabled while open cannot be
  closed. *Box*: a blur takes the active box from another one; a box opened without effect while
  its effect closes it is hidden. *Edition*: an input that comes while another one is open
  has the keys given back to the tree; `edit` twice leaves an input.
* *Loaders*: a callback that requires the module being provided throws when somebody else
  waits (`require.js:20`); no dependencies, no callback. A module whose code threw
  stays in the cache half made.
* *Paths*: `normalize('/.')` is empty; `relative` of absolute paths drops names; `resolve`
  of an empty argument does not end. The property that the normalized path is the same place
  excepts the ones that normalize to nothing and were absolute: `/.`, and with it `/a/..`. *Iterators*:
  `TreeIterator.next` does not end on a last leaf; `NodeIterator.next` leaves a root without children; `prev` tries
  one sibling before the parent, and `last` goes on with `prev` from where its descent ends, so that both pass nodes over
  when the filter refuses some.
* *Store*: the callback of `Table.load` has no `this`, so that loading a table with items
  crashes; an `insertTable` over a directory writes over its items; an item whose file is removed stays in its table. *Manager*: an error is
  answered as a success without arguments. *File actions*: a descriptor stays open after an error; what was made
  before it stays; `trash` and `rename` replace what has the name; `remove` answers first.
* *Observation*: a checkpoint drops an observer that is being reset (`index.js:344`), and
  an exception in it ends all checkpoints; two cycles are not always enough
  (`MAX_DIRTY_CHECK_CYCLES`); an observer added with `reportChangesOnOpen` is opened twice.
* Elsewhere: the cursor of the notifier (`notifier/index.js:153`, `169`); `removeListener`
  of the emitter with `undefined` (`emitter/index.js:111`); the cache of the
  file observer (76); the alias of a file read as the `stat` of the one before
  (`router/middleware/file/File/index.js:64`); `FileTemplate.indexOf`, which never
  advances; the marks a cycle leaves in the dependency resolver (105); `serverListening`
  removed from `listen` where it was added to `listening` (`app/server/node_modules/server/index.js:83`).

## 4. What is proved

TLC checks one instance; these hold for every value of the constants that meets the
named assumption.

| module | theorem | assumption | argument |
|---|---|---|---|
| `PromiseProofs` | `TypeCorrect` | `PromiseAssumption` (kinds of values are disjoint) | `TypeOK` is inductive; each helper has a lemma on the types it leaves |
| | `FulfilledWithPlainValues` | the same | `Safe` |
| | `NobodyIsLeftBehind` | the same | `Safe` |
| `PromiseProofs` | `ImplementsContract` | the same, and `~LateReject` (clients do not reject what they resolved) | `Inv` |
| | `OutcomeIsFinal` | the same two | `Inv` |
| | `OnlyUnhandledIsReported` | the same two | `Inv` |
| `RequestHandlerProofs` | `FunctionsInTurn` | `NAssumption` (N is a natural number) | `RouteInv` |
| | `RouteEndsWithLastCall` | the same | `RouteInv` |
| | `EndedOnce` | none used | `AnswerInv` |
| | `AnsweredBySettler` | none used | `AnswerInv` |
| `PageResolverProofs` | `PageIsFound` | `PathsAssumption` (paths are nonempty sequences of names) | `PageInv` |
| `TaskProofs` | `SharedFateHolds` | `TaskAssumption` (`None` is no task, transformers are for known outcomes) | `TaskInv` |
| | `OutcomesAreFinal` | the same | `TaskInv` |
| | `NobodyIsLost` | the same | `LostInv` |
| `NodeProcessProofs` | `TypeCorrect` | `NodeProcessAssumption` (a natural bound, either platform) | `ChildInv` |
| | `NeverTwoChildren` | the same | `ChildInv` |
| | `WaitsForTheSignalled` | the same | `ChildInv` |
| `ExplorerProofs` | `TreeStaysATree` | `TreeAssumption` (`Root` is a node, `None` is not), `ExplorerAssumption` (the bounds are naturals) | `ExplorerInv` |
| | `MovesLand` | the same | `ExplorerInv` |
| | `CallsAreAnswered` | `DemonAssumption` (the node is not where another one is; `Limit` is positive), `ManagerAssumption` (two sides) | `DemonInv` and `ManagerInv` |
| | `MenusAreKept` | `MenuAssumption`, `ContextMenuAssumption` (an option is once in one list, there are two levels; an option has one type, and none of the first level asks to be actived) | `MenuKept`, `ShortcutsKept` and `TreeMenuKept` |
| `ClientProofs` | `BoxesAreTrue` | `BoxAssumption` (a box that asks has no effect; `None` is neither a box nor a width) | `BoxInv` |
| | `ValuesAreTold` | `PropertiesAssumption` (a type gives properties their values; `Undefined` is none) | `SelectorInv` and `PropertyInv` |
| | `ItemsAreKept` | none used | `DbInv` |
| | `ModulesAreLoadedOnce` | `RequireAssumption` (lists of modules), `ModuleAssumption` (finitely many files, one of them the main one) | `RequireInv` and `ModuleInv` |
| `ObserverProofs` | `StaleObserversAreNoticed` | `PathAssumption` (`Nil` is no object; what is watched are nonempty lists of paths) | `StaleInv` |
| | `CheckpointsSettle` | the same | `StaleInv` and `CheckInv` |
| | `ListenersAreTold` | none used | `WatchInv`, step by step |
| | `ObserversAreTold` | `None` is no observer | `ObjectInv` |

An assumption is stated with ASSUME, and TLC evaluates it in every run; those of
`ClientProofs` and `ObserverProofs` are the parts of `ClientAssumption`, those of the last two of
`ExplorerProofs` the parts of `ControlAssumption`. The exception is `~LateReject`, a
hypothesis of its theorems. The theorems of `ClientProofs` and `ObserverProofs` are about
`Spec` of `Client`: a step in a scene is a step of its module, which is what the lemmas
are about, and the scene never changes. `CallsAreAnswered` and `MenusAreKept` are about
`ControlSpec`, in which each step is one of the demon, of the channel or of a menu, and
leaves the others alone; the run takes those of one of them in a behaviour.

That no option of the first level asks to be actived is so in `tree.menu.js`: those that do are
radios below *display* and *sort* (103-155). An option that is actived closes the menu
(`menu.js:383-411`), and at the first level would close it in the middle of its opening.


* **Promise.** `Safe` is `FulfilledWithPlain /\ NobodyLeftBehind`; with `TypeOK` it is
  inductive, for what `NobodyLeftBehind` needs is in it: whoever is in the list of a settled
  promise has the end of its `clean()` on the stack. The proof follows the
  stack: a step pops at most the head (`KeepsTail`), pushes on top of the rest
  (`KeepsUnder`), and only the end of a `clean()` removes one, emptying that list.
* **Refinement.** With `LateReject` the code breaks the contract (*Promise* in section 2), so the
  theorems assume clients that do not. The state maps to itself and `told` is what the
  contract says. `Inv` has `TypeOK` and three parts. `Core`: whoever will settle a promise is
  alone: its owner, or itself as a subscriber that was not told or runs what it was given, or
  one foreign thenable, or one subscription to another promise. Without it two of them
  could settle it in turn, since `resolve` and `reject` do not test the state everywhere.
  `Line`: those who were not told stand in the order they came, first on the stack,
  then in the queue of `setImmediate`, or in the pending list. `Reports`: an entry for
  `unhandledRejection` stands for a rejected promise, and `handled` for one with subscribers.
  The code calls itself from the inside (`clean` from `resolve` from a resolver), so the
  lemmas are about one call over any rest of the stack (`ResolveCall`, `ResolvedValueCall`,
  `SettlingCall`, `SubscribingCall`), and each action adds what it pops or pushes. From
  `Inv` each step is a step of the contract or a stutter.
* **Route.** `InTurn` and `EndsWithLastCall` speak of the log of calls; they are not
  inductive, since nothing ties the log to the variables that choose the next function.
  `RouteInv` adds it: `rejected` and `value` are those of the last call
  (`Remembered`), no value was found before it (`NoValueYet`), and the function under way
  is the first that fits behind it (`RunningFits`). That the minimum of a
  nonempty set of naturals is in the set is proved from the well-foundedness of `<`.
* **Answer.** `AnswerInv` says that the answer was ended exactly when the race is
  decided, and by the status of the winner.
* **Pages.** `PageFound` looks at the end of a search. `PageInv` says what it has seen
  on the way: where it is in the two nested loops (`Place`), that no candidate before it
  is a file (`Searched`), that the next middleware is asked when all of them were, or the
  file system failed (`Exhausted`), and what the answer stands for (`Answered`, `Resolved`).
  The pages of the path itself are the candidates of its last directory (`OwnPages`), so that one which exists
  is in what was searched (`OwnPageThere`).
* **Task.** `SharedFate` is about links and two sets of tasks. It is preserved because a
  propagation is a *closed* set (`Spread`), and because a link is only made between tasks
  that agree. `TaskInv` adds what makes that true: only created tasks are linked
  (`OnlyCreated`), a task of a list has its owner before it (`LinkedBack`), and an open
  task is in the list of the one it waits for, which is not cancelled (`Waiting`). Steps that change no link are one lemma (`QuietInv`), those that chain a task
  are another (`BecomeInv`), which needs the two to be `Joinable`; `InsertInv` is
  `complete(task)`. `OutcomesFinal` follows from `TaskInv` step by step. `NobodyLost`
  needs `LostInv`, which adds the queue of `setImmediate` and that no list leads back to
  its owner: a new link makes a loop only if its owner is after its end already
  (`LinkAdded`), which `chain` and `insert` refuse but in the two cases of `knotted`; without a loop nothing
  overflows (`NoOverflow`); and an open task leaves a list only into the queue, where it stays until
  it is adopted (`QueueOf`), or stays in that of a task which an overflow kept from telling (`unheard`).
* **Supervisor.** `ChildInv` is the conjunction of the type invariant and both
  properties; `OneChild` counts the exit that was not delivered, without which a restart
  between an exit and its event would break it. `StartsOne` and `RestartsOne` state what
  the shared helpers do to it.
* **Store.** `NoItemLost` says nothing of the writes under way and of the indexes that will
  be taken. `DbInv` adds that the items of a table are numbered without a hole, so that
  the next index is free; that what is being written in a whole table has an index of its
  own; and that a table without a directory is as good as whole.
* **Tree.** The drawing, the states and the selection leave the children and the parents
  as they are (`Same`), so that every action comes down to a node that leaves its parent
  (`Leaves`), that gets one (`Joins`), or both. `Above` is the least set with the parents of
  its nodes: a node that leaves puts nobody above another; one that joins `p` would be
  below itself only if it was above `p`, which `move` prevents. A list is taken apart at the
  index a node leaves (`Without`) or gets (`With`), and that decides where a move lands.
* **Boxes.** `BoxInv` says more of a box than `BoxTrue`: only a box with effects has one, one
  that is open closes only when it was opened without effect meanwhile, the width it
  remembers is the one the user gave it, and a question that was not closed still listens.
* **Listeners.** `ToldOldAndNew` is about one step. Each listener puts the old value and
  then the new one in the model, so after it the model is read as before it (`Alike`), and
  so what the next one is told does not depend on it; setting, unsetting and the first
  data differ only in the model they begin with.
* **Observers of objects.** `ObjectInv` says that the records an observer has not been given
  lead from what it knew to what is there (`Agrees`): one more record makes one more step of the
  difference (`AgreesNext`), whichever of add, update and delete came before, and the
  difference of a list is that walk along it (`DiffOfAllWalks`). The entries of the cache are
  there once and nobody has them, so that an entry that is used again begins empty.
* **Properties and selectors.** `ToldTheValue` looks at the nodes of the tree; a step also needs
  what was told of the ones that are out of it. `PropertyInv` says that of every node, and that
  the key it has is one it was noted to have. An operation on a node changes what it was told and
  who listens to a key of its own (`NodeChanges`), so another node, whose key it never had,
  keeps its listener; a change of type is two removals and two replacements, each of which
  leaves every listener told (`SetProtoIs`, `RemoveProtoIs`, `UpdateIs`). `SelectorInv` says what
  a selector told at any moment, also with the focus and while it is open.
* **Loaders.** `RequireInv` follows a require along its list: of the modules its loop has come to,
  it was told some, which are all provided, and of each other one it has a listener of its own
  (`InTurn`), so the count is the number of those it was told; its loop is on the stack until the end
  of the list (`Awaits`); and a provided module with listeners has as many turns left in some
  call of `applyEachOnce` (`Cleared`), unless a `TypeError` cut it short. With an empty stack no
  provided module has a listener, so who has all its modules was told of all. `ModuleInv` ties the
  cache to the tree of modules (`ChildrenOnce`), the count of runs to the exports, and
  says of what was given whether it was final.
* **Observers of paths.** `StaleIsNoticed` says nothing of how a change comes to a set.
  `Noticing` adds how observers and sets are linked (`Linked`: an open observer is in the list of its
  set, which counts those that use it; a set in the cache is used by none), and of each
  open observer one of two: its set has a record that it will not ignore, or the set
  observes everything on its paths and, if its value is old, the callback that runs has
  yet to come to it. A change of the paths themselves is such a record, until the callback
  observes the new paths and gives everyone his turn. One lemma for each thing the program
  may do, alone or called back (`WriteNoticed`, `LeaveNoticed`, `JoinNoticed`), one for a check.
* **Checkpoints.** `Listing`: an open observer is in the list of the next cycle, or the cycle that
  runs has yet to come to it; and while nothing has changed in the cycle, so is everyone whose
  value is old. A recursive function along a path is defined for every path, because the
  shortest prefix for which it were not would have a shorter one (`WalkExists`).
* **Demon.** `UndoLeadsBack` is about a demon at rest, and one that leads where the lists end only
  if nothing was mixed. `DemonInv` says while it works where each list leads (`Led`). The list
  that the stack came from is `Ahead`: the rest of the calls, then the first `k` deferred
  stacks, then its entries, from the last one on, lead to the tree that is remembered. The other
  is `Behind`: the reverses of the calls that were done lead to where its entries begin. In
  both a call on the way can pass (`CanPass`: what is removed is there, what is moved or inserted
  has room), and its reverse can where it has led (`CallReversed`), so that neither a
  conflict nor an exception stops an undo that is not mixed with anything. A list that is asked
  stands in the place of the call before it, which is done (`Reached`), and leaves the tree as it is. An entry at the end
  of a stack is its reverses in the reverse order (`UndoneReversed`); one that is forgotten at the
  limit moves the first tree (`BehindForgotten`). `Along` and `Walk` follow those
  lists by recursive functions, for which the least index argument above is used again.
* **Manager.** `ManagerInv` says of a side that waits and of one that does the action that the
  first sends demands only, the second results only, and that demands, actions under way and
  results are one as long as somebody waits, and none otherwise. Of two
  sides of which none does the action, only the count of demands and answers is
  claimed: such a demand is never answered.
* **Menus.** A step of a menu is a chain of operations that call one another, and what
  `OneOfEach` says may fail between two of them: an option is lit before the one beside it is
  unlit, a menu is opened before its elements are shown. `MenuFit` and `TreeMenuFit` are what
  every operation keeps: one open group at a level, one chosen radio of a set, armed timers
  about groups, and in the menu of a tree that the lit option is the one it knows. The whole of it
  holds at the end of a step (`MenuLit`; `TreeMenuOpen`, which `SameOpen` carries through the
  operations that open nothing). Radios are rivals of each other (`MenuRivals`), so the order in
  which they are chosen does not matter; in the menu of a tree, where a hidden option
  lends its separator to the one before, `TreeMenuLent` says that a separator that is lent is that of
  an option that is hidden, so that lending separates radios and taking back joins none that
  are both chosen. The options are asked what they are one by one (`resets`): what one
  answer keeps, a list of them keeps (`TreeMenuResets`, by `WalkExists`).

**Only model-checked.** Liveness (`RejectionsSurface`, `Delivers`, `AnswersEventually`, `Ends`,
`ChangeIsTaken`): TLAPS proves no liveness under fairness, and nothing about ENABLED.
`FulfilledIsFinal` with clients that reject what they resolved, which the code does not
keep for other clients. `ShownAsItIs` of the explorer, `SamePlace` of paths and
`SplicesReplay` of arrays are about lists computed by recursion over data: the induction
theorems take operators as parameters, which the provers at hand cannot instantiate, and
`FileActions` has an operator that calls itself (`InsertTrue`). `LinesKept` of the explorer and
`IteratorsFollowTheWalk` follow such lists step by step. The other properties of
`client` (`TransfersLand`, `ViewsTrue`) are not proved.

## 5. What is not modelled

* `Promise.all`, `race` and the other combinators, except as their users need them
  (`race` of two promises and `reduce` in `RequestHandler`, `timeout` in the same).
* The registration of middlewares and plugins; streams, negotiation and headers.
* The content of pages, templates and access rules; the file middleware.
* Task combinators, notifier, emitter, observers of `app/node_modules/Observer`, file
  tables (reading one does not end), dependency resolver.
* Of the supervisor: the prompt of `manage.js` and the messages of the child.
* Listeners of tasks: they only observe.
* Of the client: geometry, scrolling, text and markup; copying, importing and parsing of
  nodes; the small plugins of the tree listed as *client drafts*; the DOM client of
  `app/client/node_modules`, which is templates and requests. What each module leaves out
  of its file stands in its comment and in `PROJECT.json`.
* Code that throws whenever it is called (drop of views, removal of a view, loading of a
  table with items) is left out where it throws, and listed above.
* Helpers of the language and of the console, drafts that nothing loads.

## 6. Plan

1. **Promise combinators** over a contract of promises (settled once, synchronously);
   **notifier and emitter**: a notification as a cursor over a list that listeners change.
2. **File middleware**: the recursion over aliases, as a third user of the route.
3. **Proofs**: `ViewsTrue` and `TransfersLand`, each in a module like `Controls`.
