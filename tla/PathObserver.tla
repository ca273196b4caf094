---------------------------- MODULE PathObserver ----------------------------
(***************************************************************************)
(* Observers of the values at the end of paths (vrac/Object.observe:       *)
(* PathObserver.js, ObserverList.js, TransformObserver.js, Observer.js and *)
(* the observed sets and the checkpoint of index.js).  An observer watches *)
(* a list of paths; a PathObserver watches one.                            *)
(*                                                                         *)
(* With Object.observe the observers of paths from the same object share a *)
(* set, whose callback is given the change records of every object on      *)
(* their paths; without it performMicrotaskCheckpoint checks all observers *)
(* until none has changed.  Both call the program back in the middle of    *)
(* their loops, and it may change an object, open or close an observer.    *)
(* The engine and Path (getValueFrom, iterateObjects) are external.        *)
(***************************************************************************)
EXTENDS Integers, FiniteSets, SequencesExt

CONSTANTS
  Obj, Name,   \* objects and names of their properties
  Nil,         \* a value that is no object
  Observer,    \* the observers
  Watches,     \* what each may watch: lists of [object, path]
  Transformed, \* the observers inside a TransformObserver
  MaxCycles,   \* MAX_DIRTY_CHECK_CYCLES
  MaxChanges   \* bound: the changes to the objects and the resets

VARIABLES
  hasObserve,  \* the engine has Object.observe
  m,           \* the memory: objects, observers, sets
  run,         \* the loop that runs, one of Idle, Callback and Checkpoint
  writes       \* the changes and resets so far

vars == <<hasObserve, m, run, writes>>

PathAssumption ==
  Nil \notin Obj /\ Watches \subseteq Seq([object : Obj, path : Seq(Name)]) \ {<< >>}

Idle == [kind |-> "idle", list |-> << >>, set |-> 0, at |-> 0, any |-> FALSE, cycles |-> 0]

NewSet(root) ==
  [root |-> root, props |-> {}, objects |-> {}, observers |-> << >>, count |-> 0, queue |-> {}]

-----------------------------------------------------------------------------
\* Path.getValueFrom and Path.iterateObjects: what is met along a path.
Along(heap, x, path) ==
  LET v[i \in 0..Len(path)] ==
        IF i = 0 THEN x ELSE IF v[i - 1] = Nil THEN Nil ELSE heap[v[i - 1]][path[i]]
  IN v
GetValueFrom(heap, x, path) == Along(heap, x, path)[Len(path)]
IterateObjects(heap, x, path) ==
  {e \in {<<Along(heap, x, path)[k - 1], path[k]>> : k \in DOMAIN path} : e[1] # Nil}

Values(heap, watch) == [i \in DOMAIN watch |-> GetValueFrom(heap, watch[i].object, watch[i].path)]
OnPaths(heap, watch) == UNION {IterateObjects(heap, watch[i].object, watch[i].path) : i \in DOMAIN watch}

IsOpen(s, o) == s.state[o] = "opened"

\* observe, for every object on the paths of an observer.
Observe(set, pairs) ==
  [set EXCEPT !.objects = @ \cup {e[1] : e \in pairs},
              !.props = @ \cup {e[2] : e \in {f \in pairs : f[1] = set.root}}]

\* getObservedSet: the last set when it is about the same object, else one of
\* the cache or a new one.
Connect(s, o) ==
  LET root == s.watch[o][1].object
      fits == s.last # 0 /\ s.sets[s.last].root = root
      id == IF fits THEN s.last ELSE IF s.cache # << >> THEN Last(s.cache) ELSE Len(s.sets) + 1
      found == CASE fits -> s.sets[id]
                 [] ~fits /\ s.cache # << >> -> [s.sets[id] EXCEPT !.root = root, !.props = {}]
                 [] OTHER -> NewSet(root)
      joined == Observe([found EXCEPT !.observers = Append(@, o), !.count = @ + 1],
                        OnPaths(s.heap, s.watch[o]))
  IN  [s EXCEPT !.sets = IF id > Len(@) THEN Append(@, joined) ELSE [@ EXCEPT ![id] = joined],
                !.cache = IF fits \/ @ = << >> THEN @ ELSE Front(@),
                !.last = id, !.set[o] = id]

\* Fault: the set is left before it is known to be empty.
DisconnectEmpties(s, o) ==
  LET id == s.set[o]
      left == [s.sets[id] EXCEPT !.count = @ - 1, !.observers = << >>, !.objects = {}]
  IN  IF id = 0 THEN s ELSE [s EXCEPT !.sets[id] = left, !.set[o] = 0]

\* close of a set: the observer stays in its list while others use the set.
Disconnect(s, o) ==
  LET id == s.set[o]
      left == [s.sets[id] EXCEPT !.count = @ - 1]
  IN  IF id = 0 THEN s
      ELSE IF left.count > 0 THEN [s EXCEPT !.sets[id] = left, !.set[o] = 0]
      ELSE [s EXCEPT !.sets[id] = [NewSet(Nil) EXCEPT !.queue = left.queue],
                     !.cache = Append(@, id), !.set[o] = 0,
                     !.last = IF @ = id THEN 0 ELSE @]

\* Observer.open with the connect_ of a list: what is there is not reported.
OpenObserver(s, o, watch) ==
  LET added == [s EXCEPT !.watch[o] = watch, !.state[o] = "opened",
                         !.all = IF hasObserve THEN @ ELSE Append(@, o)]
      connected == IF hasObserve THEN Connect(added, o) ELSE added
  IN  [connected EXCEPT !.value[o] = Values(s.heap, watch)]

\* Observer.close: removeFromAll only counts.
CloseObserver(s, o) ==
  [Disconnect(s, o) EXCEPT !.state[o] = "closed", !.value[o] = << >>, !.watch[o] = << >>]

\* startReset and finishReset with other paths between.
StartReset(s, o) == [Disconnect(s, o) EXCEPT !.state[o] = "resetting", !.value[o] = << >>, !.watch[o] = << >>]
FinishReset(s, o, watch) ==
  LET reset == [s EXCEPT !.watch[o] = watch, !.state[o] = "opened"]
      connected == IF hasObserve THEN Connect(reset, o) ELSE reset
  IN  [connected EXCEPT !.value[o] = Values(s.heap, watch)]

\* A property of an object changes; the callbacks of the sets that observe the
\* object get a record.
Recorded(set, x, n) ==
  IF x \in set.objects THEN [set EXCEPT !.queue = @ \cup {[object |-> x, name |-> n]}] ELSE set
Write(s, x, n, v) ==
  [s EXCEPT !.heap[x][n] = v, !.sets = [i \in DOMAIN @ |-> Recorded(@[i], x, n)]]

\* check_
Changed(s, o) == Values(s.heap, s.watch[o]) # s.value[o]
Check(s, o) == [s EXCEPT !.value[o] = Values(s.heap, s.watch[o])]

-----------------------------------------------------------------------------
Init ==
  /\ hasObserve \in BOOLEAN
  /\ m = [heap |-> [x \in Obj |-> [n \in Name |-> Nil]],
          state |-> [o \in Observer |-> "unopened"], watch |-> [o \in Observer |-> << >>],
          value |-> [o \in Observer |-> << >>], set |-> [o \in Observer |-> 0],
          sets |-> << >>, cache |-> << >>, last |-> 0, all |-> << >>, tasks |-> 0]
  /\ run = Idle
  /\ writes = 0

Result(s, changes) == [memory |-> s, changes |-> changes]

\* What the program may do with the memory s, by itself or called back.
Outcomes(s) ==
  {Result(Write(s, x, n, v), 1) : x \in Obj, n \in Name, v \in Obj \cup {Nil}}
  \cup {Result(OpenObserver(s, o, w), 0) : o \in {p \in Observer : s.state[p] = "unopened"}, w \in Watches}
  \cup {Result(CloseObserver(s, o), 0) : o \in {p \in Observer : IsOpen(s, p)}}
  \cup {Result(StartReset(s, o), 1) : o \in {p \in Observer : hasObserve /\ IsOpen(s, p)}}
  \cup {Result(FinishReset(s, o, w), 0) : o \in {p \in Observer : s.state[p] = "resetting"}, w \in Watches}
  \cup {Result(FinishReset(StartReset(s, o), o, w), 1) : o \in {p \in Observer : IsOpen(s, p)}, w \in Watches}
  \cup {Result([s EXCEPT !.tasks = 1], 0) : k \in {j \in {1} : ~hasObserve}}  \* runEOM

Allowed(r) == writes + r.changes <= MaxChanges
Take(r) == m' = r.memory /\ writes' = writes + r.changes

\* The callback of o, once s has its new value; none for a TransformObserver
\* whose function finds the same in it.
GetValueFn(value) == value[1] # Nil
IsCalled(o, s) == o \in Transformed => GetValueFn(m.value[o]) # GetValueFn(s.value[o])
Callback(o, s) ==
  {Result(s, 0)} \cup (IF IsCalled(o, s) THEN {r \in Outcomes(s) : Allowed(r)} ELSE {})

Program ==
  /\ run = Idle
  /\ \E r \in Outcomes(m) : Allowed(r) /\ Take(r)
  /\ UNCHANGED <<hasObserve, run>>

\* deliver of an open observer: dirtyCheck, until its check_ finds nothing.
Deliver(o) ==
  /\ run = Idle /\ IsOpen(m, o) /\ Changed(m, o)
  /\ run' = [Idle EXCEPT !.kind = "dirtyCheck", !.list = <<o>>]
  /\ UNCHANGED <<hasObserve, m, writes>>

\* A callback that closes or resets the observer leaves it nothing to check
\* (a PathObserver is checked once more, and its callback, which is undefined
\* by then, is an exception that report_ logs).
DirtyCheck ==
  LET o == run.list[1]
      goes == run.cycles < MaxCycles /\ Changed(m, o)
  IN  /\ run.kind = "dirtyCheck"
      /\ IF goes THEN /\ \E r \in Callback(o, Check(m, o)) : Take(r)
                      /\ run' = [run EXCEPT !.cycles = @ + 1]
         ELSE run' = Idle /\ UNCHANGED <<m, writes>>
      /\ UNCHANGED hasObserve

-----------------------------------------------------------------------------
\* allRootObjNonObservedProps
Ignorable(set, records) == \A r \in records : r.object = set.root /\ r.name \notin set.props

\* The callback of a set: the new objects on the paths are observed, then
\* every observer of the list is checked, the ones that join it too.
Deliverable(id) == m.sets[id].queue # {}
StartCallback(id) ==
  LET set == [m.sets[id] EXCEPT !.queue = {}]
      pairs == UNION {OnPaths(m.heap, m.watch[o]) : o \in {p \in ToSet(set.observers) : IsOpen(m, p)}}
  IN  /\ run = Idle
      /\ Deliverable(id)
      /\ IF Ignorable(set, m.sets[id].queue)
           THEN m' = [m EXCEPT !.sets[id] = set] /\ UNCHANGED run
           ELSE /\ m' = [m EXCEPT !.sets[id] = Observe(set, pairs)]
                /\ run' = [Idle EXCEPT !.kind = "callback", !.set = id, !.at = 1]
      /\ UNCHANGED <<hasObserve, writes>>

StepCallback ==
  LET list == m.sets[run.set].observers
      o == list[run.at]
  IN  /\ run.kind = "callback"
      /\ run' = IF run.at > Len(list) THEN Idle ELSE [run EXCEPT !.at = @ + 1]
      /\ IF run.at <= Len(list) /\ IsOpen(m, o) /\ Changed(m, o) THEN \E r \in Callback(o, Check(m, o)) : Take(r)
         ELSE UNCHANGED <<m, writes>>
      /\ UNCHANGED hasObserve

-----------------------------------------------------------------------------
\* performMicrotaskCheckpoint: a cycle takes the list of all the observers, and
\* puts those that are still open back.
Cycle(s, r) == [r EXCEPT !.kind = "checkpoint", !.list = s.all, !.at = 1, !.any = FALSE, !.cycles = @ + 1]

StartCheckpoint ==
  /\ run = Idle /\ ~hasObserve /\ m.all # << >>
  /\ run' = Cycle(m, Idle)
  /\ m' = [m EXCEPT !.all = << >>]
  /\ UNCHANGED <<hasObserve, writes>>

\* Fault: the observer is put back before it is called back, and in its place.
KeptFirst(s, o) == IF s.state[o] = "closed" THEN s ELSE [s EXCEPT !.all = <<o>>]

\* allObservers.push(observer), whatever the call did to it.
Kept(s, o) == [s EXCEPT !.all = Append(@, o)]

\* An observer that is not open is dropped from the list.
StepCheckpoint ==
  LET o == run.list[run.at]
  IN  /\ run.kind = "checkpoint" /\ run.at <= Len(run.list)
      /\ IF ~IsOpen(m, o)
           THEN run' = [run EXCEPT !.at = @ + 1] /\ UNCHANGED <<m, writes>>
         ELSE IF ~Changed(m, o)
           THEN run' = [run EXCEPT !.at = @ + 1] /\ m' = Kept(m, o) /\ UNCHANGED writes
         ELSE /\ run' = [run EXCEPT !.at = @ + 1, !.any = TRUE]
              /\ \E r \in Callback(o, Check(m, o)) : Take(Result(Kept(r.memory, o), r.changes))
      /\ UNCHANGED hasObserve

\* runEOMTasks, at the end of a cycle.
RunTask ==
  /\ run.kind = "checkpoint" /\ run.at > Len(run.list) /\ m.tasks > 0
  /\ LET s == [m EXCEPT !.tasks = 0]
     IN  \E r \in {Result(s, 0)} \cup {q \in Outcomes(s) : Allowed(q)} : Take(r)
  /\ run' = [run EXCEPT !.any = TRUE]
  /\ UNCHANGED hasObserve

EndCycle ==
  /\ run.kind = "checkpoint" /\ run.at > Len(run.list) /\ m.tasks = 0
  /\ IF run.any /\ run.cycles < MaxCycles
       THEN run' = Cycle(m, run) /\ m' = [m EXCEPT !.all = << >>]
       ELSE run' = Idle /\ UNCHANGED m
  /\ UNCHANGED <<hasObserve, writes>>

Next ==
  \/ Program
  \/ \E o \in Observer : Deliver(o)
  \/ DirtyCheck
  \/ \E id \in DOMAIN m.sets : StartCallback(id)
  \/ StepCallback
  \/ StartCheckpoint
  \/ StepCheckpoint
  \/ RunTask
  \/ EndCycle

Spec == Init /\ [][Next]_vars

-----------------------------------------------------------------------------
Stale(o) == IsOpen(m, o) /\ Changed(m, o)

\* With Object.observe, an observer whose value is not the one at the end of
\* its paths has a record on its way that its set will not ignore, whatever
\* was opened, closed and changed in the callbacks (index.js:219-318).
StaleIsNoticed ==
  hasObserve /\ run = Idle =>
    \A o \in Observer : Stale(o) =>
      LET set == m.sets[m.set[o]]
      IN  set.queue # {} /\ ~Ignorable(set, set.queue)

\* Without it, a checkpoint that ends because nothing changed leaves no open
\* observer with an old value (index.js:324-360).
Settles ==
  run.kind = "checkpoint" /\ run'.kind = "idle" /\ ~run.any =>
    \A o \in Observer : ~Stale(o)
CheckpointSettles == [][Settles]_vars
=============================================================================
