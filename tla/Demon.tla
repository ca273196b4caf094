------------------------------- MODULE Demon -------------------------------
(***************************************************************************)
(* What the user asks of the tree is put off (tree/tree.demon.js), handed  *)
(* to the user again when it meets a name that is taken (tree.problems.js, *)
(* tree.unique.js), sent to the server (tree.ajax.js) and remembered, to   *)
(* be undone and redone (tree.memory.js, memory.js).  The demon takes the  *)
(* demands of one turn of the event loop as a stack, treats its calls one  *)
(* after the other, each through problems, ajax and memory in that order,  *)
(* and defers the stacks that come meanwhile.                              *)
(*                                                                         *)
(* The tree is one node that moves between places; another node may have   *)
(* its name at some of them: it is removed, or the node takes another name, *)
(* as the user says.  The children of a place are listed before a node     *)
(* moves there.                                                            *)
(***************************************************************************)
EXTENDS Integers, SequencesExt

CONSTANTS
  Place, Home, Taken, \* places, the node's first one, those that are taken
  Known,              \* the places of which the children are listed at first
  Local,              \* the places the server is not told of
  Limit,              \* of Memory: entries to undo
  MaxDemands          \* bound: demands of the user, undo and redo included

DemonAssumption == Taken \subseteq Place /\ Known \subseteq Place /\ Home \in Place \ Taken /\ Limit \in Nat \ {0}

VARIABLES
  tree,               \* [at: where the node is, name: "own" or "free", taken: the
                      \* places with another one of its own name]
  listed,             \* the places of which the children are known
  ins, lockers,       \* the stack that is received; the pending setImmediates
  stack, index, stacks, \* the one that is treated, or Null; those deferred
  call,               \* the call that is treated, or was last
  waiting,            \* what its call waits for: "nothing", "server", "user", "forever"
  restorers, undos, redos,
  demands, base, latest, raced \* history: see below

vars == <<tree, listed, ins, lockers, stack, index, stacks, call, waiting, restorers, undos, redos, demands, base, latest, raced>>

Null == [calls |-> <<>>, mode |-> "none"]
Call(action, q) == [action |-> action, q |-> q]

Init ==
  /\ tree = [at |-> Home, name |-> "own", taken |-> Taken] /\ listed = Known /\ base = tree /\ latest = tree
  /\ ins = <<>> /\ lockers = 0 /\ stack = Null /\ index = 0 /\ stacks = <<>>
  /\ waiting = "nothing" /\ call = Call("move", Home)
  /\ restorers = <<>> /\ undos = <<>> /\ redos = <<>>
  /\ demands = 0 /\ raced = FALSE

\* applyAction, and the reverse of a call at the time it is made.
applyAction(t, c) ==
  CASE c.action = "move"   -> [t EXCEPT !.at = c.q]
    [] c.action = "remove" -> [t EXCEPT !.taken = @ \ {c.q}]
    [] c.action = "insert" -> [t EXCEPT !.taken = @ \union {c.q}]
    [] c.action = "update" -> [t EXCEPT !.name = c.q]
    [] c.action = "list"   -> t
reverse(t, c) ==
  CASE c.action = "move"   -> Call("move", t.at)
    [] c.action = "remove" -> Call("insert", c.q)
    [] c.action = "insert" -> Call("remove", c.q)
    [] c.action = "update" -> Call("update", t.name)

\* The stack is treated up to a call that waits, without a pause.
Treating == stack # Null /\ waiting = "nothing"

\* start: at once when nothing is treated, else deferred.
start(s) ==
  IF stack = Null THEN stack' = s /\ index' = 1 /\ UNCHANGED stacks
  ELSE stacks' = Append(stacks, s) /\ UNCHANGED <<stack, index>>

\* demandAction: oninput puts the call in the stack that is received.
Demand(q) ==
  /\ ~Treating /\ demands < MaxDemands /\ demands' = demands + 1
  /\ ins' = Append(ins, Call("move", q)) /\ lockers' = lockers + 1
  /\ UNCHANGED <<call, tree, listed, stack, index, stacks, waiting, restorers, undos, redos, base, latest, raced>>

\* A setImmediate: the last lock examines what was received.
unlock ==
  /\ ~Treating /\ lockers > 0 /\ lockers' = lockers - 1
  /\ IF lockers = 1 THEN start([calls |-> ins, mode |-> "user"]) /\ ins' = <<>>
     ELSE UNCHANGED <<ins, stack, index, stacks>>
  /\ UNCHANGED <<call, tree, listed, waiting, restorers, undos, redos, demands, base, latest, raced>>

\* go(1) and go(-1): the last entry is taken out before it is treated.
from(mode) == IF mode = "undo" THEN undos ELSE redos
go(mode) ==
  /\ ~Treating /\ demands < MaxDemands /\ demands' = demands + 1
  /\ from(mode) # <<>>
  /\ undos' = IF mode = "undo" THEN Front(undos) ELSE undos
  /\ redos' = IF mode = "redo" THEN Front(redos) ELSE redos
  /\ start([calls |-> Last(from(mode)), mode |-> mode])
  /\ raced' = (raced \/ ins # <<>> \/ (stack # Null /\ stack.mode # mode)
                     \/ \E i \in DOMAIN stacks : stacks[i].mode # mode)
  /\ UNCHANGED <<call, tree, listed, ins, lockers, waiting, restorers, base, latest>>

current == stack.calls[index]

\* The end of a stack: its reverse is remembered, and the next one starts.
\* Mutants: the calls are to be undone in the order they were made; the
\* deferred stacks are left.
entry_inOrder(done) == done
next_none(queue) == Null
entry(done) == Reverse(done)
next(queue) == IF queue = <<>> THEN Null ELSE Head(queue)

store(done) ==
  LET kept == IF Len(undos) = Limit THEN Tail(undos) ELSE undos
  IN undos' = Append(kept, entry(done)) /\ redos' = <<>>

\* The trees that calls lead through, and where the entries of a list lead, from
\* the last one to the first.
Along(t, calls) ==
  LET at[i \in 0..Len(calls)] == IF i = 0 THEN t ELSE applyAction(at[i - 1], calls[i]) IN at
Walk(t, entries) ==
  LET before[k \in 0..Len(entries)] ==
        IF k = Len(entries) THEN t ELSE Along(before[k + 1], entries[k + 1])[Len(entries[k + 1])]
  IN before[0]

end ==
  /\ Treating /\ index > Len(stack.calls)
  /\ IF restorers = <<>> THEN UNCHANGED <<undos, redos>>
     ELSE IF stack.mode = "user" THEN store(restorers)
     ELSE /\ redos' = IF stack.mode = "undo" THEN Append(redos, entry(restorers)) ELSE redos
          /\ undos' = IF stack.mode = "redo" THEN Append(undos, entry(restorers)) ELSE undos
  /\ restorers' = <<>>
  /\ stack' = next(stacks) /\ index' = 1 /\ stacks' = IF stacks = <<>> THEN stacks ELSE Tail(stacks)
  /\ latest' = IF stack.mode = "user" /\ restorers # <<>> THEN tree ELSE latest
  /\ base' = IF stack.mode = "user" /\ restorers # <<>> /\ Len(undos) = Limit THEN Walk(tree, undos') ELSE base
  /\ UNCHANGED <<call, tree, listed, ins, lockers, waiting, demands, raced>>

\* handleAction cancels a move to where the node is, and a list of what is
\* listed: nextCall.
Cancelled ==
  \/ current.action = "move" /\ current.q = tree.at
  \/ current.action = "list" /\ current.q \in listed
skip ==
  /\ Treating /\ index <= Len(stack.calls) /\ Cancelled
  /\ index' = index + 1
  /\ UNCHANGED <<call, tree, listed, ins, lockers, stack, stacks, waiting, restorers, undos, redos, demands, base, latest, raced>>

Passes == Treating /\ index <= Len(stack.calls) /\ ~Cancelled

\* The handlers of unique: the name is taken, be it by the node itself.
Unlisted == current.action = "move" /\ current.q \notin listed
Conflict ==
  \/ current.action = "move" /\ tree.name = "own" /\ current.q \in tree.taken
  \/ current.action = "update" /\ (current.q = tree.name \/ (current.q = "own" /\ tree.at \in tree.taken))

\* A node that is out of the tree has no place to come back to: its reverse
\* throws, and the demon keeps the stack for ever.
Throws(c) == c.action = "remove" /\ c.q \notin tree.taken

\* Memory's submit and the demon's: what is listed has no reverse.
endCall(c, i) ==
  IF Throws(c) THEN waiting' = "forever" /\ index' = i /\ UNCHANGED <<tree, listed, restorers>>
  ELSE /\ restorers' = IF c.action = "list" THEN restorers ELSE Append(restorers, reverse(tree, c))
       /\ listed' = IF c.action = "list" THEN listed \union {c.q} ELSE listed
       /\ tree' = applyAction(tree, c)
       /\ index' = i + 1 /\ waiting' = "nothing"

\* Ajax's submit.
transferCall(c, i) ==
  IF c.action = "move" /\ c.q \in Local THEN endCall(c, i)
  ELSE waiting' = "server" /\ index' = i /\ UNCHANGED <<tree, listed, restorers>>

submit ==
  /\ Passes /\ ~Unlisted /\ call' = current
  /\ IF Conflict THEN waiting' = "user" /\ UNCHANGED <<tree, listed, restorers, index>> ELSE transferCall(current, index)
  /\ UNCHANGED <<ins, lockers, stack, stacks, undos, redos, demands, base, latest, raced>>

\* The splice at -1 counts from the end.
insertPlace == IF index = 1 THEN Len(stack.calls) ELSE index - 1
insertCall(c) ==
  /\ call' = c /\ stack' = [stack EXCEPT !.calls = InsertAt(@, insertPlace, c)] /\ transferCall(c, index)
  /\ raced' = (raced \/ (index = 1 /\ Len(stack.calls) > 1))
  /\ UNCHANGED <<ins, lockers, stacks, undos, redos, demands, base, latest>>

\* The deciders: list, and the user's answer to the popup, which is to cancel
\* the call, to remove the other node or to take a free name.
list == Passes /\ Unlisted /\ insertCall(Call("list", current.q))

cancelCall ==
  /\ waiting = "user" /\ waiting' = "nothing"
  /\ stack' = [stack EXCEPT !.calls = RemoveAt(@, index)]
  /\ UNCHANGED <<call, tree, listed, ins, lockers, index, stacks, restorers, undos, redos, demands, base, latest, raced>>

\* Bound: the user does not remove the node itself, when a name that is given
\* twice is the one it has.
removeOther ==
  /\ waiting = "user" /\ (call.action = "update" => call.q # tree.name)
  /\ insertCall(Call("remove", IF call.action = "move" THEN call.q ELSE tree.at))

\* usefree: the name is free everywhere.  An update gets it in its place.
usefree ==
  /\ waiting = "user"
  /\ LET c == Call("update", "free")
     IN IF call.action = "move" THEN insertCall(c)
        ELSE /\ call' = c /\ stack' = [stack EXCEPT !.calls[index] = c] /\ transferCall(c, index)
             /\ UNCHANGED <<ins, lockers, stacks, undos, redos, demands, base, latest, raced>>

answer ==
  /\ waiting = "server"
  /\ endCall(call, index)
  /\ UNCHANGED <<call, ins, lockers, stack, stacks, undos, redos, demands, base, latest, raced>>

\* An error: cancel and cancelNext put what came from undo and redo back, the
\* deferred ones from the last to the first; restorers is not touched.
PutBack(entries, mode) ==
  entries \o [i \in DOMAIN SelectSeq(<<stack>> \o Reverse(stacks), LAMBDA s : s.mode = mode) |->
             SelectSeq(<<stack>> \o Reverse(stacks), LAMBDA s : s.mode = mode)[i].calls]
error ==
  /\ waiting = "server" /\ waiting' = "nothing"
  /\ undos' = PutBack(undos, "undo") /\ redos' = PutBack(redos, "redo")
  /\ stack' = Null /\ stacks' = <<>> /\ raced' = TRUE
  /\ UNCHANGED <<call, tree, listed, ins, lockers, index, restorers, demands, base, latest>>

Next ==
  \/ \E q \in Place : Demand(q)
  \/ unlock \/ end \/ skip \/ submit \/ list \/ cancelCall \/ removeOther \/ usefree \/ answer \/ error
  \/ \E mode \in {"undo", "redo"} : go(mode)

Spec == Init /\ [][Next]_vars

-----------------------------------------------------------------------------
Idle == stack = Null /\ ins = <<>>

(* With nothing in progress, undoing everything leads back to the first    *)
(* tree (or the first one the limit has kept) and redoing everything to    *)
(* the last one the user made; unless an undo or a redo was asked while    *)
(* something else was in progress, the server refused, or a conflict or a  *)
(* place to list met the first of several calls.                           *)
UndoLeadsBack == Idle /\ ~raced => Walk(tree, undos) = base /\ Walk(tree, redos) = latest

(* Nothing is forgotten in the queues: what was received has a lock to wait *)
(* for, and stacks are deferred only behind one that is in progress.        *)
NothingStuck ==
  /\ ins # <<>> => lockers > 0
  /\ stack = Null => stacks = <<>> /\ waiting = "nothing"
  /\ waiting = "forever" => raced
=============================================================================
