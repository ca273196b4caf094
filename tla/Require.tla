------------------------------ MODULE Require ------------------------------
(***************************************************************************)
(* The first loader of the client (app/client/js/vrac/require.js and       *)
(* require.client.js).  require(dependencies, callback) puts a listener on *)
(* each module and calls back when all of them are provided; a module that *)
(* is not known is loaded by a script element, at once when the page holds *)
(* its code, else when the browser has fetched it.  Everything is          *)
(* synchronous but that fetch, so callbacks run in the middle of the loops *)
(* that call them: stack holds the calls in progress, the last one first.  *)
(***************************************************************************)
EXTENDS Naturals, Sequences

CONSTANTS
  Mod,         \* modules
  Inline,      \* those whose code the page holds
  Lists,       \* the lists of dependencies that are asked for
  MaxRequires  \* bound: calls of require

RequireAssumption == Lists \subseteq Seq(Mod)

VARIABLES
  exports,     \* set of the modules with exports
  loaded,      \* [Mod -> {"undefined", "false", "true"}]
  fetching,    \* set of the modules the browser fetches
  listeners,   \* [Mod -> sequence of requires]: provideListeners
  dependencies, count, resolved, \* of each require, in the order of the calls
  calls,       \* how many times each callback was called
  stack,
  thrown       \* a TypeError was thrown

vars == <<exports, loaded, fetching, listeners, dependencies, count, resolved, calls, stack, thrown>>

Requires == DOMAIN dependencies

Init ==
  /\ exports = {} /\ fetching = {} /\ thrown = FALSE
  /\ loaded = [m \in Mod |-> "undefined"]
  /\ listeners = [m \in Mod |-> <<>>]
  /\ dependencies = <<>> /\ count = <<>> /\ resolved = <<>> /\ calls = <<>>
  /\ stack = <<>>

Frame(kind, of, n) == [kind |-> kind, of |-> of, n |-> n]

\* Code of the application runs: a new task, a callback, or a module's script.
UserCode == stack # <<>> => Head(stack).kind \in {"callback", "script"}

\* Mutants: the exports of a module are not looked at when it is required; a
\* listener stays in the list after its turn.
provided_never(m) == FALSE
shift_kept(m) == listeners

\* 'exports' in module, and the shift of applyEachOnce.
provided(m) == m \in exports
shift(m) == [listeners EXCEPT ![m] = Tail(@)]

\* onprovide: a call of applyEachOnce, whose count of turns is read at its start.
onprovide(m, below) == stack' = <<Frame("notify", m, Len(listeners[m]))>> \o below

Require(list) ==
  /\ UserCode /\ Len(dependencies) < MaxRequires
  /\ dependencies' = Append(dependencies, list)
  /\ count' = Append(count, 0) /\ resolved' = Append(resolved, FALSE) /\ calls' = Append(calls, 0)
  /\ stack' = <<Frame("resolve", Len(dependencies) + 1, 1)>> \o stack
  /\ UNCHANGED <<exports, loaded, fetching, listeners, thrown>>

\* load: the script in the page runs inside the call, another one is fetched.
load(m, below) ==
  IF m \in Inline
  THEN stack' = <<Frame("script", m, 0)>> \o below /\ UNCHANGED fetching
  ELSE stack' = below /\ fetching' = fetching \union {m}

\* One turn of the loop of resolve.
resolveModule ==
  /\ stack # <<>> /\ Head(stack).kind = "resolve"
  /\ LET r == Head(stack).of
         i == Head(stack).n
         m == dependencies[r][i]
         rest == <<Frame("resolve", r, i + 1)>> \o Tail(stack)
     IN IF i > Len(dependencies[r])
        THEN stack' = Tail(stack) /\ UNCHANGED <<loaded, fetching, listeners>>
        ELSE /\ listeners' = [listeners EXCEPT ![m] = Append(@, r)]
             /\ IF provided(m)
                THEN /\ stack' = <<Frame("notify", m, Len(listeners[m]) + 1)>> \o rest
                     /\ UNCHANGED <<loaded, fetching>>
                ELSE IF loaded[m] = "undefined"
                THEN load(m, rest) /\ loaded' = [loaded EXCEPT ![m] = "false"]
                ELSE stack' = rest /\ UNCHANGED <<loaded, fetching>>
  /\ UNCHANGED <<exports, dependencies, count, resolved, calls, thrown>>

\* A TypeError leaves every call down to the script that is running: the
\* browser reports it there.
Unwound ==
  LET scripts == {i \in DOMAIN stack : stack[i].kind = "script"}
  IN IF scripts = {} THEN <<>>
     ELSE SubSeq(stack, CHOOSE i \in scripts : \A j \in scripts : i <= j, Len(stack))

\* One turn of applyEachOnce on provideListeners: shift() answers undefined
\* when a call inside this one has emptied the list.
applyEachOnce ==
  /\ stack # <<>> /\ Head(stack).kind = "notify"
  /\ LET m == Head(stack).of
         left == Head(stack).n
         rest == <<Frame("notify", m, left - 1)>> \o Tail(stack)
     IN \/ /\ left = 0 /\ stack' = Tail(stack)
           /\ UNCHANGED <<listeners, count, resolved, calls, thrown>>
        \/ /\ left > 0 /\ listeners[m] = <<>>
           /\ thrown' = TRUE /\ stack' = Unwound
           /\ UNCHANGED <<listeners, count, resolved, calls>>
        \/ /\ left > 0 /\ listeners[m] # <<>>
           /\ LET r == Head(listeners[m])
                  all == count[r] + 1 = Len(dependencies[r])
              IN /\ listeners' = shift(m)
                 /\ count' = [count EXCEPT ![r] = @ + 1]
                 /\ resolved' = [resolved EXCEPT ![r] = @ \/ all]
                 /\ calls' = [calls EXCEPT ![r] = @ + IF all THEN 1 ELSE 0]
                 /\ stack' = IF all THEN <<Frame("callback", r, 0)>> \o rest ELSE rest
           /\ UNCHANGED thrown
  /\ UNCHANGED <<exports, loaded, fetching, dependencies>>

provide(m) ==
  /\ UserCode
  /\ exports' = exports \union {m}
  /\ onprovide(m, stack)
  /\ UNCHANGED <<loaded, fetching, listeners, dependencies, count, resolved, calls, thrown>>

\* A callback or a script ends; onload follows the script.
Return ==
  /\ stack # <<>> /\ Head(stack).kind \in {"callback", "script"}
  /\ stack' = Tail(stack)
  /\ loaded' = IF Head(stack).kind = "script" THEN [loaded EXCEPT ![Head(stack).of] = "true"] ELSE loaded
  /\ UNCHANGED <<exports, fetching, listeners, dependencies, count, resolved, calls, thrown>>

\* The browser has fetched a script, or could not: onerror does nothing.
Fetched(m) ==
  /\ stack = <<>> /\ m \in fetching
  /\ fetching' = fetching \ {m}
  /\ stack' \in {<<>>, <<Frame("script", m, 0)>>}
  /\ UNCHANGED <<exports, loaded, listeners, dependencies, count, resolved, calls, thrown>>

Next ==
  \/ \E list \in Lists : Require(list)
  \/ resolveModule \/ applyEachOnce \/ Return
  \/ \E m \in Mod : provide(m) \/ Fetched(m)

Spec == Init /\ [][Next]_vars

-----------------------------------------------------------------------------
(* A callback is called at most once, and only with the exports of all its *)
(* modules, whatever is required and provided inside other callbacks.      *)
CalledOnceComplete ==
  \A r \in Requires : /\ calls[r] <= 1
                      /\ calls[r] = 1 => \A i \in DOMAIN dependencies[r] : dependencies[r][i] \in exports

(* Once the calls in progress have ended, nobody waits for modules that are *)
(* all provided, unless a TypeError cut the calls short: the count of turns *)
(* of applyEachOnce is the only thing that can lose a listener.             *)
NobodyForgotten ==
  stack = <<>> /\ ~thrown =>
    \A r \in Requires : dependencies[r] # <<>> /\ (\A i \in DOMAIN dependencies[r] : dependencies[r][i] \in exports)
                          => calls[r] = 1
=============================================================================
