------------------------------ MODULE Promise ------------------------------
(***************************************************************************)
(* The promise of node_modules/promise/index.js.                           *)
(*                                                                         *)
(* The code settles a promise and runs its subscribers SYNCHRONOUSLY       *)
(* (clean), inside the call of resolve or reject; only a then() on an      *)
(* already settled promise goes through setImmediate.  Subscribers are     *)
(* user functions, which may in turn create, settle or subscribe to any    *)
(* promise.  The module therefore keeps the call stack of the JavaScript   *)
(* thread: `calls' is what the thread still has to run, innermost first,   *)
(* and one step runs the head of it.                                       *)
(***************************************************************************)
EXTENDS Naturals, Sequences, FiniteSets

CONSTANTS
  Promises,   \* identities of promises, each used once
  Plain,      \* the values that are not thenable
  Foreign,    \* the thenables that are not promises of this library
  Undefined,  \* the value undefined
  TypeError,  \* the error of a promise resolved with itself
  Falsy,      \* the values a condition takes for false
  None,       \* no function given to then(), no subscriber
  User,       \* a function of the user given to then()
  Results,    \* what user code resolves with
  Reasons,    \* what user code rejects with, or throws
  HookPairs,  \* the pairs of arguments given to then()
  LateReject  \* whether user code rejects what it has already resolved

ASSUME PromiseAssumption ==
  /\ Undefined \in Plain /\ TypeError \in Plain \ Falsy
  /\ Undefined \in Falsy /\ Falsy \subseteq Plain
  /\ Promises \cap Plain = {} /\ Promises \cap Foreign = {}
  /\ Plain \cap Foreign = {}
  /\ None \notin Promises /\ User \notin Promises /\ None # User
  /\ Results \subseteq Plain \cup Promises \cup Foreign
  /\ Reasons \subseteq Plain \cup Promises \cup Foreign
  /\ HookPairs \subseteq {None, User} \X {None, User}
  /\ LateReject \in BOOLEAN

VARIABLES
  state,       \* "free" until created, then promise.state
  value,       \* promise.value
  resolving,   \* promise.resolving
  pendingList, \* promise.pendingList, the subscribers of a pending promise
  onResolve,   \* None, User, or the promise whose resolver the hook is
  onReject,    \* None, User, or the promise whose rejecter the hook is
  handled,     \* promise.handled
  held,        \* the promises whose resolve and reject a user executor has
  lent,        \* the promises whose resolver a foreign thenable still has
  immediates,  \* the queue of setImmediate
  calls,       \* what the thread has to run, the innermost call first
  emitted,     \* the promises reported by 'unhandledRejection'
  subscribers, \* history: who subscribed to a promise, in order
  told         \* history: the subscribers that adopted its outcome, in order

vars == <<state, value, resolving, pendingList, onResolve, onReject, handled,
          held, lent, immediates, calls, emitted, subscribers, told>>

Thenables == Promises \cup Foreign
Values    == Plain \cup Thenables
Hooks     == {None, User} \cup Promises
Settled   == {"fulfilled", "rejected"}
Created   == {p \in Promises : state[p] # "free"}
Free      == Promises \ Created

(***************************************************************************)
(* An entry of the call stack or of the queue of setImmediate: "adopt" is  *)
(* on.adoptState(from), "handler" the user function of `on' running,       *)
(* "reply" what adoptState does after a resolver or rejecter returned,     *)
(* "calling" the then() of a foreign thenable running for `on', and        *)
(* "fulfilled", "rejected" the end of onFulFilled and onRejected.          *)
(***************************************************************************)
Ops == {"adopt", "handler", "reply", "calling", "fulfilled", "rejected",
        "unhandled"}
Entries == [op : Ops, on : Promises, from : Promises]
Entry(o, p, q) == [op |-> o, on |-> p, from |-> q]

TypeOK ==
  /\ state \in [Promises -> {"free", "pending"} \cup Settled]
  /\ value \in [Promises -> Values]
  /\ resolving \in [Promises -> BOOLEAN]
  /\ pendingList \in [Promises -> Seq(Promises)]
  /\ onResolve \in [Promises -> Hooks]
  /\ onReject \in [Promises -> Hooks]
  /\ handled \in [Promises -> BOOLEAN]
  /\ held \subseteq Promises
  /\ lent \subseteq Promises
  /\ immediates \in Seq(Entries)
  /\ calls \in Seq(Entries)
  /\ emitted \subseteq Promises
  /\ subscribers \in [Promises -> Seq(Promises)]
  /\ told \in [Promises -> Seq(Promises)]

Init ==
  /\ state       = [p \in Promises |-> "free"]
  /\ value       = [p \in Promises |-> Undefined]
  /\ resolving   = [p \in Promises |-> FALSE]
  /\ pendingList = [p \in Promises |-> << >>]
  /\ onResolve   = [p \in Promises |-> None]
  /\ onReject    = [p \in Promises |-> None]
  /\ handled     = [p \in Promises |-> FALSE]
  /\ held = {} /\ lent = {} /\ emitted = {}
  /\ immediates  = << >>
  /\ calls       = << >>
  /\ subscribers = [p \in Promises |-> << >>]
  /\ told        = [p \in Promises |-> << >>]

-----------------------------------------------------------------------------
(***************************************************************************)
(* Settling.  `rest' is what the thread runs once the call has returned.   *)
(***************************************************************************)

\* clean(): each pending promise adopts the outcome, in order, and then
\* onFulFilled or onRejected goes on.
Cleaning(p, how) ==
  [i \in 1..Len(pendingList[p]) |-> Entry("adopt", pendingList[p][i], p)]
    \o <<Entry(how, p, p)>>

\* The tail of resolvedValueResolver: state is written whatever it was.
Fulfill(p, v, rest) ==
  /\ state' = [state EXCEPT ![p] = "fulfilled"]
  /\ value' = [value EXCEPT ![p] = v]
  /\ resolving' = [resolving EXCEPT ![p] = FALSE]
  /\ calls' = Cleaning(p, "fulfilled") \o rest

Ignore(rest) ==
  /\ calls' = rest
  /\ UNCHANGED <<state, value>>

\* Fault: reject() does not test the state.
RejectAnyState(p, v, rest) ==
  /\ state' = [state EXCEPT ![p] = "rejected"]
  /\ value' = [value EXCEPT ![p] = v]
  /\ calls' = Cleaning(p, "rejected") \o rest

\* reject() looks at the state, never at `resolving'.
Reject(p, v, rest) ==
  \/ /\ state[p] = "pending"
     /\ state' = [state EXCEPT ![p] = "rejected"]
     /\ value' = [value EXCEPT ![p] = v]
     /\ calls' = Cleaning(p, "rejected") \o rest
  \/ state[p] # "pending" /\ Ignore(rest)

\* clearImmediate(this.unhandled), if there is one.
Scheduled(p) == {i \in 1..Len(immediates) : immediates[i] = Entry("unhandled", p, p)}
WithoutUnhandled(p) ==
  IF Scheduled(p) = {} THEN immediates
  ELSE LET i == CHOOSE i \in Scheduled(p) : TRUE
       IN SubSeq(immediates, 1, i - 1) \o SubSeq(immediates, i + 1, Len(immediates))

\* Fault: then() joins the list of a promise that is settled already.
SubscribeToList(p, c, f, r) ==
  /\ onResolve' = [onResolve EXCEPT ![c] = f]
  /\ onReject' = [onReject EXCEPT ![c] = r]
  /\ handled' = [handled EXCEPT ![p] = TRUE]
  /\ subscribers' = [subscribers EXCEPT ![p] = Append(@, c)]
  /\ pendingList' = [pendingList EXCEPT ![p] = Append(@, c)]
  /\ UNCHANGED immediates

\* then(): c is the pending promise it creates and returns.
Subscribe(p, c, f, r) ==
  /\ onResolve' = [onResolve EXCEPT ![c] = f]
  /\ onReject' = [onReject EXCEPT ![c] = r]
  /\ handled' = [handled EXCEPT ![p] = TRUE]
  /\ subscribers' = [subscribers EXCEPT ![p] = Append(@, c)]
  /\ \/ /\ state[p] = "pending"
        /\ pendingList' = [pendingList EXCEPT ![p] = Append(@, c)]
        /\ UNCHANGED immediates
     \/ /\ state[p] \in Settled
        /\ immediates' = Append(WithoutUnhandled(p), Entry("adopt", c, p))
        /\ UNCHANGED pendingList

NoSubscription ==
  UNCHANGED <<onResolve, onReject, handled, subscribers, pendingList, immediates>>

\* Nothing happens but what Reject or Ignore says.
NoResolution == NoSubscription /\ UNCHANGED <<resolving, lent>>

\* Fault: a value is never tested for being thenable.
ResolvedAnyValue(p, v, flag, rest) ==
  /\ Fulfill(p, v, rest)
  /\ lent' = lent \ {p}
  /\ NoSubscription

\* resolvedValueResolver(value).  The outcome of another promise is awaited
\* by a then() on it; nothing checks that p is still pending.
ResolvedValue(p, v, flag, rest) ==
  \/ /\ v \in Plain
     /\ Fulfill(p, v, rest)
     /\ lent' = lent \ {p}
     /\ NoSubscription
  \/ /\ v = p
     /\ Reject(p, TypeError, rest)
     /\ resolving' = [resolving EXCEPT ![p] = flag]
     /\ lent' = lent \ {p}
     /\ NoSubscription
  \/ /\ v \in Created \ {p}
     /\ \E c \in Free :
          /\ Subscribe(v, c, p, p)
          /\ state' = [state EXCEPT ![c] = "pending"]
     /\ resolving' = [resolving EXCEPT ![p] = flag]
     /\ lent' = lent \ {p}
     /\ calls' = rest
     /\ UNCHANGED value
  \/ /\ v \in Foreign
     /\ resolving' = [resolving EXCEPT ![p] = flag]
     /\ lent' = lent \cup {p}
     /\ Ignore(<<Entry("calling", p, p)>> \o rest)
     /\ NoSubscription

\* Fault: a second resolve() while the first one awaits a promise.
ResolveTwice(p, v, rest) ==
  \/ /\ state[p] = "pending"
     /\ ResolvedValue(p, v, TRUE, rest)
  \/ /\ state[p] # "pending"
     /\ Ignore(rest)
     /\ NoResolution

\* resolve(value)
Resolve(p, v, rest) ==
  \/ /\ state[p] = "pending" /\ ~resolving[p]
     /\ ResolvedValue(p, v, TRUE, rest)
  \/ /\ state[p] # "pending" \/ resolving[p]
     /\ Ignore(rest)
     /\ NoResolution

-----------------------------------------------------------------------------
(***************************************************************************)
(* User code: between two turns of the event loop, in a subscriber, or in  *)
(* the then() of a foreign thenable.                                       *)
(***************************************************************************)
UserCode == calls # << >> => Head(calls).op \in {"handler", "calling"}

\* new Promise(executor): the executor keeps resolve and reject.
New(p) ==
  /\ UserCode /\ p \in Free
  /\ state' = [state EXCEPT ![p] = "pending"]
  /\ held' = held \cup {p}
  /\ UNCHANGED <<value, resolving, pendingList, onResolve, onReject, handled,
                 lent, immediates, calls, emitted, subscribers, told>>

CallResolve(p, v) ==
  /\ UserCode /\ p \in held
  /\ Resolve(p, v, calls)
  /\ UNCHANGED <<held, emitted, told>>

\* Also the executor that throws.
CallReject(p, v) ==
  /\ UserCode /\ p \in held
  /\ resolving[p] => LateReject
  /\ Reject(p, v, calls)
  /\ NoResolution
  /\ UNCHANGED <<held, emitted, told>>

CallThen(p, c, f, r) ==
  /\ UserCode /\ p \in Created /\ c \in Free
  /\ Subscribe(p, c, f, r)
  /\ state' = [state EXCEPT ![c] = "pending"]
  /\ UNCHANGED <<value, resolving, held, lent, calls, emitted, told>>

\* A foreign thenable answers once, with the resolver or the rejecter.  (Next
\* bounds its answers: never another foreign thenable, which could go on for
\* ever.)
ForeignResolve(p, v) ==
  /\ UserCode /\ p \in lent
  /\ ResolvedValue(p, v, resolving[p], calls)
  /\ UNCHANGED <<held, emitted, told>>

ForeignReject(p, v) ==
  /\ UserCode /\ p \in lent
  /\ Reject(p, v, calls)
  /\ lent' = lent \ {p}
  /\ NoSubscription
  /\ UNCHANGED <<resolving, held, emitted, told>>

ForeignReturn ==
  /\ calls # << >> /\ Head(calls).op = "calling"
  /\ Ignore(Tail(calls))
  /\ NoResolution
  /\ UNCHANGED <<held, emitted, told>>

\* The function given to then() returns v, or throws v: a falsy v is taken
\* for no error at all.
HandlerReturn(v) ==
  /\ calls # << >> /\ Head(calls).op = "handler"
  /\ Resolve(Head(calls).on, v, Tail(calls))
  /\ UNCHANGED <<held, emitted, told>>

HandlerThrow(v) ==
  /\ calls # << >> /\ Head(calls).op = "handler"
  /\ \/ /\ v \notin Falsy
        /\ Reject(Head(calls).on, v, Tail(calls))
        /\ NoResolution
     \/ /\ v \in Falsy
        /\ Resolve(Head(calls).on, Undefined, Tail(calls))
  /\ UNCHANGED <<held, emitted, told>>

-----------------------------------------------------------------------------
(***************************************************************************)
(* The library's own steps.                                                *)
(***************************************************************************)

\* adoptState(promise), up to the return of the hook.
AdoptState ==
  /\ calls # << >> /\ Head(calls).op = "adopt"
  /\ LET c    == Head(calls).on
         p    == Head(calls).from
         hook == IF state[p] = "fulfilled" THEN onResolve[c] ELSE onReject[c]
         back == <<Entry("reply", c, c)>> \o Tail(calls)
     IN  /\ told' = [told EXCEPT ![p] = Append(@, c)]
         /\ \/ /\ hook = None /\ state[p] = "fulfilled"
               /\ Resolve(c, value[p], Tail(calls))
            \/ /\ hook = None /\ state[p] # "fulfilled"
               /\ Reject(c, value[p], Tail(calls))
               /\ NoResolution
            \/ /\ hook = User
               /\ Ignore(<<Entry("handler", c, p)>> \o Tail(calls))
               /\ NoResolution
            \/ /\ hook \in Promises /\ state[p] = "fulfilled"
               /\ ResolvedValue(hook, value[p], resolving[hook], back)
            \/ /\ hook \in Promises /\ state[p] # "fulfilled"
               /\ Reject(hook, value[p], back)
               /\ NoResolution
  /\ UNCHANGED <<held, emitted>>

\* A resolver or a rejecter returns undefined to adoptState.
Reply ==
  /\ calls # << >> /\ Head(calls).op = "reply"
  /\ Resolve(Head(calls).on, Undefined, Tail(calls))
  /\ UNCHANGED <<held, emitted, told>>

\* Fault: the report is scheduled by clean() whatever the outcome.
CleanedReports ==
  /\ calls # << >> /\ Head(calls).op \in Settled
  /\ LET p == Head(calls).on
     IN  /\ pendingList' = [pendingList EXCEPT ![p] = << >>]
         /\ immediates' = IF handled[p] THEN immediates
                          ELSE Append(immediates, Entry("unhandled", p, p))
  /\ calls' = Tail(calls)
  /\ UNCHANGED <<state, value, resolving, onResolve, onReject, handled, held,
                 lent, emitted, subscribers, told>>

\* Fault: the report is forgotten.
CleanedSilently ==
  /\ calls # << >> /\ Head(calls).op \in Settled
  /\ pendingList' = [pendingList EXCEPT ![Head(calls).on] = << >>]
  /\ calls' = Tail(calls)
  /\ UNCHANGED <<state, value, resolving, onResolve, onReject, handled, held,
                 lent, immediates, emitted, subscribers, told>>

\* The end of clean(), and in onRejected the setImmediate of the report.
Cleaned ==
  /\ calls # << >> /\ Head(calls).op \in Settled
  /\ LET p == Head(calls).on
     IN  /\ pendingList' = [pendingList EXCEPT ![p] = << >>]
         /\ \/ /\ Head(calls).op = "rejected" /\ ~handled[p]
               /\ immediates' = Append(immediates, Entry("unhandled", p, p))
            \/ /\ Head(calls).op = "fulfilled" \/ handled[p]
               /\ UNCHANGED immediates
  /\ calls' = Tail(calls)
  /\ UNCHANGED <<state, value, resolving, onResolve, onReject, handled, held,
                 lent, emitted, subscribers, told>>

\* The event loop takes the next setImmediate callback.
RunImmediate ==
  /\ calls = << >> /\ immediates # << >>
  /\ immediates' = Tail(immediates)
  /\ LET e == Head(immediates)
     IN  \/ /\ e.op = "adopt"
            /\ calls' = <<e>>
            /\ UNCHANGED emitted
         \/ /\ e.op = "unhandled"
            /\ emitted' = IF handled[e.on] THEN emitted ELSE emitted \cup {e.on}
            /\ UNCHANGED calls
  /\ UNCHANGED <<state, value, resolving, pendingList, onResolve, onReject,
                 handled, held, lent, subscribers, told>>

Next ==
  \/ \E p \in Promises : New(p)
  \/ \E p \in Promises, v \in Results : CallResolve(p, v)
  \/ \E p \in Promises, v \in Reasons : CallReject(p, v)
  \/ \E p, c \in Promises, h \in HookPairs : CallThen(p, c, h[1], h[2])
  \/ \E p \in Promises, v \in Results \ Foreign : ForeignResolve(p, v)
  \/ \E p \in Promises, v \in Reasons : ForeignReject(p, v)
  \/ ForeignReturn
  \/ \E v \in Results : HandlerReturn(v)
  \/ \E v \in Reasons : HandlerThrow(v)
  \/ AdoptState
  \/ Reply
  \/ Cleaned
  \/ RunImmediate

Spec == Init /\ [][Next]_vars

(***************************************************************************)
(* The thread runs what is on its stack and the event loop its queue; the  *)
(* functions given to then() return.  No fairness for the other calls of   *)
(* user code: nothing obliges it to settle a promise.                      *)
(***************************************************************************)
Fairness ==
  /\ WF_vars(AdoptState) /\ WF_vars(Reply) /\ WF_vars(Cleaned)
  /\ WF_vars(RunImmediate) /\ WF_vars(ForeignReturn)
  /\ WF_vars(\E v \in Plain : HandlerReturn(v))

FairSpec == Spec /\ Fairness

-----------------------------------------------------------------------------
\* A fulfilled promise never holds a thenable: the test for one
\* (resolvedValueResolver) is on every way to that state, however many
\* promises the value went through.
FulfilledWithPlain ==
  \A p \in Promises : state[p] = "fulfilled" => value[p] \in Plain

\* The clean() of p is on the call stack s.
BeingCleaned(s, p) == \E i \in 1..Len(s) : s[i].op \in Settled /\ s[i].on = p

\* Nobody is left in the list of a settled promise: then() uses another way
\* as soon as the state has changed, and the clean() that empties the list is
\* still on the stack when anybody is in it.
NobodyLeftBehind ==
  \A p \in Promises :
    state[p] \in Settled /\ pendingList[p] # << >> => BeingCleaned(calls, p)

\* 'unhandledRejection' is only ever emitted for a rejected promise, and
\* a promise that somebody subscribed to before its turn came is not reported.
ReportsAreRejections ==
  [][\A p \in emitted' \ emitted : state[p] = "rejected" /\ subscribers[p] = << >>]_vars

\* Whatever user code does, what is fulfilled stays so.
FulfilledIsFinal ==
  [][\A p \in Promises :
       state[p] = "fulfilled" => state'[p] = state[p] /\ value'[p] = value[p]]_vars

\* A rejection is either noticed by a subscriber or reported.
RejectionsSurface ==
  \A p \in Promises :
    state[p] = "rejected" ~> handled[p] \/ p \in emitted

-----------------------------------------------------------------------------
\* The promises of the code are those of PromiseContract: the outcome never
\* changes, and every subscriber is told it, once, in order.
Contract ==
  INSTANCE PromiseContract WITH
    outcome <- [p \in Promises |->
                  IF state[p] \in Settled THEN <<state[p], value[p]>> ELSE << >>]

\* The code keeps the contract, when nobody rejects what he has resolved.
Implements == Contract!Spec

\* Whoever subscribed to a promise that is settled is eventually told, whether
\* he waits in pendingList or in the queue of setImmediate.
Delivers == Contract!Delivery
=============================================================================
