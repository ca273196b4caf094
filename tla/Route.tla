------------------------------- MODULE Route -------------------------------
(***************************************************************************)
(* Promise.route (node_modules/promise/route.js): the functions of a list  *)
(* are tried one after the other.  A function of two parameters is only    *)
(* called after a rejection, another one only when there is none; the      *)
(* first value that is not null ends the route.                            *)
(*                                                                         *)
(* A value or a reason is known by the function that made it: i stands for *)
(* whatever function i resolves with or throws, and Null for null and      *)
(* undefined, which the code treats alike.                                 *)
(***************************************************************************)
EXTENDS Naturals, Sequences, FiniteSetsExt

CONSTANT N  \* how many functions there are

ASSUME NAssumption == N \in Nat

VARIABLES
  takesError, \* the functions of two parameters (fn.length)
  next,       \* how many functions the iterator has delivered
  rejected,   \* the last function called has rejected
  value,      \* the last value or reason
  running,    \* the function called and not settled, Null when there is none
  called,     \* the setImmediate of initialPromise.then(fn) has run
  outcome,    \* of the promise that route returns
  log         \* history: the calls that are over

routeVars == <<takesError, next, rejected, value, running, called, outcome, log>>

Null     == 0
Fns      == 1..N
Reasons  == 0..N
Outcomes == [how : {"idle", "pending", "resolved", "rejected"}, what : Reasons]
Outcome(how, what) == [how |-> how, what |-> what]
Calls    == [fn : Fns, given : Reasons, how : {"resolved", "rejected"},
             what : Reasons]

RouteTypeOK ==
  /\ takesError \subseteq Fns
  /\ next \in 0..N /\ running \in 0..next
  /\ rejected \in BOOLEAN /\ called \in BOOLEAN
  /\ value \in Reasons
  /\ outcome \in Outcomes
  /\ log \in Seq(Calls)

RouteInit ==
  /\ takesError \in SUBSET Fns
  /\ next = 0 /\ running = Null /\ called = FALSE
  /\ rejected = FALSE /\ value = Null
  /\ outcome = Outcome("idle", Null)
  /\ log = << >>

\* Fault: every function still in the iterator will do.
FittingAny(rej) == (next + 1)..N

\* The functions still in the iterator that fit the state of the route.
Fitting(rej) == {i \in (next + 1)..N : i \in takesError <=> rej}

\* nextPromise(): what does not fit is passed over.
NextPromise(rej, v) ==
  \/ /\ Fitting(rej) = {}
     /\ next' = N /\ running' = Null
     /\ outcome' = Outcome(IF rej THEN "rejected" ELSE "resolved", v)
  \/ /\ Fitting(rej) # {}
     /\ next' = Min(Fitting(rej)) /\ running' = next'
     /\ outcome' = Outcome("pending", Null)

\* Promise.route(functions, bind, initialValue)
Start ==
  /\ outcome.how = "idle"
  /\ NextPromise(rejected, value)
  /\ UNCHANGED <<takesError, rejected, value, called, log>>

\* initialPromise is settled: then(fn) calls fn from setImmediate.
CallFunction ==
  /\ running # Null /\ ~called
  /\ called' = TRUE
  /\ UNCHANGED <<takesError, next, rejected, value, running, outcome, log>>

\* What a function is called with, besides the initial value.
Given == IF rejected THEN value ELSE Null

Settles(how, v) ==
  /\ running # Null /\ called
  /\ called' = FALSE
  /\ log' = Append(log, [fn |-> running, given |-> Given, how |-> how, what |-> v])
  /\ value' = v
  /\ UNCHANGED takesError

\* Fault: a function that recovers does not clear the rejection.
StayRejected(v) ==
  /\ Settles("resolved", v)
  /\ UNCHANGED rejected
  /\ \/ /\ v # Null
        /\ outcome' = Outcome("resolved", v)
        /\ running' = Null
        /\ UNCHANGED next
     \/ /\ v = Null
        /\ NextPromise(rejected, Null)

\* The function fulfils its promise: null leaves its turn to the next one.
FunctionResolves(v) ==
  /\ Settles("resolved", v)
  /\ rejected' = FALSE
  /\ \/ /\ v # Null
        /\ outcome' = Outcome("resolved", v)
        /\ running' = Null
        /\ UNCHANGED next
     \/ /\ v = Null
        /\ NextPromise(FALSE, Null)

\* Fault: a rejection does not go on with the next function.
RejectsAndStops(v) ==
  /\ Settles("rejected", v)
  /\ rejected' = TRUE
  /\ running' = Null
  /\ UNCHANGED <<next, outcome>>

\* The function throws, or rejects its promise.
FunctionRejects(v) ==
  /\ Settles("rejected", v)
  /\ rejected' = TRUE
  /\ NextPromise(TRUE, v)

\* A function resolves with its own value or with null, and rejects with its
\* own reason, with the one it was given, or with undefined.
FunctionSettles ==
  \/ \E v \in {Null, running} : FunctionResolves(v)
  \/ \E v \in {Null, running, Given} : FunctionRejects(v)

-----------------------------------------------------------------------------
\* The function of the i-th call, 0 before the first.
EndOf(i) == IF i = 0 THEN 0 ELSE log[i].fn

\* Nobody is called out of turn: a function is called after a rejection if and
\* only if it takes an error, it is then given the reason of the call before,
\* and those passed over on the way to it could not have been called.
InTurn ==
  \A k \in 1..Len(log) :
    LET failed == k > 1 /\ log[k - 1].how = "rejected"
    IN  /\ log[k].fn \in takesError <=> failed
        /\ log[k].given = IF failed THEN log[k - 1].what ELSE Null
        /\ \A i \in (EndOf(k - 1) + 1)..(log[k].fn - 1) : i \in takesError <=> ~failed

\* The outcome is that of the last call, nothing before it was a value, and
\* when it is not a value nobody was left to ask.
EndsWithLastCall ==
  outcome.how \in {"resolved", "rejected"} =>
    /\ IF log = << >> THEN outcome = Outcome("resolved", Null)
       ELSE outcome = Outcome(log[Len(log)].how, log[Len(log)].what)
    /\ \A k \in 1..(Len(log) - 1) : log[k].how = "resolved" => log[k].what = Null
    /\ outcome.how = "rejected" \/ outcome.what = Null =>
         \A i \in (EndOf(Len(log)) + 1)..N :
           i \in takesError <=> outcome.how = "resolved"
=============================================================================
