-------------------------- MODULE PromiseContract --------------------------
(***************************************************************************)
(* What node_modules/promise/index.js promises to those who call then(),   *)
(* without the call stack, the queue of setImmediate and the waiting lists *)
(* it is made of: a promise has one outcome for ever, and tells it to each *)
(* of its subscribers once, in the order they came.                        *)
(***************************************************************************)
EXTENDS Naturals, Sequences

CONSTANT Promises

VARIABLES
  outcome,     \* << >> until the promise is settled, then its state and value
  subscribers, \* who called then() on the promise, in order
  told         \* the subscribers that were started with the outcome, in order

Init ==
  /\ outcome = [p \in Promises |-> << >>]
  /\ subscribers = [p \in Promises |-> << >>]
  /\ told = [p \in Promises |-> << >>]

\* resolve(), reject()
Settle ==
  \E p \in Promises :
    /\ outcome[p] = << >>
    /\ outcome' = [outcome EXCEPT ![p] = outcome'[p]]

\* then(): a new subscriber, last in the line
Subscribe ==
  \E p, c \in Promises :
    /\ \A q \in Promises : \A i \in 1..Len(subscribers[q]) : subscribers[q][i] # c
    /\ subscribers' = [subscribers EXCEPT ![p] = Append(@, c)]

\* adoptState(): the next subscriber of a settled promise learns the outcome
Tell ==
  \E p \in Promises :
    /\ outcome[p] # << >>
    /\ Len(told[p]) < Len(subscribers[p])
    /\ told' = [told EXCEPT ![p] = Append(@, subscribers[p][Len(@) + 1])]

\* One call of the code may do several of these at once: the three variables
\* are specified one by one.
Spec == Init /\ [][Settle]_outcome /\ [][Subscribe]_subscribers /\ [][Tell]_told

\* Nobody who subscribed to a settled promise waits for ever.
Delivery ==
  \A p \in Promises :
    outcome[p] # << >> ~> Len(told[p]) >= Len(subscribers[p])
=============================================================================
