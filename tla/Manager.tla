------------------------------ MODULE Manager ------------------------------
(***************************************************************************)
(* The two sides of the channel between the old server and the process it  *)
(* runs (app/server/vrac/manager.js is both): one side demands an action,  *)
(* the other does it and sends the result.  Demands, results and what does *)
(* the actions are listeners of one emitter, under the name of the action; *)
(* there is one action here.                                               *)
(***************************************************************************)
EXTENDS Integers, Sequences

CONSTANTS
  Side, Handlers, \* the two processes, those with a listener that does the action
  MaxDemands      \* bound: calls of demand on a side

ManagerAssumption == \E p, q \in Side : p # q /\ Side = {p, q}

VARIABLES
  sent,     \* [Side -> Seq of messages]: on their way from a side
  callbacks,\* [Side -> number]: of the demands that are waiting
  doing,    \* [Side -> number]: actions under way on a side
  demands, answers \* [Side -> number] of demands made, of callbacks called

vars == <<sent, callbacks, doing, demands, answers>>

Init ==
  /\ sent = [p \in Side |-> <<>>]
  /\ callbacks = [p \in Side |-> 0] /\ doing = callbacks
  /\ demands = callbacks /\ answers = callbacks

Other(p) == CHOOSE q \in Side : q # p

\* Mutant: every demand is sent.
running_no(p) == FALSE

\* A listener is there: that of a demand, or the one that does the action.
running(p) == callbacks[p] > 0 \/ p \in Handlers

demand(p) ==
  /\ demands[p] < MaxDemands
  /\ demands' = [demands EXCEPT ![p] = @ + 1]
  /\ callbacks' = [callbacks EXCEPT ![p] = @ + 1]
  /\ sent' = IF running(p) THEN sent ELSE [sent EXCEPT ![p] = Append(@, "action")]
  /\ UNCHANGED <<doing, answers>>

\* emit(action): every callback is called, once, and the listener as well.
emit(p, asked) ==
  /\ callbacks' = [callbacks EXCEPT ![p] = 0]
  /\ answers' = [answers EXCEPT ![p] = @ + callbacks[p]]
  /\ doing' = IF asked /\ p \in Handlers THEN [doing EXCEPT ![p] = @ + 1] ELSE doing

\* onmessage.  An action nobody does is not refused: listeners() is a list,
\* and true when it is empty.  The callbacks that wait on this side are given
\* the function that sends the result.
onmessage(p) ==
  LET q == Other(p)
  IN /\ sent[q] # <<>>
     /\ sent' = [sent EXCEPT ![q] = Tail(@)]
     /\ emit(p, Head(sent[q]) = "action")
     /\ UNCHANGED demands

\* The action ends.  The result of an action that failed has no arguments: the
\* callbacks on the other side cannot tell it from a success without data.
sendResult(p) ==
  /\ doing[p] > 0
  /\ doing' = [doing EXCEPT ![p] = @ - 1]
  /\ sent' = [sent EXCEPT ![p] = Append(@, "result")]
  /\ UNCHANGED <<callbacks, demands, answers>>

Next == \E p \in Side : demand(p) \/ onmessage(p) \/ sendResult(p)

Spec == Init /\ [][Next]_vars

-----------------------------------------------------------------------------
Count(s, kind) == \* the messages of a kind
  LET upTo[i \in 0..Len(s)] == IF i = 0 THEN 0 ELSE upTo[i - 1] + IF s[i] = kind THEN 1 ELSE 0 IN upTo[Len(s)]
UnderWay(p) == Count(sent[p], "action") + doing[Other(p)] + Count(sent[Other(p)], "result")

(* While a side waits for an action that the other one does and it does not,*)
(* exactly one demand or result is under way, however many callbacks wait  *)
(* and whatever the other side demands: none is forgotten or asked twice.  *)
OneAsked ==
  \A p \in Side \ Handlers :
    /\ Other(p) \in Handlers => UnderWay(p) = IF callbacks[p] > 0 THEN 1 ELSE 0
    /\ answers[p] + callbacks[p] = demands[p]
=============================================================================
