------------------------ MODULE RequestHandlerProofs ------------------------
(***************************************************************************)
(* However many middlewares a router has: none is called out of turn, the  *)
(* route ends as its last call did, and the answer is ended once at most.  *)
(***************************************************************************)
EXTENDS RequestHandler, TLAPS, WellFoundedInduction

-----------------------------------------------------------------------------
\* What the variables of the route remember of its calls: nothing before the
\* first, then how the last one ended.
Remembered ==
  /\ rejected <=> Len(log) > 0 /\ log[Len(log)].how = "rejected"
  /\ value = IF Len(log) > 0 THEN log[Len(log)].what ELSE Null

\* Up to the last call no value was found, unless it is the outcome.
NoValueYet ==
  /\ \A k \in 1..(Len(log) - 1) : log[k].how = "resolved" => log[k].what = Null
  /\ outcome.how \notin {"resolved", "rejected"} /\ Len(log) > 0
       /\ log[Len(log)].how = "resolved" => log[Len(log)].what = Null

\* The function that runs is the first that fits behind the last one called.
RunningFits ==
  /\ EndOf(Len(log)) <= next
  /\ outcome.how = "idle" => log = << >> /\ next = 0
  /\ running # Null <=> outcome.how = "pending"
  /\ running # Null =>
       /\ running = next /\ EndOf(Len(log)) < running
       /\ running \in takesError <=> rejected
       /\ \A i \in (EndOf(Len(log)) + 1)..(running - 1) : i \in takesError <=> ~rejected

RouteInv ==
  RouteTypeOK /\ Remembered /\ NoValueYet /\ RunningFits /\ InTurn /\ EndsWithLastCall

\* Who settled handler.promise has ended the answer, and nobody else.
AnswerInv ==
  /\ served \in {<< >>, <<408>>, <<500>>}
  /\ answer = "pending" <=> served = << >>
  /\ NoAnswerLost

-----------------------------------------------------------------------------
\* The minimum of the community modules is one, on sets of naturals.
LEMMA MinOfNats ==
  ASSUME NEW S \in SUBSET Nat, S # {}
  PROVE  Min(S) \in S /\ \A i \in S : Min(S) <= i
<1>1. PICK x \in S : \A y \in S : ~ (<<y, x>> \in OpToRel(<, Nat))
  BY NatLessThanWellFounded, WFMin
<1>2. \A y \in S : ~ (y < x)
  BY <1>1 DEF OpToRel
<1>3. \A y \in S : x <= y
  BY <1>2
<1> QED
  BY <1>3 DEF Min

\* nextPromise() starts the first function that fits, or ends the route when
\* none does.
EndsRoute(rej, v) ==
  /\ next' = N /\ running' = Null
  /\ outcome' = Outcome(IF rej THEN "rejected" ELSE "resolved", v)
  /\ \A i \in (next + 1)..N : i \in takesError <=> ~rej

RunsNext(rej) ==
  /\ running' \in (next + 1)..N /\ next' = running'
  /\ outcome' = Outcome("pending", Null)
  /\ running' \in takesError <=> rej
  /\ \A i \in (next + 1)..(running' - 1) : i \in takesError <=> ~rej

LEMMA NextFits ==
  ASSUME next \in 0..N, NEW rej \in BOOLEAN, NEW v, NextPromise(rej, v)
  PROVE  EndsRoute(rej, v) \/ RunsNext(rej)
<1> USE NAssumption
<1>1. CASE Fitting(rej) = {}
  <2>1. \A i \in (next + 1)..N : ~ (i \in takesError <=> rej)
    BY <1>1, Zenon DEF Fitting
  <2> QED
    BY <1>1, <2>1, Zenon DEF NextPromise, EndsRoute
<1>2. CASE Fitting(rej) # {}
  <2> DEFINE first == Min(Fitting(rej))
  <2>1. Fitting(rej) \in SUBSET Nat
    BY DEF Fitting
  <2>2. first \in Fitting(rej) /\ \A i \in Fitting(rej) : first <= i
    BY <1>2, <2>1, MinOfNats
  <2>3. first \in (next + 1)..N /\ (first \in takesError <=> rej)
    BY <2>2, Zenon DEF Fitting
  <2>4. \A i \in (next + 1)..(first - 1) : i \in takesError <=> ~rej
    <3> SUFFICES ASSUME NEW i \in (next + 1)..(first - 1) PROVE ~ (i \in takesError <=> rej)
      OBVIOUS
    <3>1. i \in (next + 1)..N /\ ~ (first <= i)
      BY <2>3
    <3> QED
      BY <2>2, <3>1, Zenon DEF Fitting
  <2>5. next' = first /\ running' = first /\ outcome' = Outcome("pending", Null)
    BY <1>2, Zenon DEF NextPromise
  <2> QED
    BY <2>3, <2>4, <2>5, Zenon DEF RunsNext
<1> QED
  BY <1>1, <1>2

-----------------------------------------------------------------------------
\* A call that is over: it comes last in the log, in its turn, and no value was
\* found before it.
LEMMA CallIsOver ==
  ASSUME RouteInv, NEW how \in {"resolved", "rejected"}, NEW v \in Reasons, Settles(how, v)
  PROVE  /\ log' \in Seq(Calls) /\ Len(log') = Len(log) + 1
         /\ \A k \in 1..Len(log) : log'[k] = log[k]
         /\ log'[Len(log')] = [fn |-> running, given |-> Given, how |-> how, what |-> v]
         /\ \A k \in 1..Len(log) : log[k].how = "resolved" => log[k].what = Null
         /\ running = next /\ running \in Fns
         /\ InTurn'
<1> DEFINE call == [fn |-> running, given |-> Given, how |-> how, what |-> v]
<1>1. /\ log \in Seq(Calls) /\ next \in 0..N /\ value \in Reasons
      /\ running # Null /\ log' = Append(log, call)
      /\ outcome.how = "pending"
  BY Zenon DEF RouteInv, RouteTypeOK, RunningFits, Settles
<1>2. /\ running = next /\ EndOf(Len(log)) < running
      /\ running \in takesError <=> rejected
      /\ \A i \in (EndOf(Len(log)) + 1)..(running - 1) : i \in takesError <=> ~rejected
  BY <1>1, Zenon DEF RouteInv, RunningFits
<1>3. running \in Fns
  BY <1>1, <1>2, NAssumption DEF Null, Fns
<1>4. Given \in Reasons
  BY <1>1, NAssumption DEF Given, Null, Reasons
<1>5. call \in Calls
  BY <1>3, <1>4 DEF Calls
<1>6. log' \in Seq(Calls) /\ Len(log') = Len(log) + 1
  BY <1>1, <1>5
<1>7. \A k \in 1..Len(log) : log'[k] = log[k]
  BY <1>1, <1>5
<1>8. log'[Len(log')] = call
  BY <1>1, <1>5, <1>6
<1>9. \A k \in 1..Len(log) : log[k].how = "resolved" => log[k].what = Null
  <2>1. \A k \in 1..(Len(log) - 1) : log[k].how = "resolved" => log[k].what = Null
    BY Zenon DEF RouteInv, NoValueYet
  <2>2. Len(log) > 0 /\ log[Len(log)].how = "resolved" => log[Len(log)].what = Null
    BY <1>1 DEF RouteInv, NoValueYet
  <2> QED
    BY <1>1, <2>1, <2>2
<1>10. InTurn'
  <2> SUFFICES ASSUME NEW k \in 1..Len(log')
               PROVE  LET failed == k > 1 /\ log'[k - 1].how = "rejected"
                      IN  /\ log'[k].fn \in takesError <=> failed
                          /\ log'[k].given = IF failed THEN log'[k - 1].what ELSE Null
                          /\ \A i \in (EndOf(k - 1)' + 1)..(log'[k].fn - 1) :
                               i \in takesError <=> ~failed
    <3>1. takesError' = takesError
      BY DEF Settles
    <3> QED
      BY <3>1, Zenon DEF InTurn
  <2>1. Len(log) \in Nat
    BY <1>1
  <2>2. EndOf(k - 1)' = EndOf(k - 1)
    <3>1. CASE k = 1
      BY <3>1 DEF EndOf
    <3>2. CASE k # 1
      BY <3>2, <1>6, <1>7, <2>1 DEF EndOf
    <3> QED
      BY <3>1, <3>2
  <2>3. CASE k \in 1..Len(log)
    <3>1. log'[k] = log[k] /\ (k > 1 => log'[k - 1] = log[k - 1])
      BY <2>1, <2>3, <1>7
    <3> QED
      BY <2>2, <2>3, <3>1 DEF RouteInv, InTurn
  <2>4. CASE k = Len(log')
    <3>1. k - 1 = Len(log) /\ log'[k] = call
      BY <2>4, <2>1, <1>6, <1>8
    <3>2. k > 1 => log'[k - 1] = log[Len(log)]
      BY <3>1, <2>1, <1>7
    <3>3. rejected <=> k > 1 /\ log'[k - 1].how = "rejected"
      BY <3>1, <3>2, <2>1 DEF RouteInv, Remembered
    <3>4. k > 1 => value = log'[k - 1].what
      BY <3>1, <3>2, <2>1 DEF RouteInv, Remembered
    <3> QED
      BY <1>2, <2>2, <3>1, <3>3, <3>4 DEF Given
  <2> QED
    BY <1>6, <2>1, <2>3, <2>4
<1> QED
  BY <1>2, <1>3, <1>6, <1>7, <1>8, <1>9, <1>10

\* After a call that found no value, the route goes on and its invariant holds.
LEMMA RouteGoesOn ==
  ASSUME RouteInv, NEW how \in {"resolved", "rejected"}, NEW v \in Reasons, Settles(how, v),
         how = "resolved" => v = Null,
         NEW rej \in BOOLEAN, rej <=> how = "rejected", rejected' = rej, NextPromise(rej, v)
  PROVE  RouteInv'
<1> USE NAssumption
<1>1. /\ log' \in Seq(Calls) /\ Len(log') = Len(log) + 1
      /\ \A k \in 1..Len(log) : log'[k] = log[k]
      /\ log'[Len(log')] = [fn |-> running, given |-> Given, how |-> how, what |-> v]
      /\ \A k \in 1..Len(log) : log[k].how = "resolved" => log[k].what = Null
      /\ running = next /\ running \in Fns
      /\ InTurn'
  BY CallIsOver
<1>2. takesError' = takesError /\ called' = FALSE /\ value' = v
  BY DEF Settles
<1>3. Len(log) \in Nat /\ next \in 0..N /\ takesError \subseteq Fns
  BY DEF RouteInv, RouteTypeOK
<1>4. EndsRoute(rej, v) \/ RunsNext(rej)
  BY <1>3, NextFits
<1>5. /\ Len(log') > 0 /\ log'[Len(log')].fn = running
      /\ log'[Len(log')].how = how /\ log'[Len(log')].what = v
  BY <1>1, <1>3
<1>6. EndOf(Len(log))' = next
  BY <1>1, <1>5 DEF EndOf
<1>7. Remembered'
  BY <1>2, <1>5 DEF Remembered
<1>8. NoValueYet'
  BY <1>1, <1>3, <1>5 DEF NoValueYet
<1>9. CASE EndsRoute(rej, v)
  <2>1. /\ next' = N /\ running' = Null
        /\ outcome'.how = how /\ outcome'.what = v
        /\ outcome' = Outcome(how, v)
    BY <1>9 DEF EndsRoute, Outcome
  <2>2. RouteTypeOK'
    <3>1. outcome' \in Outcomes
      BY <2>1 DEF Outcomes, Outcome
    <3>2. rejected' \in BOOLEAN /\ called' \in BOOLEAN
      BY <1>2, Zenon
    <3> QED
      BY <1>1, <1>2, <1>3, <2>1, <3>1, <3>2 DEF RouteTypeOK, Null
  <2>3. RunningFits'
    BY <1>3, <1>6, <2>1 DEF RunningFits
  <2>4. \A i \in (next + 1)..N : i \in takesError <=> how = "resolved"
    BY <1>9, Zenon DEF EndsRoute
  <2>5. EndsWithLastCall'
    BY <1>1, <1>2, <1>5, <1>6, <2>1, <2>4 DEF EndsWithLastCall
  <2> QED
    BY <1>1, <1>7, <1>8, <2>2, <2>3, <2>5 DEF RouteInv
<1>10. CASE RunsNext(rej)
  <2>1. /\ running' \in (next + 1)..N /\ next' = running'
        /\ outcome'.how = "pending" /\ outcome' = Outcome("pending", Null)
        /\ running' # Null
    BY <1>3, <1>10 DEF RunsNext, Outcome, Null
  <2>2. RouteTypeOK'
    <3>1. outcome' \in Outcomes
      BY <2>1 DEF Outcomes, Outcome, Null, Reasons
    <3>2. rejected' \in BOOLEAN /\ called' \in BOOLEAN
      BY <1>2, Zenon
    <3> QED
      BY <1>1, <1>2, <1>3, <2>1, <3>1, <3>2 DEF RouteTypeOK
  <2>3. RunningFits'
    <3>1. /\ running' \in takesError' <=> rejected'
          /\ \A i \in (next + 1)..(running' - 1) : i \in takesError' <=> ~rejected'
      BY <1>2, <1>10, Zenon DEF RunsNext
    <3>2. next <= next' /\ next < running'
      BY <1>3, <2>1
    <3>3. outcome'.how # "idle"
      BY <2>1
    <3> QED
      BY <1>6, <2>1, <3>1, <3>2, <3>3, Zenon DEF RunningFits
  <2>4. EndsWithLastCall'
    BY <2>1 DEF EndsWithLastCall
  <2> QED
    BY <1>1, <1>7, <1>8, <2>2, <2>3, <2>4 DEF RouteInv
<1> QED
  BY <1>4, <1>9, <1>10

\* A value ends the route: nextPromise is not called.
LEMMA ValueEndsRoute ==
  ASSUME RouteInv, NEW v \in Reasons, v # Null, Settles("resolved", v),
         rejected' = FALSE, outcome' = Outcome("resolved", v), running' = Null,
         next' = next
  PROVE  RouteInv'
<1> USE NAssumption
<1>1. /\ log' \in Seq(Calls) /\ Len(log') = Len(log) + 1
      /\ \A k \in 1..Len(log) : log'[k] = log[k]
      /\ log'[Len(log')] = [fn |-> running, given |-> Given, how |-> "resolved", what |-> v]
      /\ \A k \in 1..Len(log) : log[k].how = "resolved" => log[k].what = Null
      /\ running = next /\ running \in Fns
      /\ InTurn'
  BY CallIsOver
<1>2. takesError' = takesError /\ called' = FALSE /\ value' = v
  BY DEF Settles
<1>3. Len(log) \in Nat /\ next \in 0..N /\ takesError \subseteq Fns
  BY DEF RouteInv, RouteTypeOK
<1>4. /\ Len(log') > 0 /\ log'[Len(log')].fn = running
      /\ log'[Len(log')].how = "resolved" /\ log'[Len(log')].what = v
  BY <1>1, <1>3
<1>5. EndOf(Len(log))' = next
  BY <1>1, <1>4 DEF EndOf
<1>6. outcome'.how = "resolved" /\ outcome'.what = v
  BY DEF Outcome
<1>7. Remembered'
  BY <1>2, <1>4 DEF Remembered
<1>8. NoValueYet'
  BY <1>1, <1>3, <1>6 DEF NoValueYet
<1>9. RouteTypeOK'
  <2>1. outcome' \in Outcomes
    BY DEF Outcomes, Outcome
  <2>2. rejected' \in BOOLEAN /\ called' \in BOOLEAN
    BY <1>2, Zenon
  <2> QED
    BY <1>1, <1>2, <1>3, <2>1, <2>2 DEF RouteTypeOK, Null
<1>10. RunningFits'
  BY <1>3, <1>5, <1>6 DEF RunningFits
<1>11. EndsWithLastCall'
  BY <1>1, <1>3, <1>4, <1>6 DEF EndsWithLastCall
<1> QED
  BY <1>1, <1>7, <1>8, <1>9, <1>10, <1>11 DEF RouteInv

\* Promise.route is called.
LEMMA RouteStarts ==
  ASSUME RouteInv, Start
  PROVE  RouteInv'
<1> USE NAssumption
<1>1. /\ outcome.how = "idle" /\ NextPromise(rejected, value)
      /\ UNCHANGED <<takesError, rejected, value, called, log>>
  BY DEF Start
<1>2. /\ log = << >> /\ next = 0 /\ Len(log) = 0 /\ EndOf(Len(log)) = 0
      /\ ~rejected /\ value = Null
  BY <1>1 DEF RouteInv, RunningFits, Remembered, EndOf
<1>3. RouteTypeOK /\ rejected \in BOOLEAN
  BY DEF RouteInv, RouteTypeOK
<1>4. EndsRoute(rejected, value) \/ RunsNext(rejected)
  BY <1>1, <1>2, <1>3, NextFits
<1>5. EndOf(Len(log))' = 0
  BY <1>1, <1>2 DEF EndOf
<1>6. Remembered' /\ InTurn' /\ NoValueYet'
  BY <1>1, <1>2 DEF Remembered, InTurn, NoValueYet
<1>7. CASE EndsRoute(rejected, value)
  <2>1. /\ next' = N /\ running' = Null /\ outcome' = Outcome("resolved", Null)
        /\ outcome'.how = "resolved" /\ outcome'.what = Null
    BY <1>2, <1>7 DEF EndsRoute, Outcome
  <2>2. \A i \in 1..N : i \in takesError
    BY <1>2, <1>7 DEF EndsRoute
  <2>3. RouteTypeOK'
    <3>1. outcome' \in Outcomes
      BY <2>1 DEF Outcomes, Outcome, Null, Reasons
    <3> QED
      BY <1>1, <1>3, <2>1, <3>1 DEF RouteTypeOK, Null
  <2>4. RunningFits'
    BY <1>5, <2>1 DEF RunningFits
  <2>5. EndsWithLastCall'
    BY <1>1, <1>2, <1>5, <2>1, <2>2 DEF EndsWithLastCall
  <2> QED
    BY <1>6, <2>3, <2>4, <2>5 DEF RouteInv
<1>8. CASE RunsNext(rejected)
  <2>1. /\ running' \in 1..N /\ next' = running' /\ running' # Null
        /\ outcome' = Outcome("pending", Null) /\ outcome'.how = "pending"
    BY <1>2, <1>8 DEF RunsNext, Outcome, Null
  <2>2. /\ running' \in takesError' <=> rejected'
        /\ \A i \in (0 + 1)..(running' - 1) : i \in takesError' <=> ~rejected'
    BY <1>1, <1>2, <1>8, Zenon DEF RunsNext
  <2>3. RouteTypeOK'
    <3>1. outcome' \in Outcomes
      BY <2>1 DEF Outcomes, Outcome, Null, Reasons
    <3> QED
      BY <1>1, <1>3, <2>1, <3>1 DEF RouteTypeOK
  <2>4. RunningFits'
    <3>1. 0 <= next' /\ 0 < running' /\ outcome'.how # "idle"
      BY <2>1
    <3> QED
      BY <1>5, <2>1, <2>2, <3>1, Zenon DEF RunningFits
  <2>5. EndsWithLastCall'
    BY <2>1 DEF EndsWithLastCall
  <2> QED
    BY <1>6, <2>3, <2>4, <2>5 DEF RouteInv
<1> QED
  BY <1>4, <1>7, <1>8

\* The invariant of the route, along every step of the handler.
LEMMA RouteInitially == Init => RouteInv
<1> SUFFICES ASSUME Init PROVE RouteInv
  OBVIOUS
<1> USE NAssumption
<1>1. /\ takesError \in SUBSET Fns /\ next = 0 /\ running = Null /\ log = << >>
      /\ value = Null /\ outcome = Outcome("idle", Null) /\ outcome.how = "idle"
      /\ ~rejected /\ rejected \in BOOLEAN /\ called \in BOOLEAN
  BY DEF Init, RouteInit, Outcome
<1>2. RouteTypeOK
  <2>1. outcome \in Outcomes
    BY <1>1 DEF Outcomes, Outcome, Null, Reasons
  <2> QED
    BY <1>1, <2>1 DEF RouteTypeOK, Null, Reasons
<1>3. EndOf(Len(log)) = 0
  BY <1>1 DEF EndOf
<1> QED
  BY <1>1, <1>2, <1>3
  DEF RouteInv, Remembered, NoValueYet, RunningFits, InTurn, EndsWithLastCall, Null

LEMMA RoutePreserved == RouteInv /\ [Next]_vars => RouteInv'
<1> SUFFICES ASSUME RouteInv, [Next]_vars PROVE RouteInv'
  OBVIOUS
<1>1. CASE Start
  BY <1>1, RouteStarts
<1>2. CASE CallFunction
  <2>1. called' = TRUE /\ UNCHANGED <<takesError, next, rejected, value, running, outcome, log>>
    BY <1>2 DEF CallFunction
  <2>2. called' \in BOOLEAN
    BY <2>1, Zenon
  <2> QED
    BY <2>1, <2>2 DEF RouteInv, RouteTypeOK, Remembered, NoValueYet, RunningFits, InTurn,
      EndsWithLastCall, EndOf
<1>3. ASSUME NEW v \in {Null, running}, FunctionResolves(v) PROVE RouteInv'
  <2>1. v \in Reasons
    BY NAssumption DEF RouteInv, RouteTypeOK, Null, Reasons
  <2>2. Settles("resolved", v) /\ rejected' = FALSE
    BY <1>3 DEF FunctionResolves
  <2>3. CASE v # Null
    BY <2>1, <2>2, <2>3, <1>3, ValueEndsRoute DEF FunctionResolves
  <2>4. CASE v = Null
    <3>1. NextPromise(FALSE, v)
      BY <1>3, <2>4 DEF FunctionResolves
    <3> QED
      BY <2>1, <2>2, <2>4, <3>1, RouteGoesOn
  <2> QED
    BY <2>3, <2>4
<1>4. ASSUME NEW v \in {Null, running, Given}, FunctionRejects(v) PROVE RouteInv'
  <2>1. v \in Reasons
    BY NAssumption DEF RouteInv, RouteTypeOK, Null, Reasons, Given
  <2>2. Settles("rejected", v) /\ rejected' = TRUE /\ NextPromise(TRUE, v)
    BY <1>4 DEF FunctionRejects
  <2> QED
    BY <2>1, <2>2, RouteGoesOn
<1>5. CASE UNCHANGED routeVars
  <2>1. UNCHANGED <<takesError, next, rejected, value, running, called, outcome, log>>
    BY <1>5 DEF routeVars
  <2> QED
    BY <2>1 DEF RouteInv, RouteTypeOK, Remembered, NoValueYet, RunningFits, InTurn,
      EndsWithLastCall, EndOf
<1>6. CASE Next
  <2>1. \/ RequestReady \/ RequestFails \/ ConsumeBody \/ CallMiddleware
        \/ MiddlewareSettles \/ PageRead \/ TimeoutFires
    BY <1>6 DEF Next
  <2>2. RequestReady => Start
    BY DEF RequestReady
  <2>3. CallMiddleware => CallFunction
    BY DEF CallMiddleware
  <2>4. MiddlewareSettles => FunctionSettles
    BY DEF MiddlewareSettles
  <2>5. RequestFails \/ ConsumeBody \/ PageRead \/ TimeoutFires => UNCHANGED routeVars
    BY DEF RequestFails, ConsumeBody, PageRead, TimeoutFires
  <2> QED
    BY <2>1, <2>2, <2>3, <2>4, <2>5, <1>1, <1>2, <1>3, <1>4, <1>5 DEF FunctionSettles
<1>7. CASE UNCHANGED vars
  BY <1>5, <1>7 DEF vars
<1> QED
  BY <1>6, <1>7

\* What is written on an answer that nobody has ended yet.
LEMMA FirstStatus ==
  /\ Append(<< >>, 408) = <<408>> /\ Append(<< >>, 500) = <<500>>
  /\ << >> # <<408>> /\ << >> # <<500>> /\ <<408>> # <<500>>
<1>1. <<408>>[1] = 408 /\ <<500>>[1] = 500
  OBVIOUS
<1>2. Len(<< >>) = 0 /\ Len(<<408>>) = 1 /\ Len(<<500>>) = 1
  OBVIOUS
<1>3. Append(<< >>, 408) = <<408>> /\ Append(<< >>, 500) = <<500>>
  OBVIOUS
<1> QED
  BY <1>1, <1>2, <1>3

\* The answer, along every step of the handler.
LEMMA AnswerPreserved == AnswerInv /\ [Next]_vars => AnswerInv'
<1> SUFFICES ASSUME AnswerInv, [Next]_vars PROVE AnswerInv'
  OBVIOUS
<1>1. CASE ResponseRejects /\ timer' = timer
  <2>1. \/ answer = "pending" /\ answer' = "rejected" /\ served' = Append(served, 500)
        \/ answer # "pending" /\ UNCHANGED <<answer, served>>
    BY <1>1 DEF ResponseRejects, Answers
  <2>2. CASE answer = "pending"
    <3>1. served' = <<500>> /\ answer' = "rejected"
      BY <2>1, <2>2, FirstStatus DEF AnswerInv
    <3> QED
      BY <3>1, FirstStatus DEF AnswerInv, NoAnswerLost
  <2>3. CASE answer # "pending"
    BY <1>1, <2>1, <2>3 DEF AnswerInv, NoAnswerLost
  <2> QED
    BY <2>2, <2>3
<1>2. CASE UNCHANGED <<response, answer, served, timer>>
  BY <1>2 DEF AnswerInv, NoAnswerLost
<1>3. CASE TimeoutFires
  <2>1. \/ answer = "pending" /\ answer' = "timeout" /\ served' = Append(served, 408)
        \/ answer # "pending" /\ UNCHANGED <<answer, served>>
    BY <1>3 DEF TimeoutFires, Answers
  <2>2. timer' = "fired" /\ response' = response
    BY <1>3 DEF TimeoutFires
  <2>3. CASE answer = "pending"
    <3>1. served' = <<408>> /\ answer' = "timeout"
      BY <2>1, <2>3, FirstStatus DEF AnswerInv
    <3> QED
      BY <2>2, <3>1, FirstStatus DEF AnswerInv, NoAnswerLost
  <2>4. CASE answer # "pending"
    BY <2>1, <2>2, <2>4 DEF AnswerInv, NoAnswerLost
  <2> QED
    BY <2>3, <2>4
<1>4. ASSUME NEW o, Routed(o)
      PROVE  ResponseRejects \/ UNCHANGED <<response, answer, served>>
  BY <1>4, Zenon DEF Routed, PopulateResponse, ErrorPage
<1>5. CASE Next
  <2>1. \/ RequestReady \/ RequestFails \/ ConsumeBody \/ CallMiddleware
        \/ MiddlewareSettles \/ PageRead \/ TimeoutFires
    BY <1>5 DEF Next
  <2>2. RequestReady \/ MiddlewareSettles => Routed(outcome') /\ timer' = timer
    BY DEF RequestReady, MiddlewareSettles
  <2>3. RequestFails \/ PageRead => ResponseRejects /\ timer' = timer
    BY DEF RequestFails, PageRead, PopulateResponse
  <2>4. ConsumeBody \/ CallMiddleware => UNCHANGED <<response, answer, served, timer>>
    BY DEF ConsumeBody, CallMiddleware, handlerVars
  <2> QED
    BY <2>1, <2>2, <2>3, <2>4, <1>1, <1>2, <1>3, <1>4
<1>6. CASE UNCHANGED vars
  BY <1>2, <1>6 DEF vars, handlerVars
<1> QED
  BY <1>5, <1>6

LEMMA AnswerInitially == Init => AnswerInv
  BY DEF Init, AnswerInv, NoAnswerLost

-----------------------------------------------------------------------------
\* No function of a route is called out of turn, skipped while it fits or given
\* another reason than that of the call before it (nextPromise of Promise.route).
THEOREM FunctionsInTurn == Spec => []InTurn
<1>1. RouteInv => InTurn
  BY DEF RouteInv
<1> QED
  BY <1>1, RouteInitially, RoutePreserved, PTL DEF Spec

\* A route ends with its first value, or asks everybody that it may ask
\* (Promise.route).
THEOREM RouteEndsWithLastCall == Spec => []EndsWithLastCall
<1>1. RouteInv => EndsWithLastCall
  BY DEF RouteInv
<1> QED
  BY <1>1, RouteInitially, RoutePreserved, PTL DEF Spec

\* The answer of a request is ended once at most (Promise.race and route).
THEOREM EndedOnce == Spec => []AnsweredOnce
<1>1. AnswerInv => AnsweredOnce
  <2>1. Len(<< >>) = 0 /\ Len(<<408>>) = 1 /\ Len(<<500>>) = 1
    OBVIOUS
  <2>2. AnswerInv => Len(served) \in {0, 1}
    BY <2>1, Zenon DEF AnswerInv
  <2>3. Len(served) \in {0, 1} => Len(served) <= 1
    OBVIOUS
  <2> QED
    BY <2>2, <2>3 DEF AnsweredOnce
<1> QED
  BY <1>1, AnswerInitially, AnswerPreserved, PTL DEF Spec

\* What settles handler.promise is what the client gets (constructor and route).
THEOREM AnsweredBySettler == Spec => []NoAnswerLost
<1>1. AnswerInv => NoAnswerLost
  BY DEF AnswerInv
<1> QED
  BY <1>1, AnswerInitially, AnswerPreserved, PTL DEF Spec
=============================================================================
