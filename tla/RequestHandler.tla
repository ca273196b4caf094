--------------------------- MODULE RequestHandler ---------------------------
(***************************************************************************)
(* One request, from router.route to the end of the answer                 *)
(* (app/server/node_modules/router/index.js): the tasks of the request     *)
(* (request.resolve), the middlewares (Route), the error page, the         *)
(* population of the response, the timeout it races with, and what is      *)
(* written to the answer of the HTTP server.                               *)
(*                                                                         *)
(* Promise callbacks that wait for a promise run inside the call that      *)
(* settles it, so that the whole chain behind one asynchronous result is   *)
(* one step; only timers, files, streams and the setImmediate of a         *)
(* middleware separate two steps.                                          *)
(***************************************************************************)
EXTENDS Route

VARIABLES
  timed,    \* handler.timeout > 0
  parsed,   \* the media type of the request has a parser of bodies
  hanging,  \* the middlewares that never settle the promise they return
  accept,   \* the kind of page the accept header asks for, "none" without it
  request,  \* of request.ready(): "tasks", "body", "ready", "failed"
  page,     \* of the error page: "none", "reading", "done"
  response, \* of responsePromise: "pending", "rejected"
  timer,    \* "none", "armed", "fired"
  answer,   \* of handler.promise: "pending", "rejected", "timeout"
  served    \* the status of every end of the answer, in order

handlerVars == <<timed, parsed, hanging, accept, request, page, response,
                 timer, answer, served>>
vars == <<routeVars, handlerVars>>

Accepts == {"html", "json", "text", "none"}

TypeOK ==
  /\ RouteTypeOK
  /\ timed \in BOOLEAN /\ parsed \in BOOLEAN
  /\ hanging \subseteq Fns
  /\ accept \in Accepts
  /\ request \in {"tasks", "body", "ready", "failed"}
  /\ page \in {"none", "reading", "done"}
  /\ response \in {"pending", "rejected"}
  /\ timer \in {"none", "armed", "fired"}
  /\ answer \in {"pending", "rejected", "timeout"}
  /\ served \in Seq({408, 500})

\* The constructor, called by route: the request starts its tasks.
Init ==
  /\ RouteInit
  /\ timed \in BOOLEAN /\ parsed \in BOOLEAN
  /\ hanging \in SUBSET Fns
  /\ accept \in Accepts
  /\ request = "tasks" /\ page = "none"
  /\ response = "pending" /\ answer = "pending"
  /\ timer = IF timed THEN "armed" ELSE "none"
  /\ served = << >>

-----------------------------------------------------------------------------
\* Fault: each of the two promises answers, whoever was first.
EachAnswers(how, status) ==
  /\ answer' = how
  /\ served' = Append(served, status)

\* The first of the two promises settles handler.promise (Promise.race), and
\* so the answer: by the subscriber of route, or by its catch.
Answers(how, status) ==
  \/ /\ answer = "pending"
     /\ answer' = how
     /\ served' = Append(served, status)
  \/ /\ answer # "pending"
     /\ UNCHANGED <<answer, served>>

\* Fault: nobody catches what happens after the middlewares.
RejectUnnoticed ==
  /\ response' = "rejected"
  /\ UNCHANGED <<answer, served>>

\* responsePromise is rejected.
ResponseRejects ==
  /\ response' = "rejected"
  /\ Answers("rejected", 500)

\* this.response.resolve(responseProperties): Response has no such method, and
\* the TypeError rejects responsePromise.
PopulateResponse == ResponseRejects

\* createResponseErrorPropertiesPromise(error): it throws on a reason that is
\* no error, without an accept header, or for want of a stack.  Both files of
\* the html page are read before it is over.
ErrorPage(reason) ==
  \/ /\ reason = Null \/ accept = "none"
     /\ ResponseRejects
     /\ UNCHANGED page
  \/ /\ reason # Null /\ accept = "html"
     /\ page' = "reading"
     /\ UNCHANGED <<response, answer, served>>
  \/ /\ reason # Null /\ accept \in {"json", "text"}
     /\ PopulateResponse \/ ResponseRejects
     /\ UNCHANGED page

\* What follows the end of the route in the same turn of the event loop.
Routed(o) ==
  \/ o.how = "pending" /\ UNCHANGED <<page, response, answer, served>>
  \/ o.how = "resolved" /\ PopulateResponse /\ UNCHANGED page
  \/ o.how = "rejected" /\ ErrorPage(o.what)

-----------------------------------------------------------------------------
\* The last task of the request is over: the middlewares are routed.
RequestReady ==
  /\ request = "tasks" /\ ~parsed
  /\ request' = "ready"
  /\ Start
  /\ Routed(outcome')
  /\ UNCHANGED <<timed, parsed, hanging, accept, timer>>

\* A task rejects: the catch of createResponsePropertiesPromise is not on the
\* way, there is no error page.
RequestFails ==
  /\ request = "tasks"
  /\ request' = "failed"
  /\ ResponseRejects
  /\ UNCHANGED <<routeVars, timed, parsed, hanging, accept, page, timer>>

\* The task request-body returns request.consume(), which waits for
\* request.ready(), which waits for the tasks: nothing is read of the body.
ConsumeBody ==
  /\ request = "tasks" /\ parsed
  /\ request' = "body"
  /\ UNCHANGED <<routeVars, timed, parsed, hanging, accept, page, response, timer,
                 answer, served>>

CallMiddleware ==
  /\ CallFunction
  /\ UNCHANGED handlerVars

MiddlewareSettles ==
  /\ running \notin hanging
  /\ FunctionSettles
  /\ Routed(outcome')
  /\ UNCHANGED <<timed, parsed, hanging, accept, request, timer>>

\* Promise.all over the two files: the page is made, or one was not read.
PageRead ==
  /\ page = "reading"
  /\ page' = "done"
  /\ PopulateResponse \/ ResponseRejects
  /\ UNCHANGED <<routeVars, timed, parsed, hanging, accept, request, timer>>

\* createTimeoutPromise: nothing cancels the timer, it fires after the answer
\* as well.
TimeoutFires ==
  /\ timer = "armed"
  /\ timer' = "fired"
  /\ Answers("timeout", 408)
  /\ UNCHANGED <<routeVars, timed, parsed, hanging, accept, request, page,
                 response>>

Next ==
  \/ RequestReady \/ RequestFails \/ ConsumeBody
  \/ CallMiddleware \/ MiddlewareSettles
  \/ PageRead
  \/ TimeoutFires

Spec == Init /\ [][Next]_vars

(***************************************************************************)
(* Timers fire, files are read, setImmediate callbacks run, and what does  *)
(* not hang (which Init chooses) ends.                                     *)
(***************************************************************************)
Fairness ==
  /\ WF_vars(RequestReady \/ RequestFails \/ ConsumeBody)
  /\ WF_vars(CallMiddleware) /\ WF_vars(MiddlewareSettles)
  /\ WF_vars(PageRead) /\ WF_vars(TimeoutFires)

FairSpec == Spec /\ Fairness

-----------------------------------------------------------------------------
\* The answer is ended once at most, whoever is late: the timer after the
\* response, a middleware after the timer.
AnsweredOnce == Len(served) <= 1

\* 408 is for the client that waited for the timer, 500 for the one whose
\* response was settled before it fired; and nothing settles unanswered.
NoAnswerLost ==
  /\ response = "rejected" \/ timer = "fired" => served # << >>
  /\ answer = "timeout" <=> served = <<408>>
  /\ served = <<408>> => timer = "fired"

\* Every request is answered, when there is a timeout or nothing hangs on the
\* way, neither a middleware nor the task request-body.
AnswersEventually ==
  (timed \/ (~parsed /\ hanging = {})) ~> served # << >>

\* What request.resolve(properties) starts comes to an end: the request is ready
\* for the middlewares, or a task has failed.
RequestIsReady == (request = "tasks") ~> (request \in {"ready", "failed"})

\* The value that a middleware found is what the client gets, unless he got the
\* timeout before.
ValueIsServed ==
  [][outcome'.how = "resolved" /\ outcome'.what # Null /\ answer = "pending"
       => served' # <<500>>]_vars
=============================================================================
