-------------------------------- MODULE Task --------------------------------
(***************************************************************************)
(* The task of node_modules/task/task.js: a promise that can be paused,    *)
(* resumed and cancelled, and shares these states with the tasks it is     *)
(* chained with, in both directions.                                       *)
(*                                                                         *)
(* pause, resume and cancel propagate by calling each other synchronously  *)
(* along previous and nextList.  The listeners on the way only observe, so *)
(* that a propagation is one step: it reaches the least set of tasks that  *)
(* the calls reach through tasks which are not yet in the new state.       *)
(* The adoption of the outcome of a task goes through setImmediate.        *)
(*                                                                         *)
(* progress() and isAfter() look at no state: where the lists lead back to *)
(* a task they call themselves until the stack overflows.  The exception   *)
(* goes to the caller, or to the handler of the process, and what was done *)
(* before it stays done.                                                   *)
(***************************************************************************)
EXTENDS Naturals, Sequences, FiniteSets, SequencesExt

CONSTANTS
  Tasks,        \* identities of tasks, each used once
  None,         \* no task
  Few,          \* bound: among more tasks than that, none has a transformer and no
                \* list is knotted
  Transformers  \* the transformers given to then: the sets of outcomes that have
                \* one

ASSUME TaskAssumption ==
  /\ None \notin Tasks
  /\ Transformers \subseteq SUBSET {"completed", "failed"}

VARIABLES
  state,       \* "free" until created, then task.state
  paused,      \* the tasks with isPaused
  cancelled,   \* the tasks with isCancelled
  blocked,     \* the tasks with isBlocked
  transformed, \* the tasks with isTransformed
  previous,    \* task.previous
  nextList,    \* task.nextList
  hooks,       \* the transformers of a task, by the outcome they are for
  awaiting,    \* the tasks that a thenable can still settle
  inserted,    \* history: the tasks that another one was completed with
  knotted,     \* history: a list was given a task that comes before its owner
  unheard,     \* history: the tasks that settled and whose clean() an overflow left out
  immediates   \* the queue of setImmediate: <<task, the one it becomes>>

vars == <<state, paused, cancelled, blocked, transformed, previous, nextList,
          hooks, awaiting, inserted, knotted, unheard, immediates>>

Settled == {"completed", "failed"}
Created == {t \in Tasks : state[t] # "free"}
Pending == {t \in Tasks : state[t] = "pending"}
Unsettled == {t \in Tasks : state[t] \notin Settled}
Open    == Pending \ cancelled  \* what complete and fail look at

Init ==
  /\ state = [t \in Tasks |-> "free"]
  /\ paused = {} /\ cancelled = {} /\ blocked = {} /\ transformed = {}
  /\ previous = [t \in Tasks |-> None]
  /\ nextList = [t \in Tasks |-> << >>]
  /\ hooks = [t \in Tasks |-> {}]
  /\ awaiting = {} /\ inserted = {}
  /\ knotted = FALSE /\ unheard = {}
  /\ immediates = << >>

-----------------------------------------------------------------------------
(***************************************************************************)
(* Propagation.  `prev' and `links' are previous and nextList at the time. *)
(***************************************************************************)

\* The tasks whose method a propagation from t calls.  fork() writes
\* `propagation' and propagate() reads `propagationDirection', which therefore
\* is 'both' for every task.
Linked(t, prev, links) == ToSet(links[t]) \cup ({prev[t]} \ {None})

\* The tasks of `able' that a call on each task of `from' reaches.
Spread(from, able, prev, links) ==
  {t \in able :
     \A S \in SUBSET able :
       /\ from \cap able \subseteq S
       /\ \A x \in S : Linked(x, prev, links) \cap able \subseteq S
       => t \in S}

\* Fault: a call stops at a task that is paused.
CancellingUnpaused(from, prev, links) ==
  Spread(from, Unsettled \ (cancelled \cup paused), prev, links)

\* A task just created has no links, and is only in `from'.
Cancelling(from, prev, links) == Spread(from, Unsettled \ cancelled, prev, links)
Pausing(from, prev, links)    == Spread(from, Unsettled \ paused, prev, links)
Resuming(from)                == Spread(from, paused, previous, nextList)

\* The tasks after t (isAfter).
After(t, links) ==
  {u \in Tasks :
     \A S \in SUBSET Tasks :
       /\ ToSet(links[t]) \subseteq S
       /\ \A x \in S : ToSet(links[x]) \subseteq S
       => u \in S}

\* progress() from t, and isAfter(t), never return: a task after itself is met.
Endless(t, links) == \E u \in {t} \cup After(t, links) : u \in After(u, links)

\* clean(): the tasks of nextList become t, which is settled.  One that is
\* cancelled, and completes all the same, cancels them instead.
Becoming(t) ==
  IF t \in cancelled THEN << >>
  ELSE [i \in 1..Len(nextList[t]) |-> <<nextList[t][i], t>>]
Dragged(t) ==
  IF t \in cancelled THEN Cancelling(ToSet(nextList[t]), previous, nextList)
  ELSE {}

\* Fault: clean() does not follow.
SettleSilently(t, outcome, queue) ==
  /\ state' = [state EXCEPT ![t] = outcome]
  /\ immediates' = queue
  /\ UNCHANGED <<cancelled, unheard>>

\* What comes before clean() overflows: afterCompletion calls progress().
Overflows(t, outcome) == outcome = "completed" /\ Endless(t, nextList)

\* The outcome is written, and clean() follows unless the task is paused.
Settle(t, outcome, queue) ==
  /\ state' = [state EXCEPT ![t] = outcome]
  /\ \/ /\ t \in paused
        /\ immediates' = queue
        /\ UNCHANGED <<cancelled, unheard>>
     \/ /\ t \notin paused /\ Overflows(t, outcome)
        /\ immediates' = queue /\ unheard' = unheard \cup {t}
        /\ UNCHANGED cancelled
     \/ /\ t \notin paused /\ ~Overflows(t, outcome)
        /\ immediates' = queue \o Becoming(t)
        /\ cancelled' = cancelled \cup Dragged(t)
        /\ UNCHANGED unheard

\* Nothing comes of the call.
Ignore(queue) ==
  /\ immediates' = queue
  /\ UNCHANGED <<state, cancelled, unheard>>

\* Fault: a task chained with a paused one is not paused.
BecomeUnpaused(c, p, prev, links, queue) ==
  \/ /\ p \in cancelled
     /\ cancelled' = cancelled \cup Cancelling({c}, prev, links)
     /\ nextList' = links /\ immediates' = queue
     /\ UNCHANGED paused
  \/ /\ p \in (Pending \cup paused) \ cancelled
     /\ nextList' = [links EXCEPT ![p] = Append(@, c)]
     /\ immediates' = queue
     /\ UNCHANGED <<paused, cancelled>>
  \/ /\ p \notin Unsettled \cup cancelled \cup paused
     /\ immediates' = Append(queue, <<c, p>>) /\ nextList' = links
     /\ UNCHANGED <<paused, cancelled>>

\* c.become(p), not immediately.
Become(c, p, prev, links, queue) ==
  \/ /\ p \in cancelled
     /\ cancelled' = cancelled \cup Cancelling({c}, prev, links)
     /\ nextList' = links /\ immediates' = queue
     /\ UNCHANGED paused
  \/ /\ p \in paused \ cancelled
     /\ paused' = paused \cup Pausing({c}, prev, links)
     /\ nextList' = [links EXCEPT ![p] = Append(@, c)]
     /\ immediates' = queue
     /\ UNCHANGED cancelled
  \/ /\ p \in Pending \ (cancelled \cup paused)
     /\ nextList' = [links EXCEPT ![p] = Append(@, c)]
     /\ immediates' = queue
     /\ UNCHANGED <<paused, cancelled>>
  \/ /\ p \notin Unsettled \cup cancelled \cup paused
     /\ immediates' = Append(queue, <<c, p>>) /\ nextList' = links
     /\ UNCHANGED <<paused, cancelled>>

\* The place of t in the list of the task it depends on goes to v.
Replaced(t, v) ==
  LET q == previous[t]
  IN  IF q = None THEN nextList
      ELSE [nextList EXCEPT ![q] =
              IF @ = << >> THEN <<v>>
              ELSE [i \in 1..Len(@) |-> IF @[i] = t THEN v ELSE @[i]]]

\* t.insert(v): v takes the place of t, and t becomes v.  chain() throws when t
\* is before v, or never returns: v then has the place of t, which has none.
Insert(t, v, queue) ==
  LET links == Replaced(t, v)
      given == [previous EXCEPT ![t] = None,
                                ![v] = IF previous[t] = None THEN @ ELSE previous[t]]
      fails == v \in After(t, links) \/ Endless(t, links)
  IN  /\ \/ /\ fails
            /\ previous' = given /\ nextList' = links
            /\ Ignore(queue)
            /\ UNCHANGED paused
         \/ /\ ~fails
            /\ previous' = [given EXCEPT ![t] = v]
            /\ Become(t, v, previous', links, queue)
            /\ UNCHANGED <<state, unheard>>
      /\ inserted' = inserted \cup {v}
      /\ knotted' = (knotted \/ v \in After(v, links))

NoLink == UNCHANGED <<paused, previous, nextList, inserted, knotted>>

-----------------------------------------------------------------------------
(***************************************************************************)
(* The methods.                                                            *)
(***************************************************************************)
NewTask(t) ==
  /\ state[t] = "free"
  /\ state' = [state EXCEPT ![t] = "pending"]
  /\ UNCHANGED <<paused, cancelled, blocked, transformed, previous, nextList,
                 hooks, awaiting, inserted, knotted, unheard, immediates>>

\* then, catch, and fork, which does the same: a task is created and chained.
Then(p, c, transformers) ==
  /\ p \in Created /\ state[c] = "free"
  /\ state' = [state EXCEPT ![c] = "pending"]
  /\ hooks' = [hooks EXCEPT ![c] = transformers]
  /\ previous' = [previous EXCEPT ![c] = p]
  /\ Become(c, p, previous', nextList, immediates)
  /\ UNCHANGED <<blocked, transformed, awaiting, inserted, knotted, unheard>>

\* p.chain(t), which throws when t depends on a task or p on t, and when a loop
\* comes after t.  Nothing is said of p.chain(p).
Chain(p, t) ==
  /\ p \in Created /\ t \in Created
  /\ previous[t] = None /\ p \notin After(t, nextList) /\ ~Endless(t, nextList)
  /\ previous' = [previous EXCEPT ![t] = p]
  /\ Become(t, p, previous', nextList, immediates)
  /\ knotted' = (knotted \/ p = t)
  /\ UNCHANGED <<state, blocked, transformed, hooks, awaiting, inserted, unheard>>

\* What complete(value) does, by the kind of value, to a task that is open and
\* not blocked: a plain value, the task itself, another one, a thenable.
Completes(t, q) ==
  \/ /\ Settle(t, "completed", q)
     /\ blocked' = blocked \ {t}
     /\ NoLink /\ UNCHANGED awaiting
  \/ /\ Settle(t, "failed", q)
     /\ blocked' = blocked \cup {t}
     /\ NoLink /\ UNCHANGED awaiting
  \/ /\ \E v \in Created \ {t} : Insert(t, v, q)
     /\ blocked' = blocked \cup {t}
     /\ UNCHANGED awaiting
  \/ /\ awaiting' = awaiting \cup {t}
     /\ blocked' = blocked \cup {t}
     /\ Ignore(q) /\ NoLink

Complete(t) ==
  /\ t \in Open \ blocked
  /\ Completes(t, immediates)
  /\ UNCHANGED <<transformed, hooks>>

\* Fault: a task that is cancelled fails.
FailsPending(t, q) ==
  \/ t \in Pending /\ Settle(t, "failed", q)
  \/ t \notin Pending /\ Ignore(q)

\* Fault: a task that is settled fails again.
FailsUncancelled(t, q) ==
  \/ t \in Created \ cancelled /\ Settle(t, "failed", q)
  \/ t \in cancelled /\ Ignore(q)

\* fail() does not look whether the task is blocked.
Fails(t, q) ==
  \/ t \in Open /\ Settle(t, "failed", q)
  \/ t \notin Open /\ Ignore(q)

Fail(t) ==
  /\ t \in Open
  /\ Fails(t, immediates)
  /\ NoLink
  /\ UNCHANGED <<blocked, transformed, hooks, awaiting>>

\* A thenable answers with a plain value: nothing is looked at.
ThenableFulfils(t) ==
  /\ t \in awaiting
  /\ awaiting' = awaiting \ {t}
  /\ blocked' = blocked \ {t}
  /\ Settle(t, "completed", immediates)
  /\ NoLink
  /\ UNCHANGED <<transformed, hooks>>

ThenableRejects(t) ==
  /\ t \in awaiting
  /\ awaiting' = awaiting \ {t}
  /\ Fails(t, immediates)
  /\ NoLink
  /\ UNCHANGED <<blocked, transformed, hooks>>

Pause(t) ==
  /\ t \in Pending \ paused
  /\ paused' = paused \cup Pausing({t}, previous, nextList)
  /\ UNCHANGED <<state, cancelled, blocked, transformed, previous, nextList,
                 hooks, awaiting, inserted, knotted, unheard, immediates>>

Cancel(t) ==
  /\ t \in Open
  /\ cancelled' = cancelled \cup Cancelling({t}, previous, nextList)
  /\ UNCHANGED <<state, paused, blocked, transformed, previous, nextList,
                 hooks, awaiting, inserted, knotted, unheard, immediates>>

\* The clean() of each of `heard', in the order of the calls, which the graph
\* decides and this step leaves open.
CleanLate(heard) ==
  /\ \E order \in SetToSeqs(heard) :
       immediates' = immediates
         \o FlattenSeq([i \in 1..Len(order) |-> Becoming(order[i])])
  /\ cancelled' = cancelled \cup UNION {Dragged(u) : u \in heard}

\* Each of the tasks that resume settles what it was while paused, once those it
\* is linked with have resumed.  The first of them that overflows ends the call:
\* `reached' have resumed then, always with the task before them, and `heard' are
\* done.
Resume(t) ==
  /\ t \in paused
  /\ LET all  == Resuming({t})
         late == {u \in all : state[u] \in Settled}
         over == {u \in late : Overflows(u, state[u])}
     IN  \/ /\ over = {}
            /\ paused' = paused \ all
            /\ CleanLate(late)
            /\ UNCHANGED unheard
         \/ \E reached \in SUBSET all, heard \in SUBSET (late \ over), u \in over :
              /\ t \in reached /\ heard \subseteq reached /\ u \in reached
              /\ \A x \in reached : previous[x] \in all => previous[x] \in reached
              /\ \A x \in heard \cup {u} :
                   Linked(x, previous, nextList) \cap all \subseteq reached
              /\ paused' = paused \ reached
              /\ CleanLate(heard)
              /\ unheard' = unheard \cup ((late \cap reached) \ heard)
  /\ UNCHANGED <<state, blocked, transformed, previous, nextList, hooks,
                 awaiting, inserted, knotted>>

\* c.complete(value), which nothing blocks any more.
AdoptCompletion(c, q) ==
  \/ c \in Open /\ Completes(c, q)
  \/ /\ c \notin Open
     /\ blocked' = blocked \ {c}
     /\ Ignore(q) /\ NoLink /\ UNCHANGED awaiting

AdoptFailure(c, q) ==
  /\ Fails(c, q)
  /\ NoLink
  /\ UNCHANGED <<blocked, awaiting>>

\* The value of a task is never a task or a thenable.
AdoptValue(c, q) ==
  /\ blocked' = blocked \ {c}
  /\ \/ c \in Open /\ Settle(c, "completed", q)
     \/ c \notin Open /\ Ignore(q)
  /\ NoLink /\ UNCHANGED awaiting

\* setImmediate: c adopts the state of p.  A transformer is called once, be the
\* task paused, settled or cancelled; it returns or throws.
AdoptState ==
  /\ immediates # << >>
  /\ LET c == Head(immediates)[1]
         p == Head(immediates)[2]
         q == Tail(immediates)
     IN  \/ /\ state[p] \in hooks[c] /\ c \notin transformed
            /\ transformed' = transformed \cup {c}
            /\ AdoptCompletion(c, q) \/ AdoptFailure(c, q)
         \/ /\ state[p] \notin hooks[c] \/ c \in transformed
            /\ \/ state[p] = "completed" /\ AdoptValue(c, q)
               \/ state[p] = "failed" /\ AdoptFailure(c, q)
            /\ UNCHANGED transformed
  /\ UNCHANGED hooks

Step ==
  \/ \E t \in Tasks : NewTask(t)
  \/ \E p, c \in Tasks, h \in Transformers : Then(p, c, h)
  \/ \E p, t \in Tasks : Chain(p, t)
  \/ \E t \in Tasks : Complete(t)
  \/ \E t \in Tasks : Fail(t)
  \/ \E t \in Tasks : ThenableFulfils(t)
  \/ \E t \in Tasks : ThenableRejects(t)
  \/ \E t \in Tasks : Pause(t)
  \/ \E t \in Tasks : Resume(t)
  \/ \E t \in Tasks : Cancel(t)
  \/ AdoptState

Bounded ==
  knotted \/ (\E t \in Tasks : hooks[t] # {}) => Cardinality(Created) <= Few

Next == Step /\ Bounded'

Spec == Init /\ [][Next]_vars

-----------------------------------------------------------------------------
\* The tasks that wait for a task share its fate while they wait: whoever is
\* cancelled has cancelled those after it, in whatever order they were chained.
CancelledTogether ==
  \A p \in cancelled : \A c \in ToSet(nextList[p]) :
    c \in cancelled \/ state[c] \in Settled

\* Those after a paused task are paused as well, but for the task that another
\* one is completed with: insert() puts it in the chain as it is.
PausedTogether ==
  \A p \in paused : \A c \in ToSet(nextList[p]) \ inserted :
    c \in paused \/ state[c] \in Settled

\* Whoever waits for a cancelled or a paused task is so too.
SharedFate == CancelledTogether /\ PausedTogether

\* A cancelled task keeps its state, unless it was completed with a thenable.
CancelledIsFinal ==
  [][\A t \in cancelled : t \in awaiting \/ state'[t] = state[t]]_vars

\* A settled task keeps its state, unless it failed before the thenable it was
\* completed with answers.
SettledIsFinal ==
  [][\A t \in Tasks : state[t] \in Settled =>
       t \in awaiting \/ state'[t] = state[t]]_vars

\* Neither a cancelled nor a settled task changes.
OutcomesFinal == CancelledIsFinal /\ SettledIsFinal

\* No task is after itself, however chains are joined and whatever takes the place
\* of a task in them, and nothing overflows; unless a task was chained with itself
\* or completed with one that comes before it, which nothing checks.
NoLoop ==
  ~knotted => unheard = {} /\ \A t \in Tasks : t \notin After(t, nextList)

\* Nobody is left behind: a task that is open and neither waits for a thenable
\* nor was put at the place of another is in the list of the task before it, or
\* in the queue of setImmediate, whatever happened to both since; unless the
\* overflow of a loop kept the task before it from telling.
NobodyLeft ==
  \A c \in Open \ (awaiting \cup inserted) :
    previous[c] # None =>
      \/ c \in ToSet(nextList[previous[c]])
           /\ previous[c] \in Unsettled \cup paused
      \/ <<c, previous[c]>> \in ToSet(immediates)
      \/ previous[c] \in unheard

\* Only the loops that two calls make can lose a task, and they lose no other than
\* those that wait for what could not tell.
NobodyLost == NoLoop /\ NobodyLeft

\* The readme: a cancelled task never completes or fails.
CancelledNeverSettles ==
  [][\A t \in cancelled : state'[t] = state[t]]_vars
=============================================================================
