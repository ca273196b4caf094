--------------------------- MODULE ObjectObserver ---------------------------
(***************************************************************************)
(* Observers of the properties of an object (vrac/Object.observe:          *)
(* ObjectObserver.js, Observer.js and the pool of newObservedObject in     *)
(* index.js).  Where the engine has Object.observe the callback of an      *)
(* entry of the pool collects change records, else an observer compares    *)
(* the object with a copy.  The engine is external: it queues a record for *)
(* every callback that observes the object, and keeps the queue of a       *)
(* callback that observes it no more.                                      *)
(***************************************************************************)
EXTENDS Integers, SequencesExt

CONSTANTS
  Obj, Name, Value,  \* objects, names and values of their properties
  Absent,            \* the value of a property that is not there
  Observer,          \* the observers
  Entry,             \* bound: the entries newObservedObject makes
  None,              \* no entry, no observer
  MaxRecords         \* bound: the records a callback has not been given

VARIABLES
  hasObserve,  \* the engine has Object.observe
  object,      \* the objects
  state,       \* state_ of each observer
  value,       \* value_: the object it observes, from its opening on
  direct,      \* directObserver_
  oldObject,   \* oldObject_
  entries,     \* the entries made: observer, object, and the queue of callback
  cache,       \* observedObjectCache
  known        \* history: the object when the observer last heard of it

vars == <<hasObserve, object, state, value, direct, oldObject, entries, cache, known>>

Blank == [n \in Name |-> Absent]

Init ==
  /\ hasObserve \in BOOLEAN
  /\ object = [x \in Obj |-> Blank]
  /\ state = [o \in Observer |-> "unopened"]
  /\ value = [o \in Observer |-> None]
  /\ direct = [o \in Observer |-> None]
  /\ oldObject = [o \in Observer |-> Blank]
  /\ entries = << >>
  /\ cache = << >>
  /\ known = [o \in Observer |-> Blank]

-----------------------------------------------------------------------------
(***************************************************************************)
(* Differences: what is added, removed and changed, and the old values.    *)
(***************************************************************************)
Has(x, n) == x[n] # Absent

\* diffObjectFromOldObject
DiffFromOldObject(new, old) ==
  [added   |-> {n \in Name : Has(new, n) /\ ~Has(old, n)},
   removed |-> {n \in Name : Has(old, n) /\ ~Has(new, n)},
   changed |-> {n \in Name : Has(old, n) /\ Has(new, n) /\ new[n] # old[n]},
   oldValues |-> old]

\* Fault: a property that is deleted and added again is an added one.
NextDiffAddedAgain(d, r) ==
  LET old == IF r.name \in d.seen THEN d.oldValues
             ELSE [d.oldValues EXCEPT ![r.name] = r.old]
      was == [d EXCEPT !.oldValues = old, !.seen = @ \cup {r.name}]
  IN  CASE r.type = "update" -> was
        [] r.type = "add" -> [was EXCEPT !.added = @ \cup {r.name}, !.removed = @ \ {r.name}]
        [] r.type = "delete" /\ r.name \in d.added ->
             [was EXCEPT !.added = @ \ {r.name}, !.seen = @ \ {r.name}]
        [] OTHER -> [was EXCEPT !.removed = @ \cup {r.name}]

\* One record of diffObjectFromChangeRecords; `seen' are the names in oldValues.
NextDiff(d, r) ==
  LET old == IF r.name \in d.seen THEN d.oldValues
             ELSE [d.oldValues EXCEPT ![r.name] = r.old]
      was == [d EXCEPT !.oldValues = old, !.seen = @ \cup {r.name}]
  IN  CASE r.type = "update" -> was
        [] r.type = "add" /\ r.name \in d.removed -> [was EXCEPT !.removed = @ \ {r.name}]
        [] r.type = "add" /\ r.name \notin d.removed -> [was EXCEPT !.added = @ \cup {r.name}]
        [] r.type = "delete" /\ r.name \in d.added ->
             [was EXCEPT !.added = @ \ {r.name}, !.seen = @ \ {r.name}]
        [] OTHER -> [was EXCEPT !.removed = @ \cup {r.name}]

\* diffObjectFromChangeRecords
NoDiff == [added |-> {}, removed |-> {}, seen |-> {}, oldValues |-> Blank]
DiffOfAll(records) ==
  LET d[i \in 0..Len(records)] == IF i = 0 THEN NoDiff ELSE NextDiff(d[i - 1], records[i])
  IN  d[Len(records)]
DiffFromChangeRecords(new, records) ==
  LET d == DiffOfAll(records)
  IN  [added |-> d.added, removed |-> d.removed, oldValues |-> d.oldValues,
       changed |-> {n \in d.seen \ (d.added \cup d.removed) : d.oldValues[n] # new[n]}]

Queue(o) == entries[direct[o]].records

\* What check_ finds for an observer, when it runs.
Diff(o) ==
  IF hasObserve THEN DiffFromChangeRecords(object[value[o]], Queue(o))
  ELSE DiffFromOldObject(object[value[o]], oldObject[o])

-----------------------------------------------------------------------------
(***************************************************************************)
(* The program changes an object.                                          *)
(***************************************************************************)
Queued(x, r) ==
  [e \in DOMAIN entries |->
     IF x \in entries[e].observes THEN [entries[e] EXCEPT !.records = Append(@, r)] ELSE entries[e]]
Room(x) == \A e \in DOMAIN entries : x \in entries[e].observes => Len(entries[e].records) < MaxRecords

Write(x, n, v) ==
  /\ object[x][n] # v
  /\ Room(x)
  /\ entries' = Queued(x, [name |-> n, old |-> object[x][n],
       type |-> CASE v = Absent -> "delete" [] object[x][n] = Absent -> "add" [] OTHER -> "update"])
  /\ object' = [object EXCEPT ![x][n] = v]
  /\ UNCHANGED <<hasObserve, state, value, direct, oldObject, cache, known>>

-----------------------------------------------------------------------------
(***************************************************************************)
(* The observers.                                                          *)
(***************************************************************************)

\* Fault: an entry of the pool is opened without being given what is left in
\* its queue.
TakenWithQueue(o, x) ==
  LET e == IF cache = << >> THEN Len(entries) + 1 ELSE Last(cache)
      opened == [observer |-> o, observes |-> {x},
                 records |-> IF cache = << >> THEN << >> ELSE entries[e].records]
  IN  [entry |-> e, all |-> IF cache = << >> THEN Append(entries, opened) ELSE [entries EXCEPT ![e] = opened]]

\* getObservedObject: the last entry of the pool or a new one.  What is left in
\* its queue is delivered to the callback while it has no observer.
Taken(o, x) ==
  LET e == IF cache = << >> THEN Len(entries) + 1 ELSE Last(cache)
      opened == [observer |-> o, observes |-> {x}, records |-> << >>]
  IN  [entry |-> e, all |-> IF cache = << >> THEN Append(entries, opened) ELSE [entries EXCEPT ![e] = opened]]

\* init with the object, Observer.open, connect_
Open(o, x) ==
  /\ state[o] = "unopened"
  /\ state' = [state EXCEPT ![o] = "opened"]
  /\ value' = [value EXCEPT ![o] = x]
  /\ known' = [known EXCEPT ![o] = object[x]]
  /\ IF hasObserve
       THEN /\ cache = << >> => Len(entries) < Entry
            /\ direct' = [direct EXCEPT ![o] = Taken(o, x).entry]
            /\ entries' = Taken(o, x).all
            /\ cache' = IF cache = << >> THEN cache ELSE Front(cache)
            /\ UNCHANGED oldObject
       ELSE /\ oldObject' = [oldObject EXCEPT ![o] = object[x]]
            /\ UNCHANGED <<direct, entries, cache>>
  /\ UNCHANGED <<hasObserve, object>>

\* Observer.close, disconnect_ and the close of the entry, whose queue stays.
\* A closed observer cannot be opened again: the model uses its name for
\* another one.
Close(o) ==
  /\ state[o] = "opened"
  /\ state' = [state EXCEPT ![o] = "unopened"]
  /\ value' = [value EXCEPT ![o] = None]
  /\ known' = [known EXCEPT ![o] = Blank]
  /\ IF hasObserve
       THEN /\ direct' = [direct EXCEPT ![o] = None]
            /\ entries' = [entries EXCEPT ![direct[o]].observer = None, ![direct[o]].observes = {}]
            /\ cache' = Append(cache, direct[o])
            /\ UNCHANGED oldObject
       ELSE /\ oldObject' = [oldObject EXCEPT ![o] = Blank]
            /\ UNCHANGED <<direct, entries, cache>>
  /\ UNCHANGED <<hasObserve, object>>

\* The observer hears of the changes so far, or gives them up: deliver and
\* discardChanges.
Heard(o) ==
  /\ known' = [known EXCEPT ![o] = object[value[o]]]
  /\ IF hasObserve THEN entries' = [entries EXCEPT ![direct[o]].records = << >>] /\ UNCHANGED oldObject
     ELSE oldObject' = [oldObject EXCEPT ![o] = object[value[o]]] /\ UNCHANGED entries
  /\ UNCHANGED <<hasObserve, object, state, value, direct, cache>>

Deliver(o) == state[o] = "opened" /\ Heard(o)

\* The engine calls the callback of an entry with its queue: nothing comes of
\* it when the entry has no open observer.
Callback(e) ==
  /\ entries[e].records # << >>
  /\ IF entries[e].observer # None THEN Heard(entries[e].observer)
     ELSE /\ entries' = [entries EXCEPT ![e].records = << >>]
          /\ UNCHANGED <<hasObserve, object, state, value, direct, oldObject, cache, known>>

Next ==
  \/ \E x \in Obj, n \in Name, v \in Value \cup {Absent} : Write(x, n, v)
  \/ \E o \in Observer, x \in Obj : Open(o, x)
  \/ \E o \in Observer : Close(o)
  \/ \E o \in Observer : Deliver(o)
  \/ \E e \in DOMAIN entries : Callback(e)

Spec == Init /\ [][Next]_vars

-----------------------------------------------------------------------------
Opened == {o \in Observer : state[o] = "opened"}

\* Whenever an observer is checked it is told what became of the object since
\* it last heard of it, and nothing from before it was opened: the records it
\* gets, through an entry others used before it, say the same as the two
\* versions of the object compared (index.js:84-119, 146-186, 374-431).
ToldTheDifference ==
  \A o \in Opened :
    LET diff == Diff(o)
        true == DiffFromOldObject(object[value[o]], known[o])
    IN  /\ diff.added = true.added
        /\ diff.removed = true.removed
        /\ diff.changed = true.changed
        /\ \A n \in diff.removed \cup diff.changed : diff.oldValues[n] = known[o][n]
=============================================================================
