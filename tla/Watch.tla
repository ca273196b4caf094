-------------------------------- MODULE Watch --------------------------------
(***************************************************************************)
(* A view that watches its model (app/client/js/vrac/model.js and the watch*)
(* of view.js).  A key of the view may have a getter, with the keys it     *)
(* depends on as its arguments; when one of those changes, the listener is *)
(* told the value of the getter now and what it was before, which is found *)
(* by writing the old value back in the model for a moment.                *)
(*                                                                         *)
(* The getter of own is that of the key p, which reads the p of the model; *)
(* that of both takes p, through the getter of p, and q.                   *)
(***************************************************************************)
CONSTANTS
  Value, Undefined

VARIABLES
  data,    \* the data of the model: [set of keys -> Value or Undefined]
  hasData, \* setData was called
  told,    \* [watched -> what the listener was told last: the value and the old one]
  by       \* history: what the last step was

vars == <<data, hasData, told, by>>

Watched == {"own", "both"}
Dependencies(w) == IF w = "own" THEN {"p"} ELSE {"p", "q"}
Keys == {"p", "q"}

Init ==
  /\ data = [k \in {} |-> Undefined] /\ hasData = FALSE
  /\ told = [w \in Watched |-> <<Undefined, Undefined>>] /\ by = "create"

has(d, k) == k \in DOMAIN d
read(d, k) == IF has(d, k) THEN d[k] ELSE Undefined
With(d, k, x) == [j \in DOMAIN d \union {k} |-> IF j = k THEN x ELSE d[j]]

\* get, with the getters; own is a value that tells p from anything else.
get(d, w) == IF w = "own" THEN <<read(d, "p")>> ELSE <<<<read(d, "p")>>, read(d, "q")>>

\* Mutant: the old value is not put in the model to find what the getter was.
restored_not(d, k, old) == d

restored(d, k, old) == With(d, k, old)

\* The function that watch gives to the model for one key w depends on: m is
\* [data, told]; the value is put back, also where there was none.
listener(m, w, k, x, old) ==
  LET before == restored(m.data, k, old)
      after == With(before, k, x)
  IN [data |-> after, told |-> [m.told EXCEPT ![w] = <<get(after, w), get(before, w)>>]]

\* change: the listeners of the key in the order they were added, own first.
Listens(w, k) == k \in Dependencies(w)
Tell(m, w, k, x, old) == IF Listens(w, k) THEN listener(m, w, k, x, old) ELSE m
change(m, k, x, old) == Tell(Tell(m, "own", k, x, old), "both", k, x, old)

-----------------------------------------------------------------------------
\* set: the change is told and then the value written.
Written(m, k, x) == [change(m, k, x, read(m.data, k)) EXCEPT !.data = With(@, k, x)]
set(k, x) ==
  /\ hasData /\ read(data, k) # x
  /\ LET m == Written([data |-> data, told |-> told], k, x)
     IN data' = m.data /\ told' = m.told
  /\ by' = "set" /\ UNCHANGED hasData

\* The first listener sets another value when it is told: the others are told
\* that one and then the first, which is written over it.
setInside(k, x, y) ==
  /\ hasData /\ read(data, k) # x /\ x # y
  /\ LET m == [data |-> data, told |-> told]
         old == read(data, k)
         first == IF Listens("own", k) THEN "own" ELSE "both"
         inner == Written(listener(m, first, k, x, old), k, y)
         rest == IF first = "own" THEN Tell(inner, "both", k, x, old) ELSE inner
     IN data' = With(rest.data, k, x) /\ told' = rest.told
  /\ by' = "setInside" /\ UNCHANGED hasData

\* unset: a key that someone watches is there again, with no value, when the
\* listeners have been told.
unset(k) ==
  /\ hasData /\ has(data, k)
  /\ LET m == change([data |-> [j \in DOMAIN data \ {k} |-> data[j]], told |-> told], k, Undefined, data[k])
     IN data' = m.data /\ told' = m.told
  /\ by' = "set" /\ UNCHANGED hasData

\* setData: a view is told of the first data only.
setData(d) ==
  /\ data' = d /\ hasData' = TRUE
  /\ told' = IF hasData THEN told ELSE [w \in Watched |-> <<get(d, w), Undefined>>]
  /\ by' = "setData"

Next ==
  \/ \E k \in Keys : \/ unset(k)
                     \/ \E x \in Value : set(k, x) \/ \E y \in Value : setInside(k, x, y)
  \/ \E d \in [Keys -> Value] : setData(d)

Spec == Init /\ [][Next]_vars

-----------------------------------------------------------------------------
(* A listener is told the value of its getter after the change and the one *)
(* before it, whichever of the keys it depends on was set or unset, and    *)
(* never misses a change (view.js:111-165): for changes that no listener   *)
(* makes inside another one.                                               *)
TellsOldAndNew ==
  by' = "set" =>
    \A w \in Watched :
      /\ get(data', w) # get(data, w) => told'[w] = <<get(data', w), get(data, w)>>
      /\ told'[w] # told[w] => told'[w] = <<get(data', w), get(data, w)>>
ToldOldAndNew == [][TellsOldAndNew]_vars
=============================================================================
