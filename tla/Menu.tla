-------------------------------- MODULE Menu --------------------------------
(***************************************************************************)
(* The menu of the new views: app/client/js/vrac/view/menu.js.  A state of *)
(* an option is a class of its element; adding or removing it sends the    *)
(* event whose listener, on the menu, does the rest (view/node.js).  The   *)
(* options have two levels.                                                *)
(***************************************************************************)
EXTENDS Integers, SequencesExt

CONSTANTS
  Option, Root, None,
  Options,          \* [Option and Root -> Seq(Option)], the options below
  Radio, Checkbox,  \* by type
  Sep, Disabled,    \* the options with the class
  Key               \* [Option -> a key or None], what data of the option says

\* An option is once in one list, there are two levels, and an option has one
\* type.
MenuAssumption ==
  /\ Root \notin Option /\ None \notin Option \cup {Root}
  /\ Options \in [Option \cup {Root} -> Seq(Option)]
  /\ \A n \in Option : \E p \in Option \cup {Root} : Contains(Options[p], n)
  /\ \A p, q \in Option \cup {Root} : \A i \in DOMAIN Options[p], j \in DOMAIN Options[q] :
       Options[p][i] = Options[q][j] => p = q /\ i = j
  /\ \A n \in Option : \A i \in DOMAIN Options[n] : Options[Options[n][i]] = << >>
  /\ Radio \cap Checkbox = {}

VARIABLES
  menu,     \* the menu and the states of its options
  shortcut, \* [key -> the option it actives, or None]
  inserted  \* the options whose element is in the menu; those without a key stay there

vars == <<menu, shortcut, inserted>>

Keys == {Key[n] : n \in Option} \ {None}
Above(n) == CHOOSE p \in Option \cup {Root} : Contains(Options[p], n)
Beside(n) == ToSet(Options[Above(n)]) \ {n}
Group(n) == Options[n] # << >>

Quiet == [action |-> "none", node |-> None, armed |-> FALSE]

Init ==
  /\ menu = [opened |-> FALSE, watched |-> FALSE, target |-> FALSE, expandNode |-> Root,
             lighted |-> {}, expanded |-> {}, actived |-> {}, timer |-> Quiet]
  /\ shortcut = [k \in Keys |-> None]
  /\ inserted = {n \in Option : Key[n] = None}

-----------------------------------------------------------------------------
\* One timer for the menu.  Its action is still there once it has fired, and
\* the same action of another option is not timed.
setTimeout(m, n, action) ==
  IF action = m.timer.action THEN m
  ELSE [m EXCEPT !.timer = [action |-> action, node |-> n, armed |-> TRUE]]
clearTimeout(m) == [m EXCEPT !.timer = Quiet]

\* removeState and the listener of unlight, of the options of a level that are
\* lit: there is one at most.
unlight(m, level) ==
  LET dark == [m EXCEPT !.lighted = @ \ level]
      groups == {o \in level \cap m.lighted : Group(o)}
  IN  IF groups = {} THEN dark ELSE setTimeout(dark, CHOOSE o \in groups : TRUE, "contract")

\* addState and the listener of light
light(m, n) ==
  LET p == Above(n)
      Lit(w, o) == IF o \in w.lighted THEN w ELSE unlight([w EXCEPT !.lighted = @ \cup {o}], Beside(o))
  IN  IF n \in m.lighted THEN m
      ELSE IF p = Root THEN Lit(m, n) ELSE clearTimeout(Lit(Lit(m, n), p))

contract(m, n) ==
  IF n \notin m.expanded THEN m
  ELSE [m EXCEPT !.expanded = @ \ {n}, !.expandNode = Above(n)]

\* Mutant: expanding leaves the options beside as they are.
contractBeside_none(m, n) == m

contractBeside(m, n) ==
  IF Beside(n) \cap m.expanded = {} THEN m
  ELSE [m EXCEPT !.expanded = @ \ Beside(n), !.expandNode = Above(n)]

\* What should reset the options of a list resets nothing: it reads the state
\* and the states of `this', the menu, which has none.
resetAll(m, list) == m

\* addState and the listener of expand.
expand(m, n) ==
  IF n \in m.expanded THEN m
  ELSE [resetAll(contractBeside([m EXCEPT !.expanded = @ \cup {n}], n), Options[n]) EXCEPT !.expandNode = n]

-----------------------------------------------------------------------------
close(m) == IF m.opened THEN [m EXCEPT !.opened = FALSE, !.watched = FALSE] ELSE m

isActivable(n) == n \notin Disabled /\ ~Group(n)

\* The radios before n up to a separator, and after it up to one.
Rivals(n) ==
  LET list == Options[Above(n)]
      i == CHOOSE k \in DOMAIN list : list[k] = n
      Joined(j, k) == \A l \in j..k : list[l] \in Radio /\ (l < k => list[l] \notin Sep)
  IN  {list[j] : j \in {k \in DOMAIN list \ {i} : IF k < i THEN Joined(k, i) ELSE Joined(i, k)}}

unactive(m, n) == [m EXCEPT !.actived = @ \ Rivals(n)]

\* addState and the listener of active: an option that is actived already does
\* nothing, one that is not activable gets the class.
active(m, n) ==
  LET w == [m EXCEPT !.actived = @ \cup {n}]
  IN  IF n \in m.actived THEN m
      ELSE IF ~isActivable(n) \/ n \in Checkbox THEN w
      ELSE IF n \in Radio THEN close(unactive(w, n))
      ELSE close(w)

activeNode(m, n) ==
  IF Group(n) THEN expand(m, n)
  ELSE IF n \in m.actived \cap Checkbox THEN [m EXCEPT !.actived = @ \ {n}]
  ELSE active(m, n)

activeFirst(m) ==
  LET list == Options[Root]
      good == {i \in DOMAIN list : isActivable(list[i])}
  IN  IF good = {} THEN m ELSE active(m, list[CHOOSE i \in good : \A j \in good : i <= j])

updateTarget(m, input) == [m EXCEPT !.target = ~input]

\* opened is set last: what the focus of the target or a listener of open does
\* in between finds a closed menu.
open(m, input) ==
  LET w == updateTarget(m, input)
  IN  IF m.opened THEN m
      ELSE IF ~w.target THEN w
      ELSE [resetAll(w, Options[Root]) EXCEPT !.watched = TRUE, !.opened = TRUE]

-----------------------------------------------------------------------------
Does(m) == menu' = m /\ UNCHANGED <<shortcut, inserted>>
Shown(n) ==
  /\ menu.opened /\ n \in inserted
  /\ Above(n) # Root => Above(n) \in menu.expanded

contextmenu(input) == Does(open(menu, input))
dblclick == Does(activeFirst(updateTarget(menu, FALSE)))
blur == menu.opened /\ Does(close(menu))

mousedown(n) == Shown(n) /\ Group(n) /\ Does(expand(menu, n))
mousemove(n) ==
  LET m == light(menu, n)
  IN  Shown(n) /\ Does(IF Group(n) THEN setTimeout(m, n, "expand") ELSE m)
\* The mouse leaves the open group, for another option or for the page.
mouseout(to) ==
  LET p == menu.expandNode
  IN  /\ menu.opened /\ (to = None \/ (to # p /\ ~Contains(Options[p], to)))
      /\ to # None => p # Root /\ Shown(to)
      /\ Does(unlight(menu, ToSet(Options[p])))
click(n) == Shown(n) /\ Does(activeNode(menu, n))

\* A key is a shortcut, be the menu open or not.  The other ones are lost: they
\* are for this.focused, which nothing sets.
keydown(k) == shortcut[k] # None /\ Does(active(menu, shortcut[k]))
enter == ~menu.opened /\ Does(activeFirst(menu))

\* The timer is not cleared when the menu closes.
timeout ==
  LET t == menu.timer
      m == [menu EXCEPT !.timer.armed = FALSE]
  IN  t.armed /\ Does(IF t.action = "expand" THEN expand(m, t.node) ELSE contract(m, t.node))

\* Mutant: the key of an option that leaves is kept.
traceOut_kept(n) == UNCHANGED shortcut

\* trace: the key of an option is set when its element comes, unset when it
\* goes, whichever option has the key then.
traceIn(n) == shortcut' = IF Key[n] = None THEN shortcut ELSE [shortcut EXCEPT ![Key[n]] = n]
traceOut(n) == shortcut' = IF Key[n] = None THEN shortcut ELSE [shortcut EXCEPT ![Key[n]] = None]

insertElement(n) ==
  /\ Key[n] # None /\ n \notin inserted /\ inserted' = inserted \cup {n}
  /\ Above(n) = Root \/ Above(n) \in menu.expanded
  /\ traceIn(n) /\ UNCHANGED menu
removeElement(n) ==
  /\ Key[n] # None /\ n \in inserted /\ inserted' = inserted \ {n}
  /\ traceOut(n) /\ UNCHANGED menu

Next ==
  \/ \E input \in BOOLEAN : contextmenu(input)
  \/ dblclick \/ blur \/ enter \/ timeout
  \/ \E n \in Option :
       \/ mousedown(n) \/ mousemove(n) \/ click(n)
       \/ insertElement(n) \/ removeElement(n)
  \/ \E n \in Option \cup {None} : mouseout(n)
  \/ \E k \in Keys : keydown(k)

Spec == Init /\ [][Next]_vars

-----------------------------------------------------------------------------
(* At each level one option is lit and one group is open; expandNode is an *)
(* open group, or the menu; and among the radios that can be chosen one is *)
(* (menu.js:109-204).                                                      *)
OneOfEach ==
  /\ \A n \in menu.lighted : Beside(n) \cap menu.lighted = {}
  /\ \A n \in menu.expanded : Beside(n) \cap menu.expanded = {}
  /\ menu.expandNode \in menu.expanded \cup {Root}
  /\ \A n \in menu.actived \cap Radio : isActivable(n) =>
       \A o \in Rivals(n) \cap menu.actived : ~isActivable(o)

(* A shortcut actives an option that is in the menu and has the key.       *)
ShortcutsThere ==
  \A k \in Keys : shortcut[k] # None => shortcut[k] \in inserted /\ Key[shortcut[k]] = k
=============================================================================
