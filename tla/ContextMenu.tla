---------------------------- MODULE ContextMenu ----------------------------
(***************************************************************************)
(* The menu of a tree: app/client/js/vrac/tree/menu.js (a tree of options, *)
(* shown as a context menu) and tree.menu.js (the options of a tree and    *)
(* what the tree does not listen to while its menu is open).               *)
(*                                                                         *)
(* As in the menu of tree.menu.js there are two levels of options.  An     *)
(* option has a function `state' that says, of the node the menu is opened *)
(* on, whether the option is hidden, disabled or actived.                  *)
(***************************************************************************)
EXTENDS Integers, SequencesExt

CONSTANTS
  Option, Root, None,
  Options,   \* [Option and Root -> Seq(Option)], the options below
  Radio, Checkbox, \* the options of these types
  Sep,       \* those with a separator below
  Target,    \* the nodes of the tree
  State      \* [Option -> [Target -> "hidden", "disabled", "actived" or "none"]]

\* An option is once in one list, there are two levels, an option has one type; and,
\* as in tree.menu.js, no option of the first level asks to be actived.
ContextMenuAssumption ==
  /\ Root \notin Option /\ None \notin Option \cup {Root}
  /\ Options \in [Option \cup {Root} -> Seq(Option)]
  /\ \A n \in Option : \E p \in Option \cup {Root} : Contains(Options[p], n)
  /\ \A p, q \in Option \cup {Root} : \A i \in DOMAIN Options[p], j \in DOMAIN Options[q] :
       Options[p][i] = Options[q][j] => p = q /\ i = j
  /\ \A n \in Option : \A i \in DOMAIN Options[n] : Options[Options[n][i]] = << >>
  /\ \A i \in DOMAIN Options[Root], t \in Target : State[Options[Root][i]][t] # "actived"
  /\ Radio \cap Checkbox = {}

VARIABLES
  m,      \* the menu
  heard   \* the events the tree listens to, of those the menu takes from it

menuVars == <<m, heard>>

Above(n) == CHOOSE p \in Option \cup {Root} : Contains(Options[p], n)
Beside(n) == ToSet(Options[Above(n)]) \ {n}
Group(n) == Options[n] # << >>

Init ==
  /\ m = [opened |-> FALSE, shown |-> FALSE, watched |-> FALSE, target |-> None,
          lit |-> {}, lighted |-> None, focused |-> Root, expanded |-> {},
          actived |-> {}, hidden |-> {}, disabled |-> {}, lent |-> {},
          timer |-> [n \in Option |-> "none"], nav |-> ToSet(Options[Root])]
  /\ heard = {"mouseover"}

-----------------------------------------------------------------------------
Visible(v, n) == n \notin v.hidden
Shown(v, n) == Visible(v, n) /\ (Above(n) = Root \/ (Above(n) \in v.expanded /\ Visible(v, Above(n))))

\* The first option of a list that is good.
First(list, good) ==
  LET at == {i \in DOMAIN list : list[i] \in good}
  IN  IF at = {} THEN None ELSE list[CHOOSE i \in at : \A j \in at : i <= j]

\* updateVisibles of a menu: the options the arrows go through, in their order.
updateNavList(v) ==
  LET p == IF v.focused = Root \/ v.focused \in v.expanded THEN v.focused ELSE Above(v.focused)
      q == IF p = Root \/ p \in v.expanded THEN p ELSE Root
  IN  [v EXCEPT !.nav = ToSet(Options[q]) \ v.hidden]

focus(v, n) == [v EXCEPT !.focused = n]
Unlight(v, n) == [v EXCEPT !.lit = @ \ {n}, !.lighted = IF @ = n THEN None ELSE @]

clearTimeout(v, n) == [v EXCEPT !.timer[n] = "none"]
\* What has no option below is not followed: its contraction is cancelled.
setTimeout(v, n, action) ==
  IF Group(n) /\ n \notin v.disabled THEN [v EXCEPT !.timer[n] = action] ELSE v

\* setLighted: the node known so far is unlit, be it the parent just lit.
setLighted(v, n) == [v EXCEPT !.lit = (@ \ {v.lighted}) \cup {n}, !.lighted = n]

beforeLight(v, n) ==
  LET s == Beside(n) \cap v.lit
  IN  IF s = {} THEN v ELSE LET o == CHOOSE o \in s : TRUE IN setTimeout(Unlight(v, o), o, "contract")

light(v, n) ==
  LET p == Above(n)
      alone == beforeLight(v, n)
      above == IF p = Root THEN alone ELSE clearTimeout(setLighted(beforeLight(alone, p), p), p)
  IN  setLighted(above, n)

contract(v, n) == updateNavList([v EXCEPT !.expanded = @ \ {n}])

\* Mutant: the options beside stay as they are.
beforeExpand_keeps(v, n) == v

beforeExpand(v, n) ==
  IF Beside(n) \cap v.expanded = {} THEN v
  ELSE updateNavList([v EXCEPT !.expanded = @ \ Beside(n)])

-----------------------------------------------------------------------------
close(v) == [v EXCEPT !.opened = FALSE, !.shown = FALSE, !.watched = FALSE]
Closed(v) == IF v.opened THEN close(v) ELSE v

\* The radios around n, up to a separator or an option of another type.
HasSep(v, n) == n \in Sep \cup v.lent
Rivals(v, n) ==
  LET list == Options[Above(n)]
      at(o) == CHOOSE i \in DOMAIN list : list[i] = o
      Between(i, j) == \A k \in i..j : list[k] \in Radio
  IN  {o \in Beside(n) :
         LET i == at(o) j == at(n)
         IN  IF i < j THEN Between(i, j) /\ \A k \in i..(j - 1) : ~HasSep(v, list[k])
             ELSE Between(j, i) /\ \A k \in j..(i - 1) : ~HasSep(v, list[k])}

\* The listener of active: the action, the other radios, and the menu closes but
\* for a checkbox.
active(v, n) ==
  LET w == [v EXCEPT !.actived = (@ \cup {n}) \ (IF n \in Radio THEN Rivals(v, n) ELSE {})]
  IN  IF n \in Checkbox THEN w ELSE Closed(w)

\* active(), with demandAction: a checkbox changes, any other option stays actived,
\* so that it is actived once.
isActivable(v, n) == n \notin v.disabled \cup v.hidden /\ ~Group(n)
demandActive(v, n) ==
  IF n \in v.actived THEN (IF n \in Checkbox THEN [v EXCEPT !.actived = @ \ {n}] ELSE v)
  ELSE IF isActivable(v, n) THEN active(v, n) ELSE v

\* reset adds the state that the option asks for.  It clears none: what it
\* removes are properties of the node, and a state is not one.  Being actived
\* runs the action and closes the menu.
reset(v, n) ==
  LET keep == State[n][v.target]
      list == Options[Above(n)]
      at == CHOOSE i \in DOMAIN list : list[i] = n
      w == CASE keep = "hidden"   -> updateNavList([v EXCEPT !.hidden = @ \cup {n}])
             [] keep = "disabled" -> [v EXCEPT !.disabled = @ \cup {n}]
             [] keep = "actived"  -> IF n \in v.actived THEN v ELSE active(v, n)
             [] OTHER -> v
  IN  IF n \in Sep /\ at > 1
        THEN [w EXCEPT !.lent = IF n \in w.hidden THEN @ \cup {list[at - 1]} ELSE @ \ {list[at - 1]}]
        ELSE w
\* What becomes of the menu as the options of a list are reset in turn.
resets(v, list) ==
  LET f[i \in 0..Len(list)] == IF i = 0 THEN v ELSE reset(f[i - 1], list[i]) IN f
resetAll(v, list) == resets(v, list)[Len(list)]

naviguate(v, n) == IF n = None THEN v ELSE light(focus(v, n), n)

expand(v, n, key) ==
  LET w == updateNavList([beforeExpand(v, n) EXCEPT !.expanded = @ \cup {n}])
      fresh == IF Shown(w, n) THEN resetAll(w, Options[n]) ELSE w
  IN  IF key THEN naviguate(fresh, First(Options[n], Option \ fresh.hidden)) ELSE fresh

\* Mutant: every option is reset, those of the closed groups too.
opening_all(v, t) ==
  resetAll([v EXCEPT !.opened = TRUE, !.target = t],
           Options[Root] \o FlattenSeq([i \in DOMAIN Options[Root] |-> Options[Options[Root][i]]]))

opening(v, t) == resetAll([v EXCEPT !.opened = TRUE, !.target = t], Options[Root])

open(v, t) ==
  LET w == [focus(updateNavList(opening(v, t)), Root) EXCEPT !.watched = TRUE, !.shown = TRUE]
  IN  IF v.opened THEN v ELSE w

-----------------------------------------------------------------------------
\* The listeners of open and close of tree.menu.js.  The tree heard no key
\* before its menu was first opened: from then on, when the menu is closed, it
\* hears the keys that the menu passes on to it as well.
Becomes(v) ==
  /\ m' = v
  /\ heard' = CASE ~m.opened /\ v.shown -> {}
                [] m.opened /\ ~v.opened -> {"mouseover", "keydown"}
                [] OTHER -> heard

\* The events of the tree.  A double click, or enter, actives the first option.
updateTarget(v, t) == [v EXCEPT !.target = t]
activeFirst(v) ==
  LET list == Options[Root]
      tried == IF v.opened THEN [i \in 0..Len(list) |-> v] ELSE resets(v, list)
      good == {i \in DOMAIN list : isActivable(tried[i], list[i])}
      i == CHOOSE j \in good : \A k \in good : j <= k
  IN  IF good = {} THEN tried[Len(list)] ELSE active(tried[i], list[i])

contextmenu(t) == Becomes(open(m, t))
dblclick(t) == ~m.opened /\ Becomes(activeFirst(updateTarget(m, t)))
blur == m.opened /\ Becomes(Closed(m))

\* The events of the menu.
Inside(n) == m.opened /\ Shown(m, n)

mousedown(n) == Inside(n) /\ Group(n) /\ Becomes(expand(m, n, FALSE))
mousemove(n) ==
  LET v == IF n \in m.lit THEN m ELSE light(focus(m, n), n)
  IN  Inside(n) /\ Becomes(setTimeout(v, n, "expand"))
mouseout ==
  /\ m.opened /\ m.lighted # None
  /\ Becomes(setTimeout(Unlight(m, m.lighted), m.lighted, "contract"))
click(n) == Inside(n) /\ Becomes(demandActive(m, n))

\* contract() of the root is close(), which answers the root; that of a group
\* answers the tree, whose focus(e) finds no node: the option keeps the focus.
esc ==
  LET n == m.focused
  IN  /\ m.opened
      /\ Becomes(IF n = Root \/ Above(n) = Root THEN Closed(focus(m, Root))
                 ELSE contract(m, Above(n)))
enter == m.opened /\ m.focused # Root /\ Becomes(demandActive(m, m.focused))

\* Up or down from the option that has the focus, or from the top when it is
\* not one of them, and around the ends.
arrow(key) ==
  LET n == m.focused
      list == Options[Above(CHOOSE o \in m.nav : TRUE)]
      i == IF n \in m.nav THEN CHOOSE k \in DOMAIN list : list[k] = n ELSE 0
      turned == SubSeq(list, i + 1, Len(list)) \o SubSeq(list, 1, i)
      back == Reverse(SubSeq(list, 1, i - 1)) \o Reverse(SubSeq(list, IF i = 0 THEN 1 ELSE i, Len(list)))
      next == First(IF key = "down" THEN turned ELSE back, m.nav \ m.disabled)
  IN  IF key \in {"up", "down"} THEN (IF m.nav = {} THEN m ELSE naviguate(m, next))
      ELSE IF n = Root THEN m
      ELSE IF key = "left"
        THEN IF n \in m.expanded THEN contract(m, n)
             ELSE IF Above(n) = Root THEN m
             ELSE naviguate(contract(m, Above(n)), Above(n))
        ELSE IF ~Group(n) THEN m
             ELSE IF n \in m.expanded THEN contract(m, n) ELSE expand(m, n, TRUE)
keydown(key) == m.opened /\ Becomes(arrow(key))

\* A timer is not cleared when the menu closes.
timeout(n) ==
  LET action == m.timer[n]
      v == clearTimeout(m, n)
  IN  /\ action # "none"
      /\ Becomes(IF n \in m.disabled THEN v
                 ELSE IF action = "expand" THEN (IF n \in m.expanded THEN v ELSE expand(v, n, FALSE))
                 ELSE IF n \in m.expanded THEN contract(v, n) ELSE v)

Next ==
  \/ \E t \in Target : contextmenu(t) \/ dblclick(t)
  \/ \E n \in Option : mousedown(n) \/ mousemove(n) \/ click(n) \/ timeout(n)
  \/ blur \/ mouseout \/ esc \/ enter
  \/ \E key \in {"up", "down", "left", "right"} : keydown(key)

Spec == Init /\ [][Next]_menuVars

-----------------------------------------------------------------------------
(* Whatever the mouse, the keys and the timers do, one option is lit, the  *)
(* one the menu knows, one group is open at each level, and one radio is   *)
(* chosen between two separators (menu.js:366-416, tree.explorer.js:299).  *)
OneOfEach ==
  /\ m.lit = {m.lighted} \ {None}
  /\ \A n \in m.expanded : Beside(n) \cap m.expanded = {}
  /\ \A n \in m.actived \cap Radio : Rivals(m, n) \cap m.actived = {}

(* The menu is shown, and the clicks beside it are watched, exactly while  *)
(* it is open; and an event goes to the menu or to the tree, not to both   *)
(* and not to none (menu.js:292-325, tree.menu.js:438-446).                *)
MenuOrTree ==
  /\ m.shown = m.opened /\ m.watched = m.opened
  /\ m.opened <=> heard = {}
=============================================================================
