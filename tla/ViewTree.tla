------------------------------ MODULE ViewTree ------------------------------
(***************************************************************************)
(* The tree of views of app/client/js/vrac/view: a view and its element    *)
(* (view.js), the states of a node (node.js), the children that are drawn  *)
(* when it is expanded and the classes that tell its place among them      *)
(* (rootnode.js), the lighted, focused and selected nodes and the pointer  *)
(* of the drag (tree.js, with the selection of client/node_modules).       *)
(*                                                                         *)
(* The views are those of a document that does not change: a view cannot   *)
(* be removed (removeChild clears parentNode and then reads it), but it can *)
(* be destroyed, and stays then among its siblings without an element.     *)
(***************************************************************************)
EXTENDS Integers, SequencesExt

CONSTANTS
  Node, Root, None,
  Kids     \* [Node -> sequence of nodes]: childNodes

VARIABLES
  v,       \* class: [Node -> the classes of its element], in: the elements that
           \* have a parent, ul: the nodes that have drawn their children, gone:
           \* the views that were destroyed, and lighted, focused, range, overed,
           \* where and dragging of the tree
  early    \* history: parents that drew a child that was already hidden

vars == <<v, early>>

parentNode(n) == CHOOSE p \in Node : Contains(Kids[p], n)
Inner == Node \ {Root}

has(w, n, c) == c \in w.class[n]
addClass(w, n, c) == [w EXCEPT !.class[n] = @ \union {c}]
removeClass(w, n, c) == [w EXCEPT !.class[n] = @ \ {c}]
toggleClass(w, n, c, force) == IF force THEN addClass(w, n, c) ELSE removeClass(w, n, c)

-----------------------------------------------------------------------------
\* The place among the siblings.

\* The nearest sibling that is not hidden.  Asking a view without element
\* whether it is hidden throws: such a sibling is where the search ends.
Nearest(w, list) ==
  LET i == SelectInSeq(list, LAMBDA m : m \in w.gone \/ ~has(w, m, "hidden"))
  IN IF i = 0 THEN None ELSE list[i]
prevVisible(w, n) ==
  LET all == Kids[parentNode(n)] IN Nearest(w, Reverse(SubSeq(all, 1, IndexFirstSubSeq(<<n>>, all) - 1)))
nextVisible(w, n) ==
  LET all == Kids[parentNode(n)] IN Nearest(w, SubSeq(all, IndexFirstSubSeq(<<n>>, all) + 1, Len(all)))

Throws(w, n) == {prevVisible(w, n), nextVisible(w, n)} \intersect w.gone # {}

\* Mutant: the sibling that becomes the first, or is no longer, is left alone.
edges_last(w, n, hidden) ==
  IF prevVisible(w, n) # None /\ nextVisible(w, n) = None
    THEN toggleClass(w, prevVisible(w, n), "last", hidden) ELSE w

edges(w, n, hidden) ==
  LET prev == prevVisible(w, n)
      next == nextVisible(w, n)
  IN CASE prev # None /\ next = None -> toggleClass(w, prev, "last", hidden)
       [] prev = None /\ next # None -> toggleClass(w, next, "first", hidden)
       [] OTHER -> w

changeStructure(w, n, hidden) ==
  LET prev == prevVisible(w, n)
      next == nextVisible(w, n)
      p == parentNode(n)
      beside == edges(w, n, hidden)
      own == toggleClass(toggleClass(beside, n, "first", (prev # None) = hidden), n, "last", (next # None) = hidden)
      above == CASE ~hidden -> removeClass(own, p, "empty")
                 [] hidden /\ prev = None /\ next = None -> addClass(own, p, "empty")
                 [] OTHER -> own
  IN IF Throws(w, n) THEN w ELSE toggleClass(above, n, "empty", Kids[n] = << >>)

insertElement(w, n) == changeStructure([w EXCEPT !.in = @ \union {n}], n, FALSE)

\* The children are drawn one after the other, up to the first that throws:
\* those after it never are.
insertChildren(w, n) ==
  LET list == Kids[n]
      stop == SelectInSeq(list, LAMBDA m : m \in w.gone \/ Throws(w, m))
      upTo == IF stop = 0 THEN list ELSE SubSeq(list, 1, IF list[stop] \in w.gone THEN stop - 1 ELSE stop)
  IN FoldLeft(insertElement, w, upTo)
renderChildren(w, n) == insertChildren([w EXCEPT !.ul = @ \union {n}], n)

Init ==
  /\ v = insertChildren([class |-> [n \in Node |-> {}], in |-> {Root}, ul |-> {Root}, gone |-> {},
                         lighted |-> None, focused |-> None, range |-> << >>,
                         overed |-> None, where |-> "inside", dragging |-> FALSE], Root)
  /\ early = {}

-----------------------------------------------------------------------------
\* The states of a node: nothing is told when the element has the class.
unlight(w, n) == IF has(w, n, "lighted") THEN [removeClass(w, n, "lighted") EXCEPT !.lighted = None] ELSE w
blur(w, n) == IF has(w, n, "focused") THEN [removeClass(w, n, "focused") EXCEPT !.focused = None] ELSE w
unselect(w, n) ==
  IF has(w, n, "selected") THEN [removeClass(w, n, "selected") EXCEPT !.range = RemoveFirst(@, n)] ELSE w

\* Mutant: the node that was lighted stays so.
unlighted_not(w) == w

unlighted(w) == IF w.lighted = None THEN w ELSE unlight(w, w.lighted)

light(w, n) == IF has(w, n, "lighted") THEN w ELSE [unlighted(addClass(w, n, "lighted")) EXCEPT !.lighted = n]
focus(w, n) ==
  IF has(w, n, "focused") THEN w
  ELSE LET on == addClass(w, n, "focused")
       IN [(IF w.focused = None THEN on ELSE blur(on, w.focused)) EXCEPT !.focused = n]

removeAll(w, control) == IF control THEN w ELSE FoldLeft(unselect, w, w.range)
select(w, n, control) ==
  IF has(w, n, "selected") THEN w
  ELSE [removeAll(addClass(w, n, "selected"), control) EXCEPT !.range = Append(@, n)]

expand(w, n) ==
  IF has(w, n, "expanded") THEN w
  ELSE LET on == addClass(w, n, "expanded") IN IF n \in w.ul THEN on ELSE renderChildren(on, n)
contract(w, n) == removeClass(w, n, "expanded")
toggleState(w, n) == IF has(w, n, "expanded") THEN contract(w, n) ELSE expand(w, n)

hide(w, n) == IF has(w, n, "hidden") THEN w ELSE changeStructure(addClass(w, n, "hidden"), n, TRUE)
show(w, n) == IF has(w, n, "hidden") THEN changeStructure(removeClass(w, n, "hidden"), n, FALSE) ELSE w

-----------------------------------------------------------------------------
isVisible(w, n) ==
  /\ ~has(w, n, "hidden")
  /\ LET shown[m \in Inner] ==
           parentNode(m) = Root \/ (/\ ~has(w, parentNode(m), "hidden") /\ has(w, parentNode(m), "expanded")
                                    /\ shown[parentNode(m)])
     IN shown[n]
\* The nodes the mouse can reach.
OnScreen ==
  LET drawn[m \in Node] == m = Root \/ (m \in v.in /\ drawn[parentNode(m)])
  IN {n \in Inner : isVisible(v, n) /\ drawn[n]}

Becomes(w) == v' = w /\ early' = early \union {n \in w.ul \ v.ul : \E i \in DOMAIN Kids[n] : has(v, Kids[n][i], "hidden")}

mouseover(n) == ~v.dragging /\ Becomes(IF n = Root THEN unlighted(v) ELSE light(v, n))
mouseout == ~v.dragging /\ Becomes(unlighted(v))

\* The listener of the tree and then that of the selection.
mousedown(n, tool, control) ==
  LET w == focus(IF tool THEN toggleState(v, n) ELSE v, n)
  IN /\ ~v.dragging
     /\ Becomes(CASE control /\ has(w, n, "selected") -> unselect(w, n)
                  [] control /\ ~has(w, n, "selected") -> select(w, n, TRUE)
                  [] OTHER -> select(IF has(w, n, "selected") THEN removeAll(w, FALSE) ELSE w, n, FALSE))

\* collapse: n is not unselected, it is put at the end.
click(n, control) ==
  LET others == removeAll([v EXCEPT !.range = RemoveFirst(@, n)], control)
  IN /\ ~v.dragging
     /\ Becomes(IF Contains(v.range, n) THEN [others EXCEPT !.range = Append(@, n)] ELSE removeAll(v, control))
dblclick(n) == ~v.dragging /\ Becomes(toggleState(v, n))

Hide(n) == n \notin v.gone /\ Becomes(hide(v, n))
Show(n) == n \notin v.gone /\ Becomes(show(v, n))

removeElement(w, n) == IF n \in w.in THEN [changeStructure(w, n, TRUE) EXCEPT !.in = @ \ {n}] ELSE w
unsetElement(w, n) == [removeElement(w, n) EXCEPT !.gone = @ \union {n}]

\* destroy: the states go first.  When the place among the siblings throws, the
\* element stays, and the view as well.
destroy(n) ==
  LET w == unselect(blur(unlight(v, n), n), n)
  IN /\ n \notin v.gone
     /\ Becomes(IF n \in w.in /\ Throws(w, n) THEN w ELSE unsetElement(w, n))

-----------------------------------------------------------------------------
\* Mutant: the place changes before the pointer that shows it is removed.
unpointed_late(w, where) == removeClass(removeClass(w, w.overed, "dragover"), w.overed, where)

removePointer(w, n) == removeClass(removeClass(w, n, "dragover"), n, w.where)
addPointer(w, n) == addClass(addClass(w, n, "dragover"), n, w.where)
unpointed(w, where) == removePointer(w, w.overed)

\* The pointer of a view that was destroyed cannot be removed: everything that
\* begins with that throws.
CanUnpoint == v.overed \notin v.gone
Unpointed(where) == IF v.overed = None THEN v ELSE unpointed(v, where)

getWhere(n) == IF n = Kids[Root][1] THEN {"inside"} ELSE {"before", "inside", "after"}

dragstart(n) == ~v.dragging /\ n \in OnScreen /\ Becomes([v EXCEPT !.dragging = TRUE])
dragenter(n) == v.dragging /\ Becomes(light(v, n))
dragover(n, where) ==
  /\ v.dragging /\ CanUnpoint /\ where \in getWhere(n)
  /\ Becomes(addPointer([light(Unpointed(where), n) EXCEPT !.overed = n, !.where = where], n))
dragleave(n) ==
  /\ v.dragging
  /\ Becomes(IF CanUnpoint /\ v.overed # None THEN unpointed(unlight(v, n), v.where) ELSE unlight(v, n))
\* No view has a method named move: nothing is moved.
drop(n) ==
  /\ v.dragging /\ CanUnpoint
  /\ LET w == [Unpointed(v.where) EXCEPT !.dragging = FALSE]
     IN Becomes(IF n # Root THEN [w EXCEPT !.overed = n]
                ELSE IF w.overed = None THEN w ELSE unlight(w, w.overed))
dragend == v.dragging /\ Becomes([(IF CanUnpoint THEN Unpointed(v.where) ELSE v) EXCEPT !.dragging = FALSE])

Pointing ==
  \/ \E n \in OnScreen :
       \/ mouseover(n)
       \/ \E control \in BOOLEAN, tool \in BOOLEAN : mousedown(n, tool, control)
       \/ \E control \in BOOLEAN : click(n, control)
  \/ mouseover(Root) \/ mouseout

Shaping ==
  \/ \E n \in OnScreen : dblclick(n)
  \/ \E n \in Inner : Hide(n) \/ Show(n)

Dragging ==
  \/ \E n \in OnScreen :
       \/ dragstart(n) \/ dragenter(n) \/ dragleave(n) \/ drop(n)
       \/ \E where \in {"before", "inside", "after"} : dragover(n, where)
  \/ drop(Root) \/ dragend

Next == Pointing \/ Shaping \/ Dragging \/ \E n \in Inner : destroy(n)

Spec == Init /\ [][Next]_vars

-----------------------------------------------------------------------------
(* The classes of the elements and the fields of the tree never disagree:  *)
(* the node that is lighted or focused is the one the tree knows, those    *)
(* that are selected are in the range, once, and the pointer of a drag is  *)
(* on the node it is over and nowhere else (tree.js:60-118, 160-242).      *)
ClassesAgree ==
  /\ {n \in Node : has(v, n, "lighted")} = {v.lighted} \ {None}
  /\ {n \in Node : has(v, n, "focused")} = {v.focused} \ {None}
  /\ {n \in Node : has(v, n, "selected")} = ToSet(v.range) /\ IsInjective(v.range)
  /\ \A n \in Node : v.class[n] \intersect {"dragover", "before", "inside", "after"} \in
       {{}} \union (IF n = v.overed THEN {{"dragover", v.where}} ELSE {})

(* Among the children that are drawn, the first one that is not hidden and *)
(* no other has the class first, and so for the last one, however they were*)
(* hidden, shown and destroyed (rootnode.js:43-68).  A node whose child was *)
(* hidden before it was drawn is left aside: that child takes the class of *)
(* its sibling.  So are views with a destroyed sibling: changeStructure    *)
(* throws there.                                                           *)
EdgesTrue ==
  \A p \in v.ul \ early :
    LET kids == SelectSeq(Kids[p], LAMBDA n : ~has(v, n, "hidden"))
    IN ToSet(Kids[p]) \intersect v.gone = {} =>
         \A i \in DOMAIN kids : /\ has(v, kids[i], "first") <=> i = 1
                                /\ has(v, kids[i], "last") <=> i = Len(kids)
=============================================================================
