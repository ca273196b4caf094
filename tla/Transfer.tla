------------------------------ MODULE Transfer ------------------------------
(***************************************************************************)
(* How nodes are moved by hand: the clipboard of                           *)
(* app/client/js/vrac/tree/tree.clipboard.js and the drag and drop of      *)
(* tree.drag.js, over the tree of tree.js.  Both end in tree.move of a list*)
(* of nodes, which applies the action and does not demand it: nothing      *)
(* prepares its arguments, and nothing prevents it.                        *)
(*                                                                         *)
(* Every node of the tree is visible.  Nodes are removed and moved between *)
(* a cut and its paste: the clipboard listens to moveout, which nothing     *)
(* emits, so that they stay in it.                                         *)
(***************************************************************************)
EXTENDS Tree

CONSTANTS
  Trunks,      \* [Node -> the parent it has at first, or None]
  MaxSelected  \* bound: the nodes selected at the same time

VARIABLES
  t,       \* the tree
  selecteds, \* tree.selecteds, in the order they were selected
  clip,    \* the clipboard: its nodes and its effect, and what was seen when they were taken
  marked,  \* [Node -> the property clipboard, or None]
  drag,    \* what is dragged, the node below the mouse and where in it
  pointer, \* [Node -> the classes of its trunk that show where it would drop]
  last,    \* history: what the last paste or drop moved, where, and what was seen
  hung     \* the crossing of a loop of nodes does not end

vars == <<t, selecteds, clip, marked, drag, pointer, last, hung>>

Visibles(tree) == Tail(CrossAll(tree, Root))

Init ==
  /\ t = [kids |-> [n \in Node |-> SetToSortSeq({m \in Node : Trunks[m] = n}, LAMBDA a, b : TRUE)],
          up |-> Trunks]
  /\ selecteds = << >>
  /\ clip = [nodes |-> << >>, effect |-> None, seen |-> << >>] /\ marked = [n \in Node |-> None]
  /\ drag = [nodes |-> << >>, overed |-> None, where |-> None]
  /\ pointer = [n \in Node |-> {}]
  /\ last = << >> /\ hung = FALSE

-----------------------------------------------------------------------------
\* Mutant: the nodes come in the order they were selected.
ordered_not(nodes) == nodes

\* orderBy('getVisibleIndex()')
ordered(nodes) == SelectSeq(Visibles(t), LAMBDA n : Contains(nodes, n))

\* move, of each node in turn, as the list is given to tree.move: whatever
\* `where' is, adopt finds that it is no number and puts the node at the end.
emancipate(tree, n) == IF tree.up[n] = None THEN tree ELSE Detach(tree, n)
moveEach(nodes, into) ==
  FoldLeft(LAMBDA tree, n : Attach(emancipate(tree, n), into, n, Len(tree.kids[into])), t, nodes)

\* What leaves its parent, and what is below it, is unselected.
Leave(nodes) ==
  selecteds' = SelectSeq(selecteds, LAMBDA n : \A i \in DOMAIN nodes : ~Holds(t, nodes[i], n))

Moved(nodes, into, back, seen) ==
  IF \E i \in DOMAIN nodes : Holds(t, nodes[i], into)
    THEN hung' = TRUE /\ UNCHANGED <<t, selecteds, last>>
    ELSE /\ t' = moveEach(IF back THEN Reverse(nodes) ELSE nodes, into)
         /\ Leave(nodes)
         /\ last' = [nodes |-> ToSet(nodes), into |-> into, back |-> back, seen |-> seen]
         /\ UNCHANGED hung

\* The option remove of the menu: all that is selected.
remove ==
  /\ drag.nodes = << >> /\ selecteds # << >>
  /\ t' = FoldLeft(emancipate, t, selecteds) /\ Leave(selecteds) /\ last' = << >>
  /\ UNCHANGED <<clip, marked, drag, pointer, hung>>

\* Another move of a node to the end of another one: an undo or a redo, which
\* demand the action.
move(n, into) ==
  /\ drag.nodes = << >> /\ Holds(t, Root, n) /\ Holds(t, Root, into)
  /\ LET place == GetDestination(t, into, "inside")
     IN ~MoveCancelled(t, n, place) /\ ~MovePrevented(t, n, place)
  /\ t' = moveEach(<<n>>, into) /\ Leave(<<n>>) /\ last' = << >>
  /\ UNCHANGED <<clip, marked, drag, pointer, hung>>

select(n) ==
  /\ drag.nodes = << >> /\ Len(selecteds) < MaxSelected /\ ~Contains(selecteds, n)
  /\ selecteds' = Append(selecteds, n) /\ last' = << >>
  /\ UNCHANGED <<t, clip, marked, drag, pointer, hung>>
unselectAll ==
  /\ drag.nodes = << >> /\ selecteds # << >> /\ selecteds' = << >> /\ last' = << >>
  /\ UNCHANGED <<t, clip, marked, drag, pointer, hung>>

-----------------------------------------------------------------------------
Unmark(marks, nodes) == [n \in Node |-> IF Contains(nodes, n) THEN None ELSE marks[n]]

\* Mutant: the nodes that were in the clipboard keep their property.
clearData_kept(marks) == marks

clearData(marks) == Unmark(marks, clip.nodes)

\* setData: the nodes are marked, and then those that were there are unmarked,
\* be they in both.  Nothing selected changes the effect and nothing else.
setData(effect) ==
  LET nodes == ordered(selecteds)
      marks == [n \in Node |-> IF Contains(nodes, n) THEN effect ELSE marked[n]]
  IN  IF nodes = << >> THEN clip' = [clip EXCEPT !.effect = effect] /\ UNCHANGED marked
      ELSE clip' = [nodes |-> nodes, effect |-> effect, seen |-> Visibles(t)] /\ marked' = clearData(marks)

cut == drag.nodes = << >> /\ setData("cut") /\ last' = << >> /\ UNCHANGED <<t, selecteds, drag, pointer, hung>>
copy == drag.nodes = << >> /\ setData("copy") /\ last' = << >> /\ UNCHANGED <<t, selecteds, drag, pointer, hung>>

esc ==
  /\ drag.nodes = << >> /\ clip.nodes # << >>
  /\ clip' = [clip EXCEPT !.nodes = << >>] /\ marked' = clearData(marked) /\ last' = << >>
  /\ UNCHANGED <<t, selecteds, drag, pointer, hung>>

\* The nodes that were copied are not cloned: inserting nothing throws, and
\* nothing is changed.
paste(n) ==
  /\ drag.nodes = << >> /\ clip.nodes # << >> /\ clip.effect = "cut"
  /\ clip' = [clip EXCEPT !.nodes = << >>] /\ marked' = clearData(marked)
  /\ IF Contains(clip.nodes, n) THEN last' = << >> /\ UNCHANGED <<t, selecteds, hung>>
                               ELSE Moved(clip.nodes, n, FALSE, clip.seen)
  /\ UNCHANGED <<drag, pointer>>

-----------------------------------------------------------------------------
removePointer ==
  [n \in Node |-> IF n = drag.overed THEN pointer[n] \ {"dragover", drag.where} ELSE pointer[n]]

\* Mutant: the place changes before the pointer that shows it is removed.
unpointed_late(where) ==
  [n \in Node |-> IF n = drag.overed THEN pointer[n] \ {"dragover", where} ELSE pointer[n]]

unpointed(where) == removePointer

\* canDrop: one of the nodes can be moved there (checkAction is given the place,
\* or the node itself when there is no place); the others are moved as well.
canDrop(n, where) ==
  \/ Contains(drag.nodes, n)
  \/ \E i \in DOMAIN drag.nodes : ~MovePrevented(t, drag.nodes[i], GetDestination(t, n, where))

dragstart(n) ==
  /\ drag.nodes = << >> /\ Contains(selecteds, n)
  /\ drag' = [drag EXCEPT !.nodes = selecteds] /\ last' = << >>
  /\ UNCHANGED <<t, selecteds, clip, marked, pointer, hung>>

\* In chrome the data cannot be read before the drop: any place will do.
dragover(n, where, chrome) ==
  /\ drag.nodes # << >>
  /\ n = Root => where = "inside"
  /\ drag' = [drag EXCEPT !.overed = n, !.where = where]
  /\ pointer' = IF chrome \/ canDrop(n, where)
                  THEN [unpointed(where) EXCEPT ![n] = @ \cup {"dragover", where}]
                  ELSE unpointed(where)
  /\ last' = << >>
  /\ UNCHANGED <<t, selecteds, clip, marked, hung>>

dragleave ==
  /\ drag.nodes # << >> /\ drag.overed # None
  /\ pointer' = removePointer /\ last' = << >>
  /\ UNCHANGED <<t, selecteds, clip, marked, drag, hung>>

\* The browser drops where the last dragover was accepted.
drop ==
  LET nodes == ordered(drag.nodes)
  IN  /\ drag.nodes # << >> /\ drag.overed # None /\ pointer[drag.overed] # {}
      /\ pointer' = removePointer
      /\ drag' = [drag EXCEPT !.nodes = << >>]
      /\ IF Contains(nodes, drag.overed) THEN last' = << >> /\ UNCHANGED <<t, selecteds, hung>>
         ELSE Moved(nodes, drag.overed, drag.where = "after", Visibles(t))
      /\ UNCHANGED <<clip, marked>>

dragend ==
  /\ drag.nodes # << >> /\ drag' = [drag EXCEPT !.nodes = << >>]
  /\ pointer' = removePointer /\ last' = << >>
  /\ UNCHANGED <<t, selecteds, clip, marked, hung>>

Selection == unselectAll \/ \E n \in Inner \cap Attached(t) : select(n)

Clipboard == cut \/ copy \/ esc \/ \E n \in Attached(t) : paste(n)

Meanwhile == remove \/ \E n \in Inner, into \in Node : move(n, into)

DragAndDrop ==
  \/ \E n \in Inner : dragstart(n)
  \/ \E n \in Node, where \in {"before", "inside", "after"}, chrome \in BOOLEAN : dragover(n, where, chrome)
  \/ dragleave \/ drop \/ dragend

Next == ~hung /\ (Selection \/ Clipboard \/ Meanwhile \/ DragAndDrop)

Spec == Init /\ [][Next]_vars

-----------------------------------------------------------------------------
(* What was pasted or dropped is at the end of its new parent, one node    *)
(* after the other and in the order it was seen, or backwards when it was  *)
(* dropped after a node, even those that were moved or removed between the *)
(* cut and the paste, which come back; and a tree is still a tree, a node  *)
(* dropped below itself aside (tree.clipboard.js:53-77,                    *)
(* tree.drag.js:254-264).                                                  *)
LandsTogether ==
  /\ IsTree(t)
  /\ last # << >> =>
       LET kids == t.kids[last.into]
           k == Cardinality(last.nodes)
           inOrder == SelectSeq(last.seen, LAMBDA n : n \in last.nodes)
       IN  /\ k <= Len(kids)
           /\ SubSeq(kids, Len(kids) - k + 1, Len(kids)) = IF last.back THEN Reverse(inOrder) ELSE inOrder

(* What is marked is what the clipboard or the pointer of the drag shows:  *)
(* a node that is marked is in the clipboard, and the place that is shown  *)
(* is the one where the nodes would drop, and the only one.                *)
MarksTrue ==
  /\ \A n \in Node : marked[n] # None => Contains(clip.nodes, n)
  /\ \A n \in Node : pointer[n] # {} =>
       drag.overed = n /\ pointer[n] = {"dragover", drag.where} /\ drag.nodes # << >>
=============================================================================
