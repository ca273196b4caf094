------------------------------ MODULE Explorer ------------------------------
(***************************************************************************)
(* The explorer of app/client/js/vrac/tree: the view of a tree of          *)
(* treeView.js (trunks, branches, the list of visible nodes, the classes   *)
(* that draw the lines between them) with the states, the selection and    *)
(* the listeners of the DOM of tree.explorer.js.                           *)
(*                                                                         *)
(* A handler calls others in the middle of its work: each of them is an    *)
(* operator from the view it finds to the view it leaves, and an action is *)
(* what the user or the program starts, with everything it calls.  A state *)
(* is set by applyAction, which looks at none of the definitions `cancel'  *)
(* and `prevent' of the state.                                             *)
(***************************************************************************)
EXTENDS Tree

CONSTANTS
  MaxListed,  \* bound: the entries of selecteds the model follows
  MaxHidden,  \* bound: the nodes hidden at the same time
  Few,        \* bound: the nodes that come and go in the scenes other than "moves"
  Scenes      \* what is driven: "moves", "structure", "hover", "select", "keys"

ASSUME ExplorerAssumption == Few \subseteq Inner /\ MaxListed \in Nat /\ MaxHidden \in Nat

VARIABLES
  view,   \* the tree and its view
  scene,  \* the events of this behaviour, one of Scenes
  moved   \* history: the last move, when it was the last thing done

vars == <<view, scene, moved>>

Plain(type) == [type |-> type, control |-> FALSE, shift |-> FALSE]
Events(type) == [type : {type}, control : BOOLEAN, shift : BOOLEAN]
NoEvent == Plain("none")

-----------------------------------------------------------------------------
(***************************************************************************)
(* What is visible.                                                        *)
(***************************************************************************)
Shown(v, list) == SelectSeq(list, LAMBDA m : m \notin v.hidden)

\* The siblings of n before it, the closest one first, and after it.
Prevs(v, n) == Reverse(SubSeq(Siblings(v, n), 1, GetIndex(v, n)))
Nexts(v, n) == SubSeq(Siblings(v, n), GetIndex(v, n) + 2, Len(Siblings(v, n)))
FirstOf(list) == IF list = << >> THEN None ELSE Head(list)
PrevVisible(v, n)  == FirstOf(Shown(v, Prevs(v, n)))
NextVisible(v, n)  == FirstOf(Shown(v, Nexts(v, n)))
FirstVisible(v, n) == FirstOf(Shown(v, v.kids[n]))

\* updateVisibles: a hidden node is passed over with what is below it, and so
\* is what is below a node that is drawn and not expanded.
Crossed(v) ==
  LET below[n \in Node] ==
        FlattenSeq([i \in DOMAIN v.kids[n] |->
          LET m == v.kids[n][i]
          IN  IF m \in v.hidden THEN << >>
              ELSE IF m \notin v.trunk THEN below[m]
              ELSE <<m>> \o (IF m \in v.expanded THEN below[m] ELSE << >>)])
  IN  below[Root]
UpdateVisibles(v) == [v EXCEPT !.visibles = Crossed(v)]

IsVisible(v, n) == n = Root \/ Contains(v.visibles, n)
MayHaveVisible(v, n) == n = Root \/ (n \in v.expanded /\ IsVisible(v, n))

-----------------------------------------------------------------------------
(***************************************************************************)
(* The drawing: v.trunk and v.branch are the nodes that have one; v.first, *)
(* v.last and v.expandable are the trunks with the class.                  *)
(***************************************************************************)
Put(S, n, value) == IF value THEN S \cup {n} ELSE S \ {n}

DrawFirst(v, n, value) == IF n \in v.trunk THEN [v EXCEPT !.first = Put(@, n, value)] ELSE v
DrawLast(v, n, value)  == IF n \in v.trunk THEN [v EXCEPT !.last = Put(@, n, value)] ELSE v
DrawExpandable(v, n, value) ==
  IF n \in v.trunk THEN [v EXCEPT !.expandable = Put(@, n, value)] ELSE v

\* prevent of expand: no node of the model is disabled.
IsExpandable(v, n) == FirstVisible(v, n) # None \/ v.kids[n] # << >>
UpdateExpandable(v, n) == DrawExpandable(v, n, IsExpandable(v, n))

\* Fault: the node beside is not drawn again.
ChangeVisibilityAlone(v, n, hidden) ==
  IF v.up[n] = None \/ v.up[n] \notin v.branch THEN v
  ELSE DrawLast(DrawFirst(v, n, (PrevVisible(v, n) # None) = hidden),
                n, (NextVisible(v, n) # None) = hidden)

ChangeVisibility(v, n, hidden) ==
  LET prev == PrevVisible(v, n)
      next == NextVisible(v, n)
      beside == IF prev # None /\ next = None THEN DrawLast(v, prev, hidden)
                ELSE IF next # None /\ prev = None THEN DrawFirst(v, next, hidden)
                ELSE v
  IN  IF v.up[n] = None \/ v.up[n] \notin v.branch THEN v
      ELSE DrawLast(DrawFirst(beside, n, (prev # None) = hidden), n, (next # None) = hidden)

\* createTrunk on nodes without one: an expanded node draws its branch, and so
\* the trunks below it.
CreateTrunks(v, nodes) ==
  LET sprout[k \in 0..Cardinality(Node)] ==
        IF k = 0 THEN nodes
        ELSE sprout[k - 1] \cup
               (UNION {ToSet(v.kids[n]) : n \in sprout[k - 1] \cap v.expanded} \ v.trunk)
      new == sprout[Cardinality(Node)] \ v.trunk
  IN  [v EXCEPT !.trunk = @ \cup new,
                !.branch = @ \cup (new \cap v.expanded),
                !.first = @ \cup {n \in new : PrevVisible(v, n) = None},
                !.last = @ \cup {n \in new : NextVisible(v, n) = None},
                !.expandable = @ \cup {n \in new : IsExpandable(v, n)}]

CreateBranch(v, n) ==
  IF n \in v.branch THEN v
  ELSE CreateTrunks([v EXCEPT !.branch = @ \cup {n}], ToSet(v.kids[n]) \ v.trunk)

DrawInsert(v, p, n) ==
  LET drawn == CreateTrunks(v, {n} \ v.trunk)
      shown == IF MayHaveVisible(drawn, p) THEN UpdateVisibles(drawn) ELSE drawn
  IN  IF n \in v.hidden THEN drawn ELSE ChangeVisibility(shown, n, FALSE)

DrawHidden(v, n, value) ==
  LET parent == UpdateExpandable(v, v.up[n])
      listed == IF value THEN IsVisible(parent, n) ELSE MayHaveVisible(parent, v.up[n])
  IN  IF n \notin v.trunk THEN parent
      ELSE ChangeVisibility(IF listed THEN UpdateVisibles(parent) ELSE parent, n, value)

DrawExpanded(v, n, value) ==
  LET drawn == UpdateExpandable(v, n)
      branched == IF value THEN CreateBranch(drawn, n) ELSE drawn
  IN  IF n \notin v.trunk THEN v
      ELSE IF IsVisible(v, n) THEN UpdateVisibles(branched) ELSE branched

-----------------------------------------------------------------------------
(***************************************************************************)
(* The states.  v.lighted, v.focused, v.selected, v.expanded and v.hidden  *)
(* are the nodes with the state; v.ref names the lighted and the focused   *)
(* node the tree knows, and v.selecteds lists the selected ones.           *)
(***************************************************************************)
Expand(v, n)   == DrawExpanded([v EXCEPT !.expanded = @ \cup {n}], n, TRUE)
Contract(v, n) == DrawExpanded([v EXCEPT !.expanded = @ \ {n}], n, FALSE)
ToggleExpanded(v, n) == IF n \in v.expanded THEN Contract(v, n) ELSE Expand(v, n)

Hide(v, n)   == DrawHidden([v EXCEPT !.hidden = @ \cup {n}], n, TRUE)
Unhide(v, n) == DrawHidden([v EXCEPT !.hidden = @ \ {n}], n, FALSE)

\* The listeners of light: the node known so far is unlighted, once another
\* one is known.
Light(v, n) == [v EXCEPT !.lighted = (@ \ {v.ref.lighted}) \cup {n}, !.ref.lighted = n]
Unlight(v, n) ==
  [v EXCEPT !.lighted = @ \ {n}, !.ref.lighted = IF @ = n THEN None ELSE @]
UnlightAll(v) == IF v.ref.lighted = None THEN v ELSE Unlight(v, v.ref.lighted)

Unselect(v, n) == [v EXCEPT !.selected = @ \ {n}, !.selecteds = RemoveFirst(@, n)]
UnselectEach(v, nodes) ==
  [v EXCEPT !.selected = @ \ ToSet(nodes), !.selecteds = FoldLeft(RemoveFirst, @, nodes)]
UnselectAll(v) == UnselectEach(v, v.selecteds)

CheckUnselect(v, n, e) ==
  /\ e # NoEvent /\ ~e.control /\ ~e.shift
  /\ n \in v.selected => e.type # "mousedown"
UnselectOther(v, n, e) ==
  IF CheckUnselect(v, n, e)
    THEN UnselectEach(v, SelectSeq(v.selecteds, LAMBDA m : m # n)) ELSE v

\* select on a selected node lists it once more.
Select(v, n, e) ==
  LET alone == UnselectOther(v, n, e)
  IN  [alone EXCEPT !.selected = @ \cup {n}, !.selecteds = Append(@, n)]

\* A list is selected with shift or control: nothing is unselected.
SelectEach(v, nodes) ==
  [v EXCEPT !.selected = @ \cup ToSet(nodes), !.selecteds = @ \o nodes]

\* selectTo: the visible nodes from n to m, and no other.
SelectTo(v, n, m) ==
  LET from == IndexIn(v.visibles, n)
      to == IndexIn(v.visibles, m)
      min == IF from > to THEN to ELSE from
      max == IF from > to THEN from ELSE to
      Outside(x) == IndexIn(v.visibles, x) \notin min..max
      rest == UnselectEach(v, SelectSeq(v.selecteds, Outside))
  IN  IF from = -1 \/ to = -1 THEN v
      ELSE SelectEach(rest, Reverse(SubSeq(v.visibles, min + 1, max + 1)))

\* The node the shift key selects from, before a focus.
Shifted(v, n, e) ==
  LET from == IF v.shiftNode # None THEN v.shiftNode
              ELSE IF v.ref.focused # None THEN v.ref.focused
              ELSE FirstOf(v.visibles)
  IN  IF e.type \notin {"mousedown", "keydown"} THEN v
      ELSE IF ~e.shift THEN [v EXCEPT !.shiftNode = None]
      ELSE IF from = None THEN v
      ELSE SelectTo([v EXCEPT !.shiftNode = from], n, from)
Focus(v, n, e) ==
  LET w == Shifted(v, n, e)
  IN  [w EXCEPT !.focused = (@ \ {w.ref.focused}) \cup {n}, !.ref.focused = n]

-----------------------------------------------------------------------------
(***************************************************************************)
(* Nodes that come and go.                                                 *)
(***************************************************************************)
\* Each node that leaves is unselected.  unselect() returns the tree, so that the
\* blur() and the unlight() behind it are those of the tree, which do nothing
\* without a node: a node that leaves stays focused and lighted.
LeaveEach(v, nodes) == UnselectEach(v, nodes)

\* Fault: the list of the visible nodes is made before the node leaves.
EmancipateEarly(v, n) ==
  LET p == v.up[n]
      parent == IF Len(v.kids[p]) = 1 THEN DrawExpandable(v, p, FALSE) ELSE UpdateExpandable(v, p)
      left == Detach(UpdateVisibles(ChangeVisibility(parent, n, TRUE)), n)
  IN  LeaveEach(left, CrossAll(left, n))

\* The branch of the parent and the classes are drawn before the node leaves
\* its parent, the list of the visible nodes is made after.
Emancipate(v, n) ==
  LET p == v.up[n]
      parent == IF Len(v.kids[p]) = 1 THEN DrawExpandable(v, p, FALSE) ELSE UpdateExpandable(v, p)
      left == Detach(ChangeVisibility(parent, n, TRUE), n)
      gone == LeaveEach(left, CrossAll(left, n))
  IN  IF IsVisible(gone, n) THEN UpdateVisibles(gone) ELSE gone

Adopt(v, p, n, index) ==
  LET held == Attach(v, p, n, index)
      drawn == IF p \in v.branch THEN DrawInsert(held, p, n) ELSE held
      parent == IF Len(drawn.kids[p]) = 1 THEN UpdateExpandable(drawn, p) ELSE drawn
  IN  IF IsVisible(parent, p) THEN Expand(parent, p) ELSE parent

Move(v, n, place) ==
  Adopt(Emancipate(v, n), place.into, n, MovedIndex(v, n, place))

-----------------------------------------------------------------------------
Init ==
  /\ view = [kids |-> [n \in Node |-> << >>], up |-> [n \in Node |-> None],
             trunk |-> {}, branch |-> {Root}, first |-> {}, last |-> {}, expandable |-> {},
             visibles |-> << >>, expanded |-> {}, hidden |-> {},
             lighted |-> {}, focused |-> {}, selected |-> {}, selecteds |-> << >>,
             ref |-> [lighted |-> None, focused |-> None], shiftNode |-> None]
  /\ scene \in Scenes
  /\ moved = << >>

Becomes(v) == view' = v /\ moved' = << >> /\ UNCHANGED scene
In(s) == scene \in s

There == Attached(view) \ {Root}
Out == Node \ Attached(view)

\* Outside of the scenes about it, the tree is there before the events, and a
\* node that was removed does not come back.
Planting(n) ==
  /\ ~In({"structure", "moves"}) => view.selecteds = << >> /\ view.ref.focused = None /\ n \notin view.trunk
  /\ ~In({"moves"}) => n \in Few

\* root.adopt: how a tree gets its top node.
Load(n) ==
  /\ Planting(n) /\ n \in Out /\ view.up[n] = None
  /\ Becomes(Adopt(view, Root, n, Len(view.kids[Root])))

\* demandAction('insert', p, [n, index]) of a node that is nowhere.
DemandInsert(p, n, index) ==
  /\ Planting(n) /\ n \in Out /\ view.up[n] = None
  /\ ~Never("insert", p)
  /\ Becomes(Adopt(view, p, n, index))

DemandRemove(n) ==
  /\ In({"structure", "hover", "keys"}) /\ ~Never("remove", n)
  /\ Becomes(Emancipate(view, n))

\* demandAction('move', n, [m, where]): arguments, cancel, prevent, method.
DemandMove(n, m, where) ==
  LET place == GetDestination(view, m, where)
  IN  /\ In({"structure", "moves"})
      /\ place.into # None
      /\ ~MoveCancelled(view, n, place)
      /\ ~MovePrevented(view, n, place)
      /\ view' = Move(view, n, place)
      /\ moved' = <<n, m, where>>
      /\ UNCHANGED scene

SetExpanded(n) == In({"structure"}) /\ Becomes(ToggleExpanded(view, n))
SetHidden(n) ==
  /\ In({"structure"})
  /\ n \notin view.hidden => Cardinality(view.hidden) < MaxHidden
  /\ Becomes(IF n \in view.hidden THEN Unhide(view, n) ELSE Hide(view, n))

-----------------------------------------------------------------------------
(***************************************************************************)
(* The listeners of the DOM.  The target is a visible node, or none.       *)
(***************************************************************************)
Targets == ToSet(view.visibles)
Room == Len(view.selecteds) < MaxListed

MouseOver(n) == In({"hover"}) /\ Becomes(Light(view, n))
MouseOut == In({"hover"}) /\ Becomes(UnlightAll(view))

\* On the tool (the arrow), and with control, a state is toggled.
MouseDown(n, e, tool) ==
  LET opened == IF tool THEN ToggleExpanded(view, n) ELSE view
      chosen == IF e.control /\ n \in view.selected THEN Unselect(opened, n)
                ELSE Select(opened, n, e)
  IN  /\ In({"select"}) \/ (In({"keys"}) /\ e = Plain("mousedown"))
      /\ Room
      /\ tool => e = Plain("mousedown")
      /\ Becomes(Focus(chosen, n, e))
MouseDownBeside == In({"select"}) /\ Becomes(UnselectAll(view))
Click(n, e) == In({"select"}) /\ Becomes(UnselectOther(view, n, e))

\* keynav and naviguate
Naviguate(v, n, e) == Select(Focus(v, n, e), n, e)
NavTo(list, e) == IF list = << >> THEN view ELSE Naviguate(view, Head(list), e)
KeyUp(e)   == NavTo(Reverse(SubSeq(view.visibles, 1, IndexIn(view.visibles, view.ref.focused))), e)
KeyDown(e) == NavTo(SubSeq(view.visibles, IndexIn(view.visibles, view.ref.focused) + 2, Len(view.visibles)), e)

KeyLeft(e) ==
  LET n == view.ref.focused
  IN  IF n \in view.expanded THEN ToggleExpanded(view, n)
      ELSE IF view.up[n] # None THEN Naviguate(view, view.up[n], e) ELSE view
KeyRight(e) ==
  LET n == view.ref.focused
  IN  IF IsExpandable(view, n) THEN ToggleExpanded(view, n)
      ELSE IF FirstVisible(view, n) # None THEN Naviguate(view, FirstVisible(view, n), e)
      ELSE view

KeyEvent(e, v) == In({"keys"}) /\ Room /\ view.ref.focused # None /\ Becomes(v)
SelectAll(e) == KeyEvent(e, SelectEach(view, view.visibles)) /\ e.control

Structure ==
  \/ \E n \in Inner : Load(n)
  \/ \E p \in There, n \in Inner, i \in 0..Cardinality(Node) : (i = Len(view.kids[p]) \/ (In({"structure"}) /\ i < Len(view.kids[p]))) /\ DemandInsert(p, n, i)
  \/ \E n \in There : DemandRemove(n)
  \/ \E n, m \in There, where \in {"before", "after", "inside"} : DemandMove(n, m, where)
  \/ \E n \in There : SetExpanded(n)
  \/ \E n \in There : SetHidden(n)

Mouse ==
  \/ \E n \in Targets : MouseOver(n)
  \/ MouseOut
  \/ \E n \in Targets, e \in Events("mousedown"), tool \in BOOLEAN : MouseDown(n, e, tool)
  \/ MouseDownBeside
  \/ \E n \in Targets, e \in Events("click") : Click(n, e)

Keys ==
  \E e \in Events("keydown") :
    \/ SelectAll(e)
    \/ KeyEvent(e, KeyUp(e))
    \/ KeyEvent(e, KeyDown(e))
    \/ KeyEvent(e, KeyLeft(e))
    \/ KeyEvent(e, KeyRight(e))

Next == Structure \/ Mouse \/ Keys
Spec == Init /\ [][Next]_vars

-----------------------------------------------------------------------------
(***************************************************************************)
(* Properties.                                                             *)
(***************************************************************************)

\* insert, remove and move keep a tree: parents and children agree, a child is
\* there once, nothing is below itself (tree.js:342-379, 757-791).
TreeShape == IsTree(view)

\* Whatever calls updateVisibles and whatever does not, the list of visible
\* nodes is the one a fresh crossing of the tree finds.
VisiblesFresh == view.visibles = Crossed(view)

\* A trunk has the arrow exactly when its node has children.
ExpandableDrawn == view.expandable = {n \in view.trunk : view.kids[n] # << >>}

\* What is drawn is what is there, after any sequence of changes, each of which
\* updates its own part of it (treeView.js:84-105, tree.explorer.js:379-421).
Drawn == VisiblesFresh /\ ExpandableDrawn

\* The classes first and last are on the first and the last visible child.
LinesDrawn ==
  \A n \in {m \in view.trunk \ view.hidden : view.up[m] # None} :
    /\ n \in view.first <=> PrevVisible(view, n) = None
    /\ n \in view.last <=> NextVisible(view, n) = None

\* A step that draws a branch, or leaves it undrawn, over a trunk that is there
\* already: the trunk keeps the classes of the place it was drawn in, for
\* changeVisibility is left before the branch is made (treeView.js:94).
ReusesTrunk ==
  \E n \in view.trunk : view'.up[n] # None /\ view'.up[n] \notin view.branch

\* Any other step keeps the lines right, of the node it touches and of the nodes
\* beside it (changeVisibility, treeView.js:89-105).
LinesKept == [][LinesDrawn /\ ~ReusesTrunk => LinesDrawn']_view

\* A moved node is where the user asked for it, whether it left the same
\* parent or another one (tree.js:689-704, 757-762).
MoveLands ==
  moved # << >> =>
    LET n == moved[1]
        m == moved[2]
    IN  CASE moved[3] = "before" ->
               view.up[n] = view.up[m] /\ GetIndex(view, n) + 1 = GetIndex(view, m)
          [] moved[3] = "after" ->
               view.up[n] = view.up[m] /\ GetIndex(view, n) = GetIndex(view, m) + 1
          [] moved[3] = "inside" -> Last(view.kids[m]) = n

\* A selected node can be unselected with the others: it is in selecteds.
SelectionListed == view.selected \subseteq ToSet(view.selecteds)

\* One node at most is lighted and one is focused, those the tree knows of, in the
\* tree or, since nothing takes that from a node that leaves, out of it.
OneOfEach ==
  /\ view.lighted = {view.ref.lighted} \ {None}
  /\ view.focused = {view.ref.focused} \ {None}

\* The nodes with a state are the ones the tree knows of, after any sequence of
\* events of the mouse and of the keys and of removals (tree.explorer.js:147-316).
StatesKnown == SelectionListed /\ OneOfEach

\* What the user sees is what the tree has and knows (treeView.js:31-105).
ShownAsItIs == Drawn /\ StatesKnown
=============================================================================
