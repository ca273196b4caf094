----------------------------- MODULE Iterators -----------------------------
(***************************************************************************)
(* The two iterators over a tree of the client: NodeIterator, which asks a *)
(* filter whether to ACCEPT a node, to SKIP it or to REJECT it with what   *)
(* is below, one turn of its loops at a time; and TreeIterator, without a  *)
(* filter.  The root of the iterators need not be the root of the tree.    *)
(***************************************************************************)
EXTENDS Integers, SequencesExt, FiniteSets

CONSTANTS
  Vertex, Null,
  Shapes,   \* trees: [kids |-> [Vertex -> Seq(Vertex)], root |-> the root of the iterators]
  Verdicts  \* what a filter may answer: "ACCEPT", "SKIP", "REJECT"

VARIABLES
  shape, filter,
  current,  \* NodeIterator: the node of the last answer
  it,       \* its call: [op, node, phase], and the answer when phase is "done"
  cursor,   \* TreeIterator: its current node
  hung      \* its next does not return

vars == <<shape, filter, current, it, cursor, hung>>

root == shape.root
kids(n) == shape.kids[n]
parentNode(n) == IF \E p \in Vertex : Contains(kids(p), n) THEN CHOOSE p \in Vertex : Contains(kids(p), n) ELSE Null
sibling(n, by) ==
  LET p == parentNode(n)
      i == SelectInSeq(kids(p), LAMBDA m : m = n) + by
  IN IF p = Null THEN Null ELSE IF i \in DOMAIN kids(p) THEN kids(p)[i] ELSE Null

\* Mutant: a node that is skipped is not entered.
firstChild_notSkipped(n) == IF kids(n) = <<>> \/ filter[n] = "SKIP" THEN Null ELSE Head(kids(n))

firstChild(n) == IF kids(n) = <<>> THEN Null ELSE Head(kids(n))
lastChild(n) == IF kids(n) = <<>> THEN Null ELSE Last(kids(n))

Init ==
  /\ shape \in Shapes /\ filter \in [Vertex -> Verdicts]
  /\ current = root /\ it = [op |-> "none", node |-> root, phase |-> "done"]
  /\ cursor = root /\ hung = FALSE

At(n, phase) == [it EXCEPT !.node = n, !.phase = phase]
Done(n) == At(n, "done")

\* A call: nextNode and previousNode go from current, the others from root.
Start(op) ==
  /\ it.phase = "done" /\ ~hung
  /\ it' = [op |-> op, node |-> IF op \in {"next", "prev"} THEN current ELSE root,
            phase |-> CASE op \in {"next", "first"} -> "down" [] op = "prev" -> "side" [] OTHER -> "last"]
  /\ UNCHANGED <<shape, filter, current, cursor, hung>>

Turn(from, step) == it.phase = from /\ it' = step /\ UNCHANGED <<shape, filter, cursor, hung>>
                      /\ current' = IF step.phase = "done" /\ step.node # Null THEN step.node ELSE current

\* next: the loop over the first children, the loop over the next siblings.
nextDown ==
  LET n == firstChild(it.node)
  IN Turn("down", IF n = Null THEN At(it.node, "up")
                  ELSE CASE filter[n] = "ACCEPT" -> Done(n)
                         [] filter[n] = "REJECT" -> At(n, "up")
                         [] OTHER -> At(n, "down"))

nextUp ==
  LET n == sibling(it.node, 1)
      p == parentNode(it.node)
  IN Turn("up", IF n # Null THEN CASE filter[n] = "ACCEPT" -> Done(n)
                                   [] filter[n] = "SKIP" -> At(n, "down")
                                   [] OTHER -> At(n, "up")
                ELSE IF p \in {Null, root} THEN Done(Null) ELSE At(p, "up"))

\* prev: one sibling at most is looked at before the parent is; the loop over the
\* last children stops at a rejected one.
prevSide ==
  LET n == sibling(it.node, -1)
  IN Turn("side", IF n = Null \/ (n # Null /\ filter[n] = "REJECT") THEN At(it.node, "parent") ELSE At(n, "deep"))

prevDeep ==
  LET n == lastChild(it.node)
  IN Turn("deep", IF n # Null /\ filter[it.node] # "REJECT" THEN At(n, "deep")
                  ELSE IF filter[it.node] = "ACCEPT" THEN Done(it.node) ELSE At(it.node, "parent"))

prevParent ==
  LET p == parentNode(it.node)
  IN Turn("parent", IF p \in {Null, root} THEN Done(Null)
                    ELSE IF filter[p] = "ACCEPT" THEN Done(p) ELSE At(p, "side"))

\* last: the loop over the last children, from the root, whose filter is not asked;
\* what it comes to and does not accept is left by prev.
lastDeep ==
  LET n == lastChild(it.node)
      asked == it.node # root
  IN Turn("last", IF n # Null /\ (asked => filter[it.node] # "REJECT") THEN At(n, "last")
                  ELSE IF asked /\ filter[it.node] = "ACCEPT" THEN Done(it.node) ELSE At(it.node, "side"))

-----------------------------------------------------------------------------
\* TreeIterator.  On a last child without children the loop of next looks at
\* the same node for ever.
lastNode(n) ==
  LET down[k \in 0..Cardinality(Vertex)] ==
        IF k = 0 \/ down[k - 1] = Null \/ lastChild(down[k - 1]) = Null THEN IF k = 0 THEN lastChild(n) ELSE down[k - 1]
        ELSE lastChild(down[k - 1])
  IN down[Cardinality(Vertex)]

cursorNext ==
  /\ it.phase = "done" /\ ~hung
  /\ LET n == IF firstChild(cursor) # Null THEN firstChild(cursor)
              ELSE IF cursor = root THEN cursor ELSE sibling(cursor, 1)
     IN IF n = Null THEN hung' = TRUE /\ UNCHANGED cursor ELSE cursor' = n /\ UNCHANGED hung
  /\ UNCHANGED <<shape, filter, current, it>>

cursorPrev ==
  /\ it.phase = "done" /\ ~hung /\ cursor # root
  /\ LET n == sibling(cursor, -1)
     IN cursor' = IF n = Null THEN parentNode(cursor) ELSE IF lastNode(n) = Null THEN n ELSE lastNode(n)
  /\ UNCHANGED <<shape, filter, current, it, hung>>

Next ==
  \/ \E op \in {"next", "prev", "first", "last"} : Start(op)
  \/ nextDown \/ nextUp \/ prevSide \/ prevDeep \/ prevParent \/ lastDeep
  \/ cursorNext \/ cursorPrev

Spec == Init /\ [][Next]_vars

-----------------------------------------------------------------------------
\* The nodes below the root in the order of a walk, less what is rejected and
\* what is below it; of these, those that are accepted.
Walk(all) ==
  LET walk[n \in Vertex] == FlattenSeq([i \in DOMAIN kids(n) |->
        LET m == kids(n)[i] IN IF ~all /\ filter[m] = "REJECT" THEN <<>> ELSE <<m>> \o walk[m]])
  IN walk[root]
Accepted == SelectSeq(Walk(FALSE), LAMBDA n : filter[n] = "ACCEPT")
Before(s, n) == IF s = <<>> \/ n = Head(s) \/ ~Contains(s, n) THEN Null ELSE s[SelectInSeq(s, LAMBDA m : m = n) - 1]
After(s, n) ==
  IF s = <<>> THEN Null ELSE IF n = root THEN Head(s)
  ELSE IF n = Last(s) \/ ~Contains(s, n) THEN Null ELSE s[SelectInSeq(s, LAMBDA m : m = n) + 1]

Earlier(n, m) ==
  LET s == <<root>> \o Walk(TRUE)
  IN SelectInSeq(s, LAMBDA o : o = n) < SelectInSeq(s, LAMBDA o : o = m)

(* With a root that has children, first and next answer the accepted node  *)
(* that follows in the walk, whatever the filter skips and rejects.  prev  *)
(* and last answer none or an accepted node that comes earlier, below      *)
(* nothing rejected; and the one before, or the last one, when all are     *)
(* accepted (of the others some are missed, since one sibling only is      *)
(* tried).  TreeIterator.prev goes to the node before in the walk, down to *)
(* the root.  Its next goes to the node after, from any node but a last    *)
(* child without children: from there, and from there only, it does not    *)
(* return (treeIterator.js:92).                                            *)
FollowsTheWalk ==
  /\ it'.phase = "done" /\ it.phase # "done" /\ kids(root) # <<>> =>
       LET accepted == \A n \in Vertex : filter[n] = "ACCEPT" IN
       /\ it.op = "first" => it'.node = After(Accepted, root)
       /\ it.op = "next" /\ (current = root \/ Contains(Accepted, current)) => it'.node = After(Accepted, current)
       /\ it.op = "prev" /\ Contains(Accepted, current) =>
            \/ it'.node = Null \/ (Contains(Accepted, it'.node) /\ Earlier(it'.node, current))
       /\ it.op = "last" => it'.node = Null \/ Contains(Accepted, it'.node)
       /\ it.op = "prev" /\ accepted /\ current # root => it'.node = Before(Walk(TRUE), current)
       /\ it.op = "last" /\ accepted => it'.node = Last(Walk(TRUE))
  /\ cursorPrev => cursor' = Before(<<root>> \o Walk(TRUE), cursor)
  /\ cursorNext /\ kids(root) # <<>> =>
       /\ hung' <=> cursor # root /\ kids(cursor) = <<>> /\ cursor = Last(kids(parentNode(cursor)))
       /\ ~hung' => cursor' = After(Walk(TRUE), cursor)
IteratorsFollowTheWalk == [][FollowsTheWalk]_vars
=============================================================================
