-------------------------------- MODULE Tree --------------------------------
(***************************************************************************)
(* The tree of app/client/js/vrac/tree/tree.js: nodes with an ordered list *)
(* of children and a parent, and the actions remove, insert and move with  *)
(* the definitions that prepare, cancel and prevent them.                  *)
(*                                                                         *)
(* There is no variable here: an operator takes the tree it reads, a record*)
(* with the fields kids (node.children) and up (node.parentNode).          *)
(***************************************************************************)
EXTENDS Integers, FiniteSets, SequencesExt

CONSTANTS
  Node,  \* the nodes, the root of the tree among them
  Root,  \* tree.root
  None   \* no node

ASSUME TreeAssumption == Root \in Node /\ None \notin Node

Inner == Node \ {Root}

\* The first place of n in a list, from 0 as in the code; -1 when it has none.
IndexIn(list, n) == SelectInSeq(list, LAMBDA m : m = n) - 1

Siblings(t, n) == IF t.up[n] = None THEN << >> ELSE t.kids[t.up[n]]
GetIndex(t, n) == IndexIn(Siblings(t, n), n)

\* The nodes from n upwards, n included: those that every set holds which has n
\* and the parents of its nodes.
Above(t, n) ==
  {m \in Node :
     \A S \in SUBSET Node :
       n \in S /\ (\A x \in S : t.up[x] \in S \cup {None}) => m \in S}

\* contains
Holds(t, n, m) == n \in Above(t, m)
Attached(t) == {n \in Node : Holds(t, Root, n)}

\* The nodes that crossAll visits from n on, n included, in its order.
CrossAll(t, n) ==
  LET walk[m \in Node] ==
        <<m>> \o FlattenSeq([i \in DOMAIN t.kids[m] |-> walk[t.kids[m][i]]])
  IN  walk[n]

-----------------------------------------------------------------------------
\* A place: the parent and the index in its children, from 0.
Place(into, index) == [into |-> into, index |-> index]

Limit(i, n) == IF i > n THEN n ELSE i

\* `where' is 'before', 'after', 'inside' or a number.
GetDestination(t, into, where) ==
  CASE where = "before" -> Place(t.up[into], GetIndex(t, into))
    [] where = "after"  -> Place(t.up[into], GetIndex(t, into) + 1)
    [] where = "inside" -> Place(into, Len(t.kids[into]))

\* The root has noinsert, and no other node of the model has a property that
\* forbids something.
Never(action, n) == n = Root

\* The action move is given up: the node is already there.
MoveCancelled(t, n, place) ==
  /\ t.up[n] = place.into
  /\ \/ place.index = GetIndex(t, n)
     \/ place.index = GetIndex(t, n) + 1

\* Fault: a node may move below itself.
MovePreventedBelow(t, n, place) == Never("move", n) \/ Never("insert", place.into)

MovePrevented(t, n, place) ==
  \/ Never("move", n)
  \/ Holds(t, n, place.into)
  \/ Never("insert", place.into)

\* Fault: the place n leaves is still counted.
MovedIndexBefore(t, n, place) == place.index

\* The index of n among the children it is about to be part of, once it has
\* left the ones it is among.
MovedIndex(t, n, place) ==
  IF place.into = t.up[n] /\ place.index > GetIndex(t, n)
    THEN place.index - 1 ELSE place.index

-----------------------------------------------------------------------------
\* Treenode.emancipate and Treenode.adopt, without their listeners.
Detach(t, n) ==
  [t EXCEPT !.kids[t.up[n]] = RemoveFirst(@, n), !.up[n] = None]

Attach(t, p, n, index) ==
  [t EXCEPT !.kids[p] = InsertAt(@, Limit(index, Len(@)) + 1, n), !.up[n] = p]

\* What a tree is: parents and children agree, a child is there once, and
\* nothing is below itself.
IsTree(t) ==
  /\ \A n \in Node :
       /\ \A p \in Node : t.up[n] = p <=> Contains(t.kids[p], n)
       /\ Cardinality(ToSet(t.kids[n])) = Len(t.kids[n])
       /\ t.up[n] # None => ~Holds(t, n, t.up[n])
  /\ t.up[Root] = None
=============================================================================
