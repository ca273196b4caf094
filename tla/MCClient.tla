------------------------------ MODULE MCClient ------------------------------
(***************************************************************************)
(* The parts of the client and of its files for TLC.  They share no state: *)
(* a behaviour is about one of them, its scene, which keeps the variables  *)
(* of its module in v1, v2, ...                                            *)
(***************************************************************************)
EXTENDS Client, Controls, Sequences, TLC

CONSTANTS
  n0, n1, n2, n3, n4, n5, n6, n7, \* a root, nodes, options, files...
  k1, k2                          \* keys, values, targets

ModLists == {<<>>, <<n1>>, <<n1, n2>>}
Kinds == [plain |-> [n \in {} |-> None], special |-> [key |-> k1]]
Leaves(n) == [x \in n |-> <<>>]
Shapes ==
  LET Tree(root, kids) == [root |-> root, kids |-> kids @@ Leaves({n1, n2, n3, n4, n5})]
  IN {Tree(n1, n1 :> <<n2, n3>> @@ n2 :> <<n4>> @@ n5 :> <<n1>>), Tree(n1, n1 :> <<n2, n3>> @@ n3 :> <<n4, n5>>)}
Files == n1 :> <<n2, n3, n4>> @@ Leaves({n2, n3, n4, n5, n6})
Words == n1 :> "x" @@ n2 :> "x" @@ n3 :> "y" @@ n4 :> "z" @@ n5 :> "y" @@ n6 :> "y"
Grouped == n0 :> <<n1, n3, n2>> @@ n1 :> <<n4, n5, n6>> @@ n2 :> <<n7>> @@ Leaves({n3, n4, n5, n6, n7})
States ==
  [o \in {n1, n2, n3, n4, n5, n6, n7} |-> [t \in {k1, k2} |->
     CASE o = n3 /\ t = k2 -> "hidden"
       [] o = n2 /\ t = k2 -> "disabled"
       [] <<o, t>> \in {<<n4, k1>>, <<n5, k2>>} -> "actived"
       [] OTHER -> "none"]]
Shortcuts == [o \in {n1, n2, n3, n4, n5, n6, n7} |-> IF o \in {n3, n7} THEN k1 ELSE None]
Trunks == n0 :> None @@ n3 :> n1 @@ n1 :> n0 @@ n2 :> n0
Deep == n0 :> <<n1, n2>> @@ n1 :> <<n3>> @@ Leaves({n2, n3})
Wide == n0 :> <<n1>> @@ n1 :> <<n2, n3, n4>> @@ Leaves({n2, n3, n4})
Watched == {<<[object |-> n1, path |-> <<"p", "p">>]>>,
            <<[object |-> n1, path |-> <<"q">>], [object |-> n2, path |-> <<"p">>]>>}

VARIABLES
  v1, v2, v3, v4, v5, v6, v7, v8

N == INSTANCE Paths WITH
       Segment <- {"", ".", "..", "a"}, MaxFrom <- 4, MaxTo <- 3,
       from <- v1, to <- v2
I == INSTANCE Iterators WITH
       Vertex <- {n1, n2, n3, n4, n5}, Null <- None, Shapes <- Shapes, Verdicts <- {"ACCEPT", "SKIP", "REJECT"},
       shape <- v1, filter <- v2, current <- v3, it <- v4, cursor <- v5,
       hung <- v6
F == INSTANCE FileActions WITH
       Entry <- {n1, n2, n3, n4, n5, n6}, Root <- n0, Tops <- {n1, n5, n6}, Kids <- Files,
       File <- {n2, n4, n5, n6}, Empty <- {n4}, Bad <- {n6}, Word <- Words, MaxTrash <- 1, MaxMoves <- 1,
       disk <- v1, calls <- v2, fds <- v3, made <- v4, moves <- v5
B == INSTANCE Transfer WITH
       Node <- {n1, n2, n3, n0}, Root <- n0, Trunks <- Trunks, MaxSelected <- 2,
       t <- v1, selecteds <- v2, clip <- v3, marked <- v4, drag <- v5,
       pointer <- v6, last <- v7, hung <- v8
V == INSTANCE ViewTree WITH
       Node <- {n1, n2, n3, n0}, Root <- n0, Kids <- Deep,
       v <- v1, early <- v2
U == INSTANCE ViewTree WITH
       Node <- {n1, n2, n3, n4, n0}, Root <- n0, Kids <- Wide,
       v <- v1, early <- v2
E == INSTANCE Edition WITH
       Node <- {n1, n2}, Text <- {k1, k2},
       e <- v1, tree <- v2, focus <- v3, renaming <- v4, plain <- v5
A == INSTANCE ArrayObserver WITH
       Value <- Value, Undefined <- None, MaxLength <- 3, MaxPut <- 1, MaxRecords <- 3,
       array <- v1, oldObject <- v2, records <- v3

\* The variables a scene has no use for.
Unused(i) ==
  /\ IF i = 0 THEN v1 = 0 /\ v2 = 0 ELSE TRUE
  /\ IF i < 3 THEN v3 = 0 ELSE TRUE
  /\ IF i < 5 THEN v4 = 0 /\ v5 = 0 ELSE TRUE
  /\ IF i < 6 THEN v6 = 0 ELSE TRUE
  /\ IF i < 8 THEN v7 = 0 /\ v8 = 0 ELSE TRUE

Kept(i) ==
  /\ IF i = 0 THEN UNCHANGED <<v1, v2>> ELSE TRUE
  /\ IF i < 3 THEN UNCHANGED v3 ELSE TRUE
  /\ IF i < 5 THEN UNCHANGED <<v4, v5>> ELSE TRUE
  /\ IF i < 6 THEN UNCHANGED v6 ELSE TRUE
  /\ IF i < 8 THEN UNCHANGED <<v7, v8>> ELSE TRUE

\* The moves of the others: of a node with what is below it, between a cut and
\* its paste.
MovedMeanwhile == v3.nodes # << >> /\ (B!remove \/ B!move(n1, n2))

\* The scenes that are about one of the controls.
Controlled == {"demon", "manager", "menu", "contextmenu"}

\* The window and the edges move while one box has been open.
SmallBoxes ==
  scene = "boxes" => opens'[n2] = 0 \/ (space' = 4 /\ \A x \in Boxes : wanted'[x] = None)

\* Files of one table are removed, one at a time, with at most one write under
\* way.
SmallStore ==
  scene = "db" => \/ unlinks' = {}
                  \/ /\ mkdirs' = {} /\ (\A c, d \in creates' : c = d)
                     /\ \E i \in 0..MaxItems : unlinks' = {<<n1, i>>}

\* A property that is on no path does not change; of the objects only n1 holds
\* itself.
SmallMemory ==
  scene = "path" => /\ memory'.heap[n1]["q"] # n1
                    /\ memory'.heap[n2]["p"] # n2 /\ memory'.heap[n2]["q"] = None

MCInit ==
  /\ ControlInit
  /\ \/ Init /\ Unused(0)
     \/ AtRest /\ scene \in Controlled /\ Unused(0)
     \/ /\ AtRest
        /\ \/ scene = "paths" /\ N!Init /\ Unused(2)
           \/ scene = "pointing" /\ V!Init /\ Unused(2)
           \/ scene = "dragging" /\ V!Init /\ Unused(2)
           \/ scene = "shaping" /\ U!Init /\ Unused(2)
           \/ scene = "array" /\ A!Init /\ Unused(3)
           \/ scene = "files" /\ F!Init /\ Unused(5)
           \/ scene = "edition" /\ E!Init /\ Unused(5)
           \/ scene = "iterators" /\ I!Init /\ Unused(6)
           \/ scene = "clipboard" /\ B!Init /\ Unused(8)
           \/ scene = "drag" /\ B!Init /\ Unused(8)

MCNext ==
  \/ Next /\ SmallBoxes /\ SmallStore /\ SmallMemory /\ Kept(0) /\ UNCHANGED controlVars
  \/ /\ UNCHANGED clientVars /\ Kept(0)
     /\ \/ scene = "demon" /\ DemonNext
        \/ scene = "manager" /\ ManagerNext
        \/ scene = "menu" /\ MenuNext /\ n6 \notin menu'.lighted \cup menu'.actived
        \/ scene = "contextmenu" /\ TreeMenuNext
  \/ /\ UNCHANGED <<clientVars, controlVars>>
     /\ \/ scene = "paths" /\ N!Next /\ Kept(2)
        \/ scene = "pointing" /\ (V!Pointing \/ \E n \in {n1, n2, n3} : V!destroy(n)) /\ Kept(2)
        \/ scene = "dragging" /\ (V!Dragging \/ \E n \in {n1, n2, n3} : V!destroy(n)) /\ Kept(2)
        \/ scene = "shaping" /\ U!Shaping /\ Kept(2)
        \/ scene = "array" /\ A!Next /\ Kept(3)
        \/ scene = "files" /\ F!Next /\ Kept(5)
        \/ scene = "edition" /\ E!Next /\ Kept(5)
        \/ scene = "iterators" /\ I!Next /\ Kept(6)
        \/ scene = "clipboard" /\ ~v8 /\ (B!Selection \/ B!Clipboard \/ MovedMeanwhile) /\ Kept(8)
        \/ scene = "drag" /\ ~v8 /\ (B!Selection \/ B!DragAndDrop) /\ Kept(8)

MCSpec == MCInit /\ [][MCNext]_<<clientVars, controlVars, v1, v2, v3, v4, v5, v6, v7, v8>>

-----------------------------------------------------------------------------
(* A path that is normalized, resolved, cut or made relative leads where it*)
(* did (path.js).                                                          *)
SamePlace == scene = "paths" => N!SamePlace

(* An iterator answers the nodes in the order of the tree.                 *)
IteratorsFollowTheWalk ==
  [][scene = "iterators" => I!FollowsTheWalk]_<<scene, v1, v2, v3, v4, v5, v6>>

(* An insert makes all of its data, or says that it did not.               *)
InsertTrue == scene = "files" => F!InsertTrue

(* The nodes that are moved land together and in order; the marks of the   *)
(* clipboard and of the drag are on the nodes they are about.              *)
TransfersLand == scene \in {"clipboard", "drag"} => B!LandsTogether /\ B!MarksTrue

(* The classes of the views of nodes say what the controllers know, the    *)
(* name that is edited is the one the user types in.                       *)
ViewsTrue ==
  /\ scene \in {"pointing", "dragging"} => V!ClassesAgree /\ V!EdgesTrue
  /\ scene = "shaping" => U!ClassesAgree /\ U!EdgesTrue
  /\ scene = "edition" => E!EditionTrue

(* The splices an observer of an array is told rebuild it; those made by   *)
(* comparing are as few as they can be, and both are in ascending order.   *)
SplicesReplay == scene = "array" => A!Replays /\ A!SplicesTidy

Values == Permutations(Value)
=============================================================================
