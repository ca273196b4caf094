------------------------------- MODULE Edition -------------------------------
(***************************************************************************)
(* The name of a node edited in the tree (app/client/js/vrac/tree/         *)
(* tree.edition.js, and editableTextNode.js, which does it for any text).  *)
(* While the input is there the tree does not hear its keys.  An edition   *)
(* begins when the user renames a node, or when a node that is to be named *)
(* comes, which may be while another one is edited: the input that takes   *)
(* the focus ends the other by its blur, in the middle of its own addInput.*)
(*                                                                         *)
(* Left out: the width of the input, the selection in it.                  *)
(***************************************************************************)
EXTENDS FiniteSets, Sequences

CONSTANTS
  Node,        \* the nodes of the tree
  Text,        \* the names
  None

VARIABLES
  e,        \* name, and per node the input, the value in it and the text shown
  tree,     \* what the tree hears, and if it may have the focus
  focus,    \* the node whose input has the focus, "tree" or None
  renaming, \* [Node -> None, or the name that waits for the server]
  plain     \* a text node edited alone: input, value, text, emitter

vars == <<e, tree, focus, renaming, plain>>

Init ==
  /\ \E names \in [Node -> Text] :
       e = [name |-> names, input |-> [n \in Node |-> FALSE],
            value |-> names, text |-> names, drag |-> [n \in Node |-> TRUE]]
  /\ tree = [hears |-> {"keydown", "dblclick"}, tabIndex |-> TRUE, unselectable |-> TRUE]
  /\ focus = "tree" /\ renaming = [n \in Node |-> None]
  /\ plain = [input |-> FALSE, emitter |-> FALSE, value |-> None, text |-> None]

-----------------------------------------------------------------------------
\* s is all of it: [e, tree, focus, renaming].  rename goes to the demon, which
\* does it, now or when the server says so, or not at all.
State == [e |-> e, tree |-> tree, focus |-> focus, renaming |-> renaming]
Renamed(s, n, x) == IF s.e.name[n] = x THEN s ELSE [s EXCEPT !.renaming[n] = x]

\* Mutant: the text that adapt wrote in the name stays.
named_not(en, n) == en

named(en, n) == [en EXCEPT !.text[n] = en.name[n]]

\* Mutant: esc leaves the tree deaf.
given_back(key) == key # "esc"

given(key) == TRUE

removeInput(s, n, key) ==
  LET out == [s EXCEPT
        !.e = named([@ EXCEPT !.input[n] = FALSE, !.drag[n] = TRUE], n),
        !.tree = IF given(key)
                 THEN [hears |-> @.hears \union {"keydown", "dblclick"},
                       tabIndex |-> TRUE, unselectable |-> TRUE]
                 ELSE @,
        !.focus = "tree"]
  IN IF key = "esc" THEN out ELSE Renamed(out, n, s.e.value[n])

createInput(en, n) == [en EXCEPT !.input[n] = TRUE, !.value[n] = en.name[n]]

\* addInput: select gives the input the focus, and the blur ends the edition of
\* the node that had it, which gives the focus to the tree first.
addInput(s, n) ==
  LET quiet == [s EXCEPT
        !.tree = [hears |-> @.hears \ {"keydown", "dblclick"}, tabIndex |-> FALSE, unselectable |-> FALSE],
        !.e = [createInput(@, n) EXCEPT !.drag[n] = FALSE, !.text[n] = s.e.name[n]]]
      left == IF s.focus \in Node THEN removeInput(quiet, s.focus, "blur") ELSE quiet
  IN [left EXCEPT !.focus = n]

Become(s) ==
  e' = s.e /\ tree' = s.tree /\ focus' = s.focus /\ renaming' = s.renaming /\ UNCHANGED plain

\* The user renames a node: he was on the tree, so no input has the focus.
edit(n) ==
  /\ focus = "tree" /\ ~e.input[n]
  /\ Become(addInput(State, n))

\* A node that is to be named is inserted, whatever the user is at.
insert(n) == ~e.input[n] /\ Become(addInput(State, n))

\* A key in the input: adapt writes the value in the name, to measure it.
adapt(n, x) ==
  /\ focus = n /\ e.value[n] # x
  /\ Become([State EXCEPT !.e.value[n] = x, !.e.text[n] = x])

remove(n, key) == focus = n /\ Become(removeInput(State, n, key))

\* The server answers: the name is changed, and shown by the event, or not.
renamed(n) ==
  /\ renaming[n] # None
  /\ \/ e' = [e EXCEPT !.name[n] = renaming[n], !.text[n] = renaming[n]]
     \/ UNCHANGED e
  /\ renaming' = [renaming EXCEPT ![n] = None]
  /\ UNCHANGED <<tree, focus, plain>>

-----------------------------------------------------------------------------
\* editableTextNode.js: the text is the value at once, and esc does not give
\* it back; end does nothing the second time, when the input that is removed
\* tells its blur.
plainEdit ==
  /\ ~plain.input
  /\ plain' = [plain EXCEPT !.input = TRUE, !.emitter = TRUE, !.value = plain.text]
  /\ UNCHANGED <<e, tree, focus, renaming>>

plainAdapt(x) ==
  /\ plain.input /\ plain.value # x
  /\ plain' = [plain EXCEPT !.value = x, !.text = x]
  /\ UNCHANGED <<e, tree, focus, renaming>>

\* Mutant: the emitter of the input is not turned off.
off_not(p) == p.emitter

off(p) == FALSE

plainEnd ==
  /\ plain.input
  /\ plain' = [plain EXCEPT !.input = FALSE, !.emitter = off(plain)]
  /\ UNCHANGED <<e, tree, focus, renaming>>

InTree ==
  \E n \in Node :
    \/ edit(n) \/ insert(n) \/ renamed(n)
    \/ \E x \in Text : adapt(n, x)
    \/ \E key \in {"enter", "tab", "esc", "blur"} : remove(n, key)
Alone == plainEdit \/ plainEnd \/ \E x \in Text : plainAdapt(x)

Next == InTree \/ Alone

Spec == Init /\ [][Next]_vars

-----------------------------------------------------------------------------
\* One node is edited at a time, with the focus; a node that is not edited shows
\* its name, can be dragged, and when none is the tree hears its keys and has
\* the focus, whatever way the last edition ended.
EditionTrue ==
  /\ \A n \in Node : e.input[n] <=> focus = n
  /\ \A n \in Node : ~e.input[n] => e.text[n] = e.name[n] /\ e.drag[n]
  /\ ~(\E n \in Node : e.input[n]) =>
       /\ tree.hears = {"keydown", "dblclick"} /\ tree.tabIndex /\ tree.unselectable
       /\ focus = "tree"
  /\ plain.emitter <=> plain.input
=============================================================================
