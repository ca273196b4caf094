------------------------------ MODULE Selector ------------------------------
(***************************************************************************)
(* The two selectors of the client: an input that shows the option that was *)
(* chosen, and a list that opens below it.  The element of                 *)
(* tree/tree.selector.js does everything itself; the view of               *)
(* view/selector.js only opens and closes, and two controllers             *)
(* (controller.js, controller/opened.js and controller/selected.js) listen *)
(* to it: one opens it, the other keeps the choice.                        *)
(*                                                                         *)
(* What the list does to its options is not here: its events are inputs.   *)
(***************************************************************************)
EXTENDS Naturals

CONSTANTS
  Option, Default, \* the options, the one the list of the element selects at first
  None

VARIABLES
  kind,     \* "element" or "view"
  hasFocus, \* the focus is in the selector
  s,        \* opened and disabled; selected and previous (defaultSelected of the
            \* element), the choice and the one that was told; value, what the
            \* input shows; lit, the option that is selected in the list
  open,     \* of the view: the controllers named opened that listen to it, and
            \* whether it knows one by its name
  renewed,  \* history: the controller that keeps the choice was replaced
  left,     \* history: the focus has left once
  told      \* history: the last change that was told, the default before that

vars == <<kind, hasFocus, s, open, renewed, left, told>>

Init ==
  /\ kind \in {"element", "view"} /\ hasFocus = FALSE /\ renewed = FALSE /\ left = FALSE
  /\ told = IF kind = "element" THEN Default ELSE None
  /\ s = [opened |-> FALSE, disabled |-> FALSE, selected |-> None, value |-> None,
          previous |-> IF kind = "element" THEN Default ELSE None,
          lit |-> IF kind = "element" THEN Default ELSE None]
  /\ open = [listening |-> IF kind = "view" THEN 1 ELSE 0, known |-> kind = "view"]

-----------------------------------------------------------------------------
setSelected(t, o) == [t EXCEPT !.selected = o, !.value = IF t.selected # o THEN o ELSE @]

opened(t) == IF t.opened \/ t.disabled THEN t ELSE [t EXCEPT !.opened = TRUE]

\* Mutant: giving the choice up is not a change.
changed_chosen(t) == t.previous # t.selected /\ t.selected # None

\* checkChange and the blur of the controller: whether a change is told.
changed(t) == t.previous # t.selected
checkChange(t) ==
  LET u == [t EXCEPT !.previous = IF changed(t) THEN t.selected ELSE @]
  IN IF u.previous # None THEN [u EXCEPT !.lit = u.previous] ELSE u
Told(t) == told' = IF changed(t) THEN t.selected ELSE told

-----------------------------------------------------------------------------
\* The element.  A disabled one can be closed.
close(t) == IF t.opened THEN checkChange([t EXCEPT !.opened = FALSE]) ELSE t

Element == kind = "element" /\ UNCHANGED <<kind, open, renewed>>

enable == Element /\ s.disabled /\ s' = [s EXCEPT !.disabled = FALSE] /\ UNCHANGED <<hasFocus, told>>
disable == Element /\ ~s.disabled /\ s' = [s EXCEPT !.disabled = TRUE] /\ UNCHANGED <<hasFocus, told>>

\* On the input or on the list; disable removes the listener.
mousedown(inList) ==
  /\ Element /\ ~s.disabled
  /\ inList => s.opened
  /\ hasFocus' = TRUE
  /\ s' = IF inList THEN s ELSE IF s.opened THEN close(s) ELSE opened(s)
  /\ IF ~inList /\ s.opened THEN Told(s) ELSE UNCHANGED told

\* The list selects the option below the mouse: that is not the choice yet.
mousemove(o) == Element /\ s.opened /\ s' = [s EXCEPT !.lit = o] /\ UNCHANGED <<hasFocus, told>>

\* active, by a click or by enter: with the list closed the choice changes too,
\* and is told when the focus leaves.
active(o) ==
  /\ Element
  /\ hasFocus' = TRUE
  /\ s' = close(setSelected(s, o))
  /\ IF s.opened THEN Told(setSelected(s, o)) ELSE UNCHANGED told
click(o) == s.opened /\ active(o)

keydown(key) ==
  /\ hasFocus
  /\ \/ /\ key = "space" /\ Element /\ s' = opened(s) /\ UNCHANGED <<hasFocus, told>>
     \/ /\ key = "esc" /\ Element /\ s' = close(s) /\ UNCHANGED hasFocus
        /\ IF s.opened THEN Told(s) ELSE UNCHANGED told
     \/ /\ key = "arrow" /\ Element /\ \E o \in Option : s' = [s EXCEPT !.lit = o]
        /\ UNCHANGED <<hasFocus, told>>
     \/ key = "enter" /\ s.lit # None /\ active(s.lit)

blur ==
  /\ Element /\ hasFocus /\ hasFocus' = FALSE
  /\ s' = close(checkChange(s)) /\ Told(s) /\ left' = TRUE

-----------------------------------------------------------------------------
\* The view: a disabled one can be neither opened nor closed.
View == kind = "view" /\ UNCHANGED kind
closeView(t) == IF t.disabled THEN t ELSE [t EXCEPT !.opened = FALSE]
toggle(t) == IF t.opened THEN closeView(t) ELSE opened(t)

enableView == View /\ s' = [s EXCEPT !.disabled = ~@] /\ UNCHANGED <<hasFocus, open, renewed, told>>

\* Each controller that listens toggles: two of them do nothing.
mousedownView ==
  /\ View /\ hasFocus' = TRUE
  /\ s' = IF open.listening = 1 THEN toggle(s) ELSE IF open.listening = 2 THEN toggle(toggle(s)) ELSE s
  /\ UNCHANGED <<open, renewed, told>>
keydownView(key) ==
  /\ View /\ hasFocus /\ open.listening > 0
  /\ s' = IF key = "space" THEN opened(s) ELSE closeView(s)
  /\ UNCHANGED <<hasFocus, open, renewed, told>>

\* An option is selected, or no longer, in the list: the mouse that moves
\* selects nothing, but it takes the choice from the option it leaves.
selectView(o, mouse) ==
  /\ View /\ s.opened
  /\ s' = IF mouse THEN s ELSE setSelected(s, o)
  /\ UNCHANGED <<hasFocus, open, renewed, told>>
unselectView(o) ==
  /\ View /\ s.opened /\ s.selected = o
  /\ s' = [s EXCEPT !.selected = None, !.value = None]
  /\ UNCHANGED <<hasFocus, open, renewed, told>>
activeView(o) ==
  /\ View /\ s.opened /\ hasFocus
  /\ s' = closeView(setSelected(s, o)) /\ UNCHANGED <<hasFocus, open, renewed, told>>

\* The listeners of both controllers.
blurView ==
  /\ View /\ hasFocus /\ hasFocus' = FALSE
  /\ s' = [(IF open.listening > 0 THEN closeView(s) ELSE s) EXCEPT !.previous = IF changed(s) THEN s.selected ELSE @]
  /\ Told(s) /\ left' = TRUE /\ UNCHANGED <<open, renewed>>

\* A new controller is known instead of the one there is, which still listens.
setView ==
  /\ View /\ open.listening < 2
  /\ open' = [listening |-> open.listening + 1, known |-> TRUE] /\ UNCHANGED <<hasFocus, s, renewed, told>>
unsetView ==
  /\ View /\ open.known
  /\ open' = [listening |-> open.listening - 1, known |-> FALSE] /\ UNCHANGED <<hasFocus, s, renewed, told>>
\* The controller that keeps the choice is destroyed and another one is made:
\* it has chosen nothing, and the input shows what it showed.
renew ==
  /\ View /\ renewed' = TRUE
  /\ s' = [s EXCEPT !.selected = None, !.previous = None] /\ UNCHANGED <<hasFocus, open, told>>

Stays ==
  \/ enable \/ disable \/ enableView \/ mousedownView \/ setView \/ unsetView \/ renew
  \/ \E inList \in BOOLEAN : mousedown(inList)
  \/ \E key \in {"space", "esc", "arrow", "enter"} : keydown(key)
  \/ \E key \in {"space", "esc"} : keydownView(key)
  \/ \E o \in Option : \/ mousemove(o) \/ click(o) \/ unselectView(o) \/ activeView(o)
                       \/ \E mouse \in BOOLEAN : selectView(o, mouse)

Next == blur \/ blurView \/ (Stays /\ UNCHANGED left)

Spec == Init /\ [][Next]_vars

-----------------------------------------------------------------------------
(* Once the focus has left a selector and it is closed, the last change    *)
(* that was told is the choice (the first option of a list passes for told),*)
(* and the input shows it, whatever was chosen, given up, disabled or      *)
(* opened before; and an element that the focus has left is closed (a view *)
(* stays open when it was disabled).                                       *)
LeftTold ==
  /\ ~renewed => s.value = s.selected
  /\ left /\ ~hasFocus /\ ~s.opened /\ ~renewed => told = s.selected
  /\ ~hasFocus /\ kind = "element" => ~s.opened
=============================================================================
