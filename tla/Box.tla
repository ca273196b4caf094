--------------------------------- MODULE Box ---------------------------------
(***************************************************************************)
(* The boxes and popups of the client (view/box/box.js and popup.js), and  *)
(* the questions that are asked with one (popup.valid.js).  A box opens and *)
(* closes at once or with an effect that takes time; it takes the focus and *)
(* gives it back; it follows the size of the window, but remembers the     *)
(* width the user gave it.                                                 *)
(*                                                                         *)
(* The code listens to emitters that it does not have (box.js:55, 164): they *)
(* are taken as those of the element and of the window.                    *)
(***************************************************************************)
EXTENDS Integers

CONSTANTS
  Boxes, Fx, Asking, \* the boxes, those with effects, those that suggest() made
  Space,         \* the widths the window can have
  MaxOpen,       \* bound: how often a box is opened
  MaxImmediate,  \* bound: calls of setImmediate that have not run, of a box
  None

VARIABLES
  b,        \* [Boxes -> opened, displayed, focused, class, before (the focus when it
            \* was opened), width, ideal, fx (the effect that is running), immediates]
  focusedBox, \* the box the focus of the document is in, or None
  active,   \* constructor.active
  space,    \* the width of the window
  asked,    \* [Asking -> onclose listens, callbacks called]
  opens, closes, \* history: how often each box was opened and closed
  wanted,   \* history: the width the user gave each box
  raced     \* history: boxes that were opened without effect while they closed

vars == <<b, focusedBox, active, space, asked, opens, closes, wanted, raced>>
docVars == <<focusedBox, active>>
history == <<asked, opens, closes, raced>>

\* suggest() makes popups without effects.
BoxAssumption ==
  /\ Fx \subseteq Boxes /\ Asking \subseteq Boxes \ Fx /\ Space \subseteq Nat
  /\ None \notin Boxes \union Nat \union {"open", "close"}

\* Mutant: any change of the width is that of the user.
remembered_any(ideal, width, type) == width

\* The listener of change.
remembered(ideal, width, type) == IF type # "resize" THEN width ELSE ideal

\* getIdeal, from the options half of the window, and respect.
getIdeal(ideal, room) == IF ideal = None THEN room \div 2 ELSE ideal
respect(x, room) ==
  LET width == IF getIdeal(x.ideal, room) > room THEN room ELSE getIdeal(x.ideal, room)
  IN [x EXCEPT !.width = width, !.ideal = remembered(@, width, "resize")]

Init ==
  /\ space \in Space
  /\ b = [x \in Boxes |-> [opened |-> FALSE, displayed |-> FALSE, focused |-> FALSE, class |-> FALSE,
                           before |-> None, width |-> 0, ideal |-> None, fx |-> None, immediates |-> 0]]
  /\ focusedBox = None /\ active = None
  /\ asked = [x \in Asking |-> [listening |-> TRUE, called |-> 0]]
  /\ opens = [x \in Boxes |-> 0] /\ closes = opens /\ raced = {}
  /\ wanted = [x \in Boxes |-> None]

-----------------------------------------------------------------------------
\* The focus moves: blur puts off what it does, in case it comes back.
focus(w, x) == IF x = None THEN w ELSE [w EXCEPT ![x].focused = TRUE, ![x].class = TRUE]
blur(w, x) ==
  IF x = None \/ ~w[x].focused THEN w
  ELSE [w EXCEPT ![x].focused = FALSE, ![x].immediates = @ + 1]
Moved(w, x) == IF x = focusedBox THEN w ELSE focus(blur(w, focusedBox), x)
MoveFocus(w, x) ==
  /\ b' = Moved(w, x) /\ focusedBox' = x
  /\ active' = IF x = None \/ x = focusedBox THEN active ELSE x

Quiet == \A x \in Boxes : b[x].immediates < MaxImmediate

\* Another element takes the focus.
click(x) ==
  /\ Quiet /\ x # focusedBox /\ (x # None => b[x].displayed)
  /\ MoveFocus(b, x) /\ UNCHANGED <<space, history>>

\* The function of setImmediate: active is cleared, be it another box.
immediate(x) ==
  /\ b[x].immediates > 0
  /\ b' = [b EXCEPT ![x].immediates = @ - 1, ![x].class = @ /\ b[x].focused]
  /\ active' = IF b[x].focused THEN active ELSE None
  /\ UNCHANGED <<focusedBox, space, history>>

-----------------------------------------------------------------------------
\* effect: an effect stops the one that is running; without one, that one goes on.
WithEffect(x, noeffect) == ~noeffect /\ x \in Fx

Opened(x, noeffect) ==
  [respect(b[x], space) EXCEPT !.opened = TRUE, !.displayed = TRUE, !.before = focusedBox,
     !.fx = IF WithEffect(x, noeffect) THEN "open" ELSE @]
open(x, noeffect) ==
  /\ ~b[x].opened /\ Quiet /\ opens[x] < MaxOpen
  /\ MoveFocus([b EXCEPT ![x] = Opened(x, noeffect)], x)
  /\ raced' = IF b[x].fx = "close" /\ ~WithEffect(x, noeffect) THEN raced \union {x} ELSE raced
  /\ opens' = [opens EXCEPT ![x] = @ + 1]
  /\ UNCHANGED <<space, asked, closes>>

\* close emits the event when the box is hidden: onclose gives the last choice.
Hidden(w, x) == [w EXCEPT ![x].displayed = FALSE, ![x].fx = IF @ = "close" THEN None ELSE @]
onclose(x) ==
  asked' = IF x \in Asking /\ asked[x].listening THEN [asked EXCEPT ![x].called = @ + 1] ELSE asked

\* Mutant: onclose is still there when a choice closes the popup.
unlistened_not(x) == asked

unlistened(x) == [asked EXCEPT ![x].listening = FALSE]

Closing(x, noeffect) ==
  LET w == [b EXCEPT ![x].opened = FALSE, ![x].before = None]
      v == IF WithEffect(x, noeffect) THEN [w EXCEPT ![x].fx = "close"] ELSE Hidden(w, x)
  IN /\ b[x].opened /\ Quiet
     /\ IF b[x].focused THEN MoveFocus(v, IF b[x].before \in Boxes /\ b[b[x].before].displayed THEN b[x].before ELSE None)
        ELSE b' = v /\ UNCHANGED docVars
     /\ closes' = [closes EXCEPT ![x] = @ + 1]
     /\ UNCHANGED <<space, opens, raced>>

\* With an event as its argument, as from esc, blur or the button, close has no effect.
close(x, noeffect) ==
  /\ Closing(x, noeffect)
  /\ IF WithEffect(x, noeffect) THEN UNCHANGED asked ELSE onclose(x)

\* A choice: the listener goes, the popup is closed and the callback called.
done(x) ==
  /\ x \in Asking /\ b[x].displayed /\ Closing(x, TRUE)
  /\ asked' = [unlistened(x) EXCEPT ![x].called = @ + 1 + IF unlistened(x)[x].listening THEN 1 ELSE 0]

\* The end of an effect.
complete(x) ==
  /\ b[x].fx # None
  /\ b' = IF b[x].fx = "close" THEN Hidden(b, x) ELSE [b EXCEPT ![x].fx = None]
  /\ IF b[x].fx = "close" THEN onclose(x) ELSE UNCHANGED asked
  /\ UNCHANGED <<docVars, space, opens, closes, raced>>

-----------------------------------------------------------------------------
\* The window, and the user who drags the edge of a box.
resize(room) ==
  /\ room # space /\ space' = room
  /\ b' = [x \in Boxes |-> IF b[x].opened THEN respect(b[x], room) ELSE b[x]]
  /\ UNCHANGED <<docVars, history>>
\* updateDrag: the user pulls an edge of the box (surface.js).
resizeBox(x, width) ==
  /\ b[x].opened /\ width <= space /\ width # b[x].width
  /\ b' = [b EXCEPT ![x].width = width, ![x].ideal = remembered(@, width, "mousemove")]
  /\ wanted' = [wanted EXCEPT ![x] = width]
  /\ UNCHANGED <<docVars, space, history>>
\* fill: the box forgets what it was, and takes the size of its content.
fill(x) ==
  /\ b' = [b EXCEPT ![x] = IF @.opened THEN respect([@ EXCEPT !.ideal = None], space) ELSE [@ EXCEPT !.ideal = None]]
  /\ wanted' = [wanted EXCEPT ![x] = None]
  /\ UNCHANGED <<docVars, space, history>>

Showing ==
  /\ \/ \E x \in Boxes : \/ \E noeffect \in BOOLEAN : open(x, noeffect) \/ close(x, noeffect)
                       \/ done(x) \/ complete(x) \/ immediate(x)
     \/ \E x \in Boxes \union {None} : click(x)
  /\ UNCHANGED wanted

Sizing ==
  \/ \E x \in Boxes : fill(x) \/ \E width \in Space : resizeBox(x, width)
  \/ (\E room \in Space : resize(room)) /\ UNCHANGED wanted

Next == Showing \/ Sizing

Spec == Init /\ [][Next]_vars

-----------------------------------------------------------------------------
(* A box that is opened is displayed, and one that is not is hidden when   *)
(* its effect has ended, whatever effects were stopped, one opened without *)
(* effect during the effect that closes it aside; it has the class focus   *)
(* as long as it has the focus, and loses it in the next turn; and it has  *)
(* the width the user gave it, or half of the window, whenever there is    *)
(* room, however the window was resized before.                            *)
BoxTrue ==
  \A x \in Boxes :
    /\ b[x].opened /\ x \notin raced => b[x].displayed
    /\ ~b[x].opened /\ b[x].displayed => b[x].fx = "close"
    /\ b[x].focused => b[x].class
    /\ b[x].class /\ ~b[x].focused => b[x].immediates > 0
    /\ b[x].opened => b[x].width = IF getIdeal(wanted[x], space) > space THEN space ELSE getIdeal(wanted[x], space)

(* A question is answered when it is closed, and once, whether a choice, the*)
(* button, the key esc or the page closes it (popup.valid.js:44-49).       *)
AnsweredOnce ==
  \A x \in Asking :
    closes[x] <= 1 => asked[x].called = closes[x]

(* A box is shown, has the focus and is asked about as its calls say, and  *)
(* what it asks is answered once.                                          *)
BoxesAnswered == BoxTrue /\ AnsweredOnce
=============================================================================
