---------------------------- MODULE ClientProofs ----------------------------
(***************************************************************************)
(* What is proved of the parts of Client, for any values of its constants: *)
(* the boxes (Box), the selectors (Selector), the properties of nodes      *)
(* (Properties), the tables of the store (Db) and the loaders (Require,    *)
(* ModuleCache).  Those of who listens and observes are in ObserverProofs, *)
(* with the walks along a list they share.                                 *)
(*                                                                         *)
(* BoxInv says more of a box than BoxesAnswered: when it may be closing    *)
(* while it is open, which boxes have effects, that its width comes from   *)
(* what the user asked, and who still listens to the answer.               *)
(*                                                                         *)
(* SelectorInv says of a selector what it told at any time, also with the  *)
(* focus.  PropertyInv says of every node, in the tree or not, what its    *)
(* listeners were told, and which keys it had: a change of one node then   *)
(* disturbs what another one listens to by a key of its own only.          *)
(*                                                                         *)
(* NoItemLost says nothing of the writes under way and of the indexes that *)
(* will be taken.  DbInv adds that the items of a table are numbered       *)
(* without a hole, so that the next index is free; that what is being      *)
(* written in a whole table has an index of its own; and that a table      *)
(* without a directory is as good as whole, since making the directory     *)
(* makes it so.                                                            *)
(*                                                                         *)
(* RequireInv follows each require along its list: it was told some of the *)
(* modules its loop has come to, and of each other one it has a listener;  *)
(* and the turns left in the calls of applyEachOnce are enough for those   *)
(* who listen to what is provided.  ModuleInv ties the cache to the tree   *)
(* of modules, and the runs of a module to its exports.                    *)
(***************************************************************************)
EXTENDS ObserverProofs

-----------------------------------------------------------------------------
(* The boxes.                                                              *)

\* The types of Box.
BoxState ==
  [opened : BOOLEAN, displayed : BOOLEAN, focused : BOOLEAN, class : BOOLEAN,
   before : Boxes \cup {None}, width : Nat, ideal : Nat \cup {None},
   fx : {None, "open", "close"}, immediates : Nat]

BoxType ==
  /\ b \in [Boxes -> BoxState]
  /\ focusedBox \in Boxes \cup {None} /\ space \in Space
  /\ asked \in [Asking -> [listening : BOOLEAN, called : Nat]]
  /\ closes \in [Boxes -> Nat] /\ wanted \in [Boxes -> Nat \cup {None}]

\* What a box is, but for its focus.
Shown(x, w, room, late, want) ==
  /\ w[x].opened /\ x \notin late => w[x].displayed
  /\ w[x].opened /\ w[x].fx = "close" => x \in late
  /\ ~w[x].opened /\ w[x].displayed => w[x].fx = "close"
  /\ x \notin Fx => w[x].fx = None
  /\ w[x].ideal = want[x]
  /\ w[x].opened => w[x].width = IF O!getIdeal(w[x].ideal, room) > room THEN room ELSE O!getIdeal(w[x].ideal, room)

\* A class without the focus is to be taken away by what was put off.
Focused(x, w) ==
  /\ w[x].focused => w[x].class
  /\ w[x].class /\ ~w[x].focused => w[x].immediates > 0

\* What a box asks is called back at its first close.
Answered(x) ==
  /\ closes[x] = 0 => asked[x].listening /\ asked[x].called = 0
  /\ closes[x] = 1 => asked[x].called = 1

\* The inductive invariant of BoxesAnswered.
BoxInv ==
  /\ O!BoxAssumption
  /\ BoxType
  /\ \A x \in Boxes : Shown(x, b, space, raced, wanted) /\ Focused(x, b)
  /\ \A x \in Asking : Answered(x)

\* A page begins without open boxes.
LEMMA BoxInit == O!BoxAssumption /\ O!Init => BoxInv
<1> SUFFICES ASSUME O!BoxAssumption, O!Init PROVE BoxInv
  OBVIOUS
<1>1. BoxType
  BY DEF O!Init, O!BoxAssumption, BoxType, BoxState
<1>2. ASSUME NEW x \in Boxes PROVE Shown(x, b, space, raced, wanted) /\ Focused(x, b)
  BY DEF O!Init, O!BoxAssumption, Shown, Focused
<1>3. ASSUME NEW x \in Asking PROVE Answered(x)
  BY DEF O!Init, O!BoxAssumption, Answered
<1> QED
  BY <1>1, <1>2, <1>3 DEF BoxInv

\* The focus moves: only the classes, and what was put off, change.
SameBut(x, w, v) ==
  /\ v[x].opened = w[x].opened /\ v[x].displayed = w[x].displayed /\ v[x].fx = w[x].fx
  /\ v[x].ideal = w[x].ideal /\ v[x].width = w[x].width

LEMMA FocusMoves ==
  ASSUME O!BoxAssumption, NEW w \in [Boxes -> BoxState], NEW to \in Boxes \cup {None},
         focusedBox \in Boxes \cup {None}, \A x \in Boxes : Focused(x, w)
  PROVE  /\ O!Moved(w, to) \in [Boxes -> BoxState]
         /\ \A x \in Boxes : Focused(x, O!Moved(w, to)) /\ SameBut(x, w, O!Moved(w, to))
<1> DEFINE v == O!blur(w, focusedBox)
           u == O!focus(v, to)
<1>1. v \in [Boxes -> BoxState] /\ \A x \in Boxes : Focused(x, v) /\ SameBut(x, w, v)
  <2>1. CASE focusedBox = None \/ ~w[focusedBox].focused
    BY <2>1 DEF O!blur, SameBut
  <2>2. CASE focusedBox \in Boxes /\ w[focusedBox].focused
    <3>1. v = [w EXCEPT ![focusedBox].focused = FALSE, ![focusedBox].immediates = @ + 1]
      BY <2>2 DEF O!blur, O!BoxAssumption
    <3> QED
      BY <2>2, <3>1 DEF BoxState, Focused, SameBut
  <2> QED
    BY <2>1, <2>2
<1> HIDE DEF v
<1>2. u \in [Boxes -> BoxState] /\ \A x \in Boxes : Focused(x, u) /\ SameBut(x, w, u)
  <2>1. CASE to = None
    BY <1>1, <2>1 DEF O!focus
  <2>2. CASE to \in Boxes /\ to # None
    <3>1. u = [v EXCEPT ![to].focused = TRUE, ![to].class = TRUE]
      BY <2>2 DEF O!focus
    <3>2. u \in [Boxes -> BoxState]
      <4>1. v[to] \in BoxState
        BY <1>1, <2>2
      <4>2. [v[to] EXCEPT !.focused = TRUE, !.class = TRUE] \in BoxState
        BY <4>1 DEF BoxState
      <4>3. u = [v EXCEPT ![to] = [v[to] EXCEPT !.focused = TRUE, !.class = TRUE]]
        BY <3>1
      <4> QED
        BY <1>1, <2>2, <4>2, <4>3
    <3>3. ASSUME NEW x \in Boxes PROVE Focused(x, u) /\ SameBut(x, w, u)
      <4>1. CASE x = to
        BY <1>1, <2>2, <3>1, <4>1 DEF BoxState, Focused, SameBut
      <4>2. CASE x # to
        BY <1>1, <2>2, <3>1, <4>2 DEF Focused, SameBut
      <4> QED
        BY <4>1, <4>2
    <3> QED
      BY <3>2, <3>3
  <2> QED
    BY <2>1, <2>2 DEF O!BoxAssumption
<1> QED
  BY <1>2 DEF O!Moved, v, SameBut

\* So nothing changes of what is shown.
LEMMA ShownAlike ==
  ASSUME NEW x, NEW w, NEW v, SameBut(x, w, v), NEW room, NEW late, NEW want, Shown(x, w, room, late, want)
  PROVE  Shown(x, v, room, late, want)
BY DEF SameBut, Shown

\* The width of a box is what it respects.
LEMMA Respects ==
  ASSUME O!BoxAssumption, NEW x \in BoxState, NEW room \in Space
  PROVE  /\ O!respect(x, room) \in BoxState
         /\ O!respect(x, room).width = IF O!getIdeal(x.ideal, room) > room THEN room ELSE O!getIdeal(x.ideal, room)
         /\ O!respect(x, room).ideal = x.ideal
         /\ O!respect(x, room).opened = x.opened /\ O!respect(x, room).displayed = x.displayed
         /\ O!respect(x, room).fx = x.fx /\ O!respect(x, room).focused = x.focused
         /\ O!respect(x, room).class = x.class /\ O!respect(x, room).immediates = x.immediates
<1>1. room \in Nat /\ x.ideal \in Nat \cup {None}
  BY DEF O!BoxAssumption, BoxState
<1>2. room \div 2 \in Nat
  BY <1>1
<1> DEFINE ideal == O!getIdeal(x.ideal, room)
           width == IF ideal > room THEN room ELSE ideal
<1>3. ideal \in Nat
  BY <1>1, <1>2 DEF O!getIdeal
<1> HIDE DEF ideal
<1>4. width \in Nat
  BY <1>1, <1>3
<1> HIDE DEF width
<1>5. O!respect(x, room) = [x EXCEPT !.width = width, !.ideal = @]
  BY DEF O!respect, O!remembered, width, ideal
<1>6. O!respect(x, room) \in BoxState
  BY <1>4, <1>5 DEF BoxState
<1> QED
  BY <1>5, <1>6 DEF BoxState, width, ideal

\* Opening shows a box, or leaves that to the end of its closing effect.
LEMMA OpenStep ==
  ASSUME BoxInv, NEW x \in Boxes, NEW noeffect \in BOOLEAN, O!open(x, noeffect), UNCHANGED wanted
  PROVE  BoxInv'
<1> DEFINE effect == O!WithEffect(x, noeffect)
           y == O!Opened(x, noeffect)
           w == [b EXCEPT ![x] = y]
<1>1. /\ O!BoxAssumption /\ b \in [Boxes -> BoxState] /\ focusedBox \in Boxes \cup {None} /\ space \in Space
      /\ Shown(x, b, space, raced, wanted) /\ Focused(x, b) /\ ~b[x].opened
  BY DEF BoxInv, BoxType, O!open
<1> DEFINE r == O!respect(b[x], space)
<1>2. /\ r \in BoxState /\ r.ideal = b[x].ideal /\ r.fx = b[x].fx
      /\ r.width = IF O!getIdeal(b[x].ideal, space) > space THEN space ELSE O!getIdeal(b[x].ideal, space)
      /\ r.focused = b[x].focused /\ r.class = b[x].class /\ r.immediates = b[x].immediates
  BY <1>1, Respects
<1> HIDE DEF r
<1> DEFINE f == IF effect THEN "open" ELSE r.fx
<1>3a. f \in {None, "open", "close"}
  BY <1>2 DEF BoxState
<1> HIDE DEF f, r
<1>3b. y = [r EXCEPT !.opened = TRUE, !.displayed = TRUE, !.before = focusedBox, !.fx = f]
  BY DEF r, f, O!Opened
<1> HIDE DEF y
<1>3c. y \in BoxState
  BY <1>1, <1>2, <1>3a, <1>3b DEF BoxState
<1>3. /\ y.opened /\ y.displayed /\ y.ideal = b[x].ideal
      /\ y.fx = IF effect THEN "open" ELSE b[x].fx
      /\ y.width = r.width /\ y.focused = b[x].focused /\ y.class = b[x].class /\ y.immediates = b[x].immediates
  BY <1>2, <1>3b DEF BoxState, f
<1>4. /\ b' = O!Moved(w, x) /\ focusedBox' = x /\ UNCHANGED <<space, asked, closes>>
      /\ raced' = IF b[x].fx = "close" /\ ~effect THEN raced \cup {x} ELSE raced
  BY DEF O!open, O!MoveFocus, y
<1>5. w \in [Boxes -> BoxState] /\ w[x] = y /\ \A z \in Boxes : z # x => w[z] = b[z]
  BY <1>1, <1>3c
<1> HIDE DEF w
<1>6. \A z \in Boxes : Shown(z, w, space, raced', wanted)
  <2>1. Shown(x, w, space, raced', wanted)
    BY <1>1, <1>2, <1>3, <1>4, <1>5 DEF Shown, O!WithEffect
  <2>2. ASSUME NEW z \in Boxes, z # x PROVE Shown(z, w, space, raced', wanted)
    BY <1>4, <1>5, <2>2 DEF BoxInv, Shown
  <2> QED
    BY <2>1, <2>2
<1>7. \A z \in Boxes : Focused(z, w)
  BY <1>3, <1>5 DEF BoxInv, Focused
<1>8. /\ b' \in [Boxes -> BoxState]
      /\ \A z \in Boxes : Focused(z, b') /\ SameBut(z, w, b')
  BY <1>1, <1>4, <1>5, <1>7, FocusMoves
<1>9. \A z \in Boxes : Shown(z, b', space, raced', wanted)
  BY <1>6, <1>8, ShownAlike
<1>10. BoxType'
  BY <1>1, <1>4, <1>8 DEF BoxInv, BoxType
<1>11. \A z \in Asking : Answered(z)'
  BY <1>4 DEF BoxInv, Answered
<1> QED
  BY <1>1, <1>4, <1>8, <1>9, <1>10, <1>11 DEF BoxInv

\* Of the boxes but one, the state is what it was.
Others(x, w, v) == \A z \in Boxes : z # x => v[z] = w[z]

\* A focus that moves keeps what is shown and who is answered.
LEMMA MovesStep ==
  ASSUME BoxInv, NEW w \in [Boxes -> BoxState], NEW to \in Boxes \cup {None},
         \A z \in Boxes : Shown(z, w, space', raced', wanted') /\ Focused(z, w),
         \/ O!MoveFocus(w, to)
         \/ b' = w /\ UNCHANGED focusedBox
  PROVE  /\ b' \in [Boxes -> BoxState] /\ focusedBox' \in Boxes \cup {None}
         /\ \A z \in Boxes : Shown(z, b', space', raced', wanted') /\ Focused(z, b')
<1>1. O!BoxAssumption /\ focusedBox \in Boxes \cup {None}
  BY DEF BoxInv, BoxType
<1>2. CASE b' = w /\ UNCHANGED focusedBox
  BY <1>1, <1>2
<1>3. CASE O!MoveFocus(w, to)
  <2>1. b' = O!Moved(w, to) /\ focusedBox' = to
    BY <1>3 DEF O!MoveFocus
  <2>2. b' \in [Boxes -> BoxState] /\ \A z \in Boxes : Focused(z, b') /\ SameBut(z, w, b')
    BY <1>1, <2>1, FocusMoves
  <2> QED
    BY <2>1, <2>2, ShownAlike
<1> QED
  BY <1>2, <1>3

\* The focus follows a click.
LEMMA ClickStep ==
  ASSUME BoxInv, NEW x \in Boxes \cup {None}, O!click(x), UNCHANGED wanted
  PROVE  BoxInv'
<1>1. /\ b \in [Boxes -> BoxState] /\ O!MoveFocus(b, x)
      /\ \A z \in Boxes : Shown(z, b, space', raced', wanted') /\ Focused(z, b)
      /\ UNCHANGED <<space, asked, closes>>
  BY DEF BoxInv, BoxType, O!click, O!history
<1>2. /\ b' \in [Boxes -> BoxState] /\ focusedBox' \in Boxes \cup {None}
      /\ \A z \in Boxes : Shown(z, b', space', raced', wanted') /\ Focused(z, b')
  BY <1>1, MovesStep
<1>3. \A z \in Asking : Answered(z)'
  BY <1>1 DEF BoxInv, Answered
<1> QED
  BY <1>1, <1>2, <1>3 DEF BoxInv, BoxType

\* Hiding a box, and closing it.
LEMMA Hides ==
  ASSUME O!BoxAssumption, NEW w \in [Boxes -> BoxState], NEW x \in Boxes
  PROVE  /\ O!Hidden(w, x) \in [Boxes -> BoxState]
         /\ Others(x, w, O!Hidden(w, x))
         /\ ~O!Hidden(w, x)[x].displayed
         /\ O!Hidden(w, x)[x].fx = IF w[x].fx = "close" THEN None ELSE w[x].fx
         /\ O!Hidden(w, x)[x].opened = w[x].opened /\ O!Hidden(w, x)[x].ideal = w[x].ideal
         /\ O!Hidden(w, x)[x].width = w[x].width /\ O!Hidden(w, x)[x].immediates = w[x].immediates
         /\ O!Hidden(w, x)[x].focused = w[x].focused /\ O!Hidden(w, x)[x].class = w[x].class
<1> DEFINE f == IF w[x].fx = "close" THEN None ELSE w[x].fx
           y == [w[x] EXCEPT !.displayed = FALSE, !.fx = f]
<1>1. w[x] \in BoxState
  OBVIOUS
<1>2. f \in {None, "open", "close"}
  BY <1>1 DEF BoxState
<1>3. O!Hidden(w, x) = [w EXCEPT ![x] = y]
  BY DEF O!Hidden
<1> HIDE DEF f
<1>4. y \in BoxState
  BY <1>1, <1>2 DEF BoxState
<1>5. /\ ~y.displayed /\ y.fx = f /\ y.opened = w[x].opened /\ y.ideal = w[x].ideal
      /\ y.width = w[x].width /\ y.immediates = w[x].immediates
      /\ y.focused = w[x].focused /\ y.class = w[x].class
  BY <1>1 DEF BoxState
<1> HIDE DEF y
<1> QED
  BY <1>3, <1>4, <1>5 DEF Others, f

\* A close takes the box away, and keeps the others.
LEMMA ClosingStep ==
  ASSUME BoxInv, NEW x \in Boxes, NEW noeffect \in BOOLEAN, O!Closing(x, noeffect), UNCHANGED wanted
  PROVE  /\ b' \in [Boxes -> BoxState] /\ focusedBox' \in Boxes \cup {None}
         /\ \A z \in Boxes : Shown(z, b', space', raced', wanted') /\ Focused(z, b')
         /\ closes' = [closes EXCEPT ![x] = @ + 1] /\ UNCHANGED space
<1> DEFINE w == [b EXCEPT ![x].opened = FALSE, ![x].before = None]
           c == [w EXCEPT ![x].fx = "close"]
           h == O!Hidden(w, x)
           v == IF O!WithEffect(x, noeffect) THEN c ELSE h
           back == IF b[x].before \in Boxes /\ b[b[x].before].displayed THEN b[x].before ELSE None
<1>1. /\ O!BoxAssumption /\ b \in [Boxes -> BoxState] /\ UNCHANGED <<space, raced, wanted>>
      /\ \A z \in Boxes : Shown(z, b, space, raced, wanted) /\ Focused(z, b)
      /\ closes' = [closes EXCEPT ![x] = @ + 1]
      /\ O!MoveFocus(v, back) \/ (b' = v /\ UNCHANGED focusedBox)
  BY DEF BoxInv, BoxType, O!Closing, O!docVars
<1>2. back \in Boxes \cup {None}
  OBVIOUS
<1>3. b[x] \in BoxState
  BY <1>1
<1>4. w \in [Boxes -> BoxState] /\ Others(x, b, w)
  <2>1. [b[x] EXCEPT !.opened = FALSE, !.before = None] \in BoxState
    BY <1>3 DEF BoxState
  <2>2. w = [b EXCEPT ![x] = [b[x] EXCEPT !.opened = FALSE, !.before = None]]
    OBVIOUS
  <2> QED
    BY <1>1, <2>1, <2>2 DEF Others
<1>5. /\ ~w[x].opened /\ w[x].fx = b[x].fx /\ w[x].ideal = b[x].ideal /\ w[x].displayed = b[x].displayed
      /\ w[x].immediates = b[x].immediates /\ w[x].focused = b[x].focused /\ w[x].class = b[x].class
  BY <1>1, <1>3 DEF BoxState
<1> HIDE DEF w
<1>6. /\ h \in [Boxes -> BoxState] /\ Others(x, w, h) /\ ~h[x].displayed /\ ~h[x].opened
      /\ h[x].fx = (IF w[x].fx = "close" THEN None ELSE w[x].fx) /\ h[x].ideal = w[x].ideal
      /\ h[x].immediates = w[x].immediates /\ h[x].focused = w[x].focused /\ h[x].class = w[x].class
  BY <1>1, <1>4, <1>5, Hides
<1> HIDE DEF h
<1>7. c \in [Boxes -> BoxState] /\ Others(x, w, c)
  <2>1. w[x] \in BoxState
    BY <1>4
  <2>2. [w[x] EXCEPT !.fx = "close"] \in BoxState
    BY <2>1 DEF BoxState
  <2> QED
    BY <1>4, <2>2 DEF Others
<1>8. /\ ~c[x].opened /\ c[x].fx = "close" /\ c[x].ideal = w[x].ideal /\ c[x].displayed = w[x].displayed
      /\ c[x].immediates = w[x].immediates /\ c[x].focused = w[x].focused /\ c[x].class = w[x].class
  <2>1. w[x] \in BoxState
    BY <1>4
  <2> QED
    BY <1>4, <1>5, <2>1 DEF BoxState
<1> HIDE DEF c
<1>9. Shown(x, v, space, raced, wanted) /\ Focused(x, v)
  <2>1. CASE O!WithEffect(x, noeffect)
    BY <1>1, <1>5, <1>8, <2>1 DEF Shown, Focused, O!WithEffect
  <2>2. CASE ~O!WithEffect(x, noeffect)
    BY <1>1, <1>5, <1>6, <2>2 DEF Shown, Focused
  <2> QED
    BY <2>1, <2>2
<1>10. v \in [Boxes -> BoxState] /\ \A z \in Boxes : z # x => v[z] = b[z]
  BY <1>4, <1>6, <1>7 DEF Others
<1> HIDE DEF v, back
<1>11. \A z \in Boxes : Shown(z, v, space, raced, wanted) /\ Focused(z, v)
  BY <1>1, <1>9, <1>10 DEF Shown, Focused
<1> QED
  BY <1>1, <1>2, <1>10, <1>11, MovesStep

\* Closing calls back once, the first time: with an effect, or at once.
LEMMA CloseStep ==
  ASSUME BoxInv, NEW x \in Boxes, NEW noeffect \in BOOLEAN, O!close(x, noeffect), UNCHANGED wanted
  PROVE  BoxInv'
<1>1. O!Closing(x, noeffect)
  BY DEF O!close
<1>2. /\ b' \in [Boxes -> BoxState] /\ focusedBox' \in Boxes \cup {None}
      /\ \A z \in Boxes : Shown(z, b', space', raced', wanted') /\ Focused(z, b')
      /\ closes' = [closes EXCEPT ![x] = @ + 1] /\ UNCHANGED space
  BY <1>1, ClosingStep
<1>3. /\ O!BoxAssumption /\ asked \in [Asking -> [listening : BOOLEAN, called : Nat]] /\ closes \in [Boxes -> Nat]
      /\ Asking \subseteq Boxes /\ (x \in Asking => x \notin Fx)
  BY DEF BoxInv, BoxType, O!BoxAssumption
<1>4. asked' = (IF x \in Asking /\ asked[x].listening THEN [asked EXCEPT ![x].called = @ + 1] ELSE asked)
  BY <1>3 DEF O!close, O!onclose, O!WithEffect
<1>5. asked' \in [Asking -> [listening : BOOLEAN, called : Nat]]
  BY <1>3, <1>4
<1>6. ASSUME NEW z \in Asking PROVE Answered(z)'
  <2>1. Answered(z)
    BY DEF BoxInv
  <2>2. closes[z] \in Nat /\ asked[z].called \in Nat
    BY <1>3
  <2>3. CASE z = x
    <3>1. closes'[z] = closes[z] + 1
      BY <1>2, <1>3, <2>3
    <3>2. closes[z] = 0 => asked'[z].called = asked[z].called + 1
      BY <1>3, <1>4, <2>1, <2>3 DEF Answered
    <3> QED
      BY <2>1, <2>2, <3>1, <3>2 DEF Answered
  <2>4. CASE z # x
    BY <1>2, <1>3, <1>4, <2>1, <2>4 DEF Answered
  <2> QED
    BY <2>3, <2>4
<1> QED
  BY <1>2, <1>3, <1>5, <1>6 DEF BoxInv, BoxType

\* A choice closes the box that asks, and answers.
LEMMA DoneStep ==
  ASSUME BoxInv, NEW x \in Boxes, O!done(x), UNCHANGED wanted
  PROVE  BoxInv'
<1>1. O!Closing(x, TRUE) /\ x \in Asking
  BY DEF O!done
<1>2. /\ b' \in [Boxes -> BoxState] /\ focusedBox' \in Boxes \cup {None}
      /\ \A z \in Boxes : Shown(z, b', space', raced', wanted') /\ Focused(z, b')
      /\ closes' = [closes EXCEPT ![x] = @ + 1] /\ UNCHANGED space
  BY <1>1, ClosingStep
<1>3. /\ O!BoxAssumption /\ asked \in [Asking -> [listening : BOOLEAN, called : Nat]] /\ closes \in [Boxes -> Nat]
      /\ Asking \subseteq Boxes
  BY DEF BoxInv, BoxType, O!BoxAssumption
<1>4. /\ asked' \in [Asking -> [listening : BOOLEAN, called : Nat]]
      /\ asked'[x].called = asked[x].called + 1
      /\ \A z \in Asking : z # x => asked'[z] = asked[z]
  <2>1. /\ O!unlistened(x) \in [Asking -> [listening : BOOLEAN, called : Nat]]
        /\ ~O!unlistened(x)[x].listening /\ O!unlistened(x)[x].called = asked[x].called
        /\ \A z \in Asking : z # x => O!unlistened(x)[z] = asked[z]
    BY <1>1, <1>3 DEF O!unlistened
  <2>2. asked' = [O!unlistened(x) EXCEPT ![x].called = O!unlistened(x)[x].called + 1 + 0]
    BY <1>1, <1>3, <2>1 DEF O!done
  <2>3. O!unlistened(x)[x].called + 1 + 0 = asked[x].called + 1 /\ asked[x].called + 1 \in Nat
    BY <1>1, <1>3, <2>1
  <2> QED
    BY <1>1, <2>1, <2>2, <2>3
<1>6. ASSUME NEW z \in Asking PROVE Answered(z)'
  <2>1. Answered(z)
    BY DEF BoxInv
  <2>2. closes[z] \in Nat /\ asked[z].called \in Nat
    BY <1>3
  <2>3. CASE z = x
    BY <1>2, <1>3, <1>4, <2>1, <2>2, <2>3 DEF Answered
  <2>4. CASE z # x
    BY <1>2, <1>3, <1>4, <2>1, <2>4 DEF Answered
  <2> QED
    BY <2>3, <2>4
<1> QED
  BY <1>2, <1>3, <1>4, <1>6 DEF BoxInv, BoxType

\* What was put off takes the class of a box that has lost the focus.
LEMMA ImmediateStep ==
  ASSUME BoxInv, NEW x \in Boxes, O!immediate(x), UNCHANGED wanted
  PROVE  BoxInv'
<1> DEFINE y == [b[x] EXCEPT !.immediates = @ - 1, !.class = @ /\ b[x].focused]
<1>1. b \in [Boxes -> BoxState] /\ b[x] \in BoxState
  BY DEF BoxInv, BoxType
<1>2. b[x].immediates - 1 \in Nat /\ (b[x].class /\ b[x].focused) \in BOOLEAN
  BY <1>1 DEF O!immediate, BoxState
<1>3. b' = [b EXCEPT ![x] = y] /\ UNCHANGED <<focusedBox, space, asked, opens, closes, raced, wanted>>
  BY DEF O!immediate, O!history
<1>4. y \in BoxState
  BY <1>1, <1>2 DEF BoxState
<1>5. /\ y.opened = b[x].opened /\ y.displayed = b[x].displayed /\ y.fx = b[x].fx /\ y.ideal = b[x].ideal
      /\ y.width = b[x].width /\ y.focused = b[x].focused /\ y.class = (b[x].class /\ b[x].focused)
  BY <1>1 DEF BoxState
<1> HIDE DEF y
<1>6. b' \in [Boxes -> BoxState]
  BY <1>1, <1>3, <1>4
<1>7. ASSUME NEW z \in Boxes PROVE Shown(z, b', space', raced', wanted') /\ Focused(z, b')
  BY <1>1, <1>3, <1>5 DEF BoxInv, Shown, Focused
<1>8. \A z \in Asking : Answered(z)'
  BY <1>3 DEF BoxInv, Answered
<1> QED
  BY <1>3, <1>6, <1>7, <1>8 DEF BoxInv, BoxType

\* The effect that ends hides the box, if it was closing.
LEMMA CompleteStep ==
  ASSUME BoxInv, NEW x \in Boxes, O!complete(x), UNCHANGED wanted
  PROVE  BoxInv'
<1>1. /\ O!BoxAssumption /\ b \in [Boxes -> BoxState] /\ b[x] \in BoxState /\ b[x].fx # None
      /\ UNCHANGED <<focusedBox, space, opens, closes, raced, wanted>>
      /\ \A z \in Boxes : Shown(z, b, space, raced, wanted) /\ Focused(z, b)
  BY DEF BoxInv, BoxType, O!complete, O!docVars
\* A box that asks has no effect that could complete.
<1>2. x \notin Asking
  BY <1>1 DEF Shown, O!BoxAssumption
<1>3. UNCHANGED asked
  BY <1>2 DEF O!complete, O!onclose
<1>4. CASE b[x].fx = "close"
  <2>1. b' = O!Hidden(b, x)
    BY <1>4 DEF O!complete
  <2>2. /\ b' \in [Boxes -> BoxState] /\ Others(x, b, b') /\ ~b'[x].displayed
        /\ b'[x].fx = None /\ b'[x].opened = b[x].opened /\ b'[x].ideal = b[x].ideal
        /\ b'[x].width = b[x].width /\ b'[x].immediates = b[x].immediates
        /\ b'[x].focused = b[x].focused /\ b'[x].class = b[x].class
    BY <1>1, <1>4, <2>1, Hides
  <2>3. ASSUME NEW z \in Boxes PROVE Shown(z, b', space', raced', wanted') /\ Focused(z, b')
    <3>1. CASE z = x
      BY <1>1, <1>4, <2>2, <3>1 DEF Shown, Focused, O!BoxAssumption
    <3>2. CASE z # x
      BY <1>1, <2>2, <3>2 DEF Shown, Focused, Others
    <3> QED
      BY <3>1, <3>2
  <2> QED
    BY <1>1, <1>3, <2>2, <2>3 DEF BoxInv, BoxType, Answered
<1>5. CASE b[x].fx # "close"
  <2>1. b' = [b EXCEPT ![x].fx = None]
    BY <1>5 DEF O!complete
  <2>2. [b[x] EXCEPT !.fx = None] \in BoxState
    BY <1>1 DEF BoxState
  <2>3. b' \in [Boxes -> BoxState] /\ Others(x, b, b')
    BY <1>1, <2>1, <2>2 DEF Others
  <2>4. /\ b'[x].fx = None /\ b'[x].opened = b[x].opened /\ b'[x].ideal = b[x].ideal
        /\ b'[x].displayed = b[x].displayed
        /\ b'[x].width = b[x].width /\ b'[x].immediates = b[x].immediates
        /\ b'[x].focused = b[x].focused /\ b'[x].class = b[x].class
    BY <1>1, <2>1 DEF BoxState
  <2>5. ASSUME NEW z \in Boxes PROVE Shown(z, b', space', raced', wanted') /\ Focused(z, b')
    <3>1. CASE z = x
      BY <1>1, <1>5, <2>4, <3>1 DEF Shown, Focused, O!BoxAssumption
    <3>2. CASE z # x
      BY <1>1, <2>3, <3>2 DEF Shown, Focused, Others
    <3> QED
      BY <3>1, <3>2
  <2> QED
    BY <1>1, <1>3, <2>3, <2>5 DEF BoxInv, BoxType, Answered
<1> QED
  BY <1>4, <1>5

\* Every box respects the new width of the window.
LEMMA ResizeStep ==
  ASSUME BoxInv, NEW room \in Space, O!resize(room), UNCHANGED wanted
  PROVE  BoxInv'
<1>1. /\ O!BoxAssumption /\ b \in [Boxes -> BoxState] /\ space' = room
      /\ UNCHANGED <<focusedBox, asked, opens, closes, raced, wanted>>
      /\ \A z \in Boxes : Shown(z, b, space, raced, wanted) /\ Focused(z, b)
      /\ b' = [x \in Boxes |-> IF b[x].opened THEN O!respect(b[x], room) ELSE b[x]]
  BY DEF BoxInv, BoxType, O!resize, O!docVars, O!history
<1>2. ASSUME NEW z \in Boxes
      PROVE  b'[z] \in BoxState /\ Shown(z, b', space', raced', wanted') /\ Focused(z, b')
  <2>1. b[z] \in BoxState
    BY <1>1
  <2>2. CASE b[z].opened
    <3> DEFINE r == O!respect(b[z], room)
    <3>1. b'[z] = r
      BY <1>1, <2>2
    <3>2. /\ r \in BoxState
          /\ r.width = IF O!getIdeal(b[z].ideal, room) > room THEN room ELSE O!getIdeal(b[z].ideal, room)
          /\ r.ideal = b[z].ideal /\ r.opened = b[z].opened /\ r.displayed = b[z].displayed
          /\ r.fx = b[z].fx /\ r.focused = b[z].focused
          /\ r.class = b[z].class /\ r.immediates = b[z].immediates
      BY <1>1, <2>1, Respects
    <3> HIDE DEF r
    <3> QED
      BY <1>1, <2>2, <3>1, <3>2 DEF Shown, Focused
  <2>3. CASE ~b[z].opened
    BY <1>1, <2>1, <2>3 DEF Shown, Focused
  <2> QED
    BY <2>2, <2>3
<1>3. b' \in [Boxes -> BoxState]
  BY <1>1, <1>2
<1> QED
  BY <1>1, <1>2, <1>3 DEF BoxInv, BoxType, Answered

\* The user says how wide a box is.
LEMMA ResizeBoxStep ==
  ASSUME BoxInv, NEW x \in Boxes, NEW width \in Space, O!resizeBox(x, width)
  PROVE  BoxInv'
<1>1. /\ O!BoxAssumption /\ b \in [Boxes -> BoxState] /\ b[x] \in BoxState /\ b[x].opened
      /\ UNCHANGED <<focusedBox, space, asked, opens, closes, raced>>
      /\ \A z \in Boxes : Shown(z, b, space, raced, wanted) /\ Focused(z, b)
      /\ b' = [b EXCEPT ![x].width = width, ![x].ideal = width]
      /\ wanted' = [wanted EXCEPT ![x] = width] /\ width <= space
      /\ wanted \in [Boxes -> Nat \cup {None}]
  BY DEF BoxInv, BoxType, O!resizeBox, O!docVars, O!history, O!remembered
<1>2. width \in Nat /\ space \in Nat /\ width # None
  BY DEF BoxInv, BoxType, O!BoxAssumption
<1>3. [b[x] EXCEPT !.width = width, !.ideal = width] \in BoxState
  BY <1>1, <1>2 DEF BoxState
<1>4. b' \in [Boxes -> BoxState] /\ Others(x, b, b')
  BY <1>1, <1>3 DEF Others
<1>5. /\ b'[x].width = width /\ b'[x].ideal = width /\ b'[x].opened /\ b'[x].displayed = b[x].displayed
      /\ b'[x].fx = b[x].fx /\ b'[x].focused = b[x].focused
      /\ b'[x].class = b[x].class /\ b'[x].immediates = b[x].immediates
  BY <1>1 DEF BoxState
<1>6. ASSUME NEW z \in Boxes PROVE Shown(z, b', space', raced', wanted') /\ Focused(z, b')
  <2>1. CASE z = x
    <3>1. O!getIdeal(width, space) = width /\ ~(width > space) /\ wanted'[x] = width
      BY <1>1, <1>2 DEF O!getIdeal
    <3> QED
      BY <1>1, <1>5, <2>1, <3>1 DEF Shown, Focused
  <2>2. CASE z # x
    BY <1>1, <1>4, <2>2 DEF Shown, Focused, Others
  <2> QED
    BY <2>1, <2>2
<1> QED
  BY <1>1, <1>2, <1>4, <1>6 DEF BoxInv, BoxType, Answered

\* A box that fills forgets the width the user gave it.
LEMMA FillStep ==
  ASSUME BoxInv, NEW x \in Boxes, O!fill(x)
  PROVE  BoxInv'
<1> DEFINE n == [b[x] EXCEPT !.ideal = None]
           r == O!respect(n, space)
<1>1. /\ O!BoxAssumption /\ b \in [Boxes -> BoxState] /\ b[x] \in BoxState /\ space \in Space
      /\ UNCHANGED <<focusedBox, space, asked, opens, closes, raced>>
      /\ \A z \in Boxes : Shown(z, b, space, raced, wanted) /\ Focused(z, b)
      /\ b' = [b EXCEPT ![x] = IF b[x].opened THEN r ELSE n]
      /\ wanted' = [wanted EXCEPT ![x] = None]
      /\ wanted \in [Boxes -> Nat \cup {None}]
  BY DEF BoxInv, BoxType, O!fill, O!docVars, O!history
<1>2. /\ n \in BoxState /\ n.ideal = None /\ n.opened = b[x].opened /\ n.displayed = b[x].displayed
      /\ n.fx = b[x].fx /\ n.focused = b[x].focused
      /\ n.class = b[x].class /\ n.immediates = b[x].immediates
  BY <1>1 DEF BoxState
<1> HIDE DEF n
<1>3. /\ r \in BoxState
      /\ r.width = IF O!getIdeal(None, space) > space THEN space ELSE O!getIdeal(None, space)
      /\ r.ideal = None /\ r.opened = b[x].opened /\ r.displayed = b[x].displayed
      /\ r.fx = b[x].fx /\ r.focused = b[x].focused
      /\ r.class = b[x].class /\ r.immediates = b[x].immediates
  BY <1>1, <1>2, Respects
<1> HIDE DEF r
<1>4. b' \in [Boxes -> BoxState] /\ Others(x, b, b') /\ b'[x] = IF b[x].opened THEN r ELSE n
  BY <1>1, <1>2, <1>3 DEF Others
<1>5. ASSUME NEW z \in Boxes PROVE Shown(z, b', space', raced', wanted') /\ Focused(z, b')
  <2>1. CASE z = x /\ b[x].opened
    BY <1>1, <1>3, <1>4, <2>1 DEF Shown, Focused
  <2>2. CASE z = x /\ ~b[x].opened
    BY <1>1, <1>2, <1>4, <2>2 DEF Shown, Focused
  <2>3. CASE z # x
    BY <1>1, <1>4, <2>3 DEF Shown, Focused, Others
  <2> QED
    BY <2>1, <2>2, <2>3
<1> QED
  BY <1>1, <1>4, <1>5 DEF BoxInv, BoxType, Answered

\* Every step keeps the invariant.
LEMMA BoxStep == BoxInv /\ [O!Next]_(O!vars) => BoxInv'
<1> SUFFICES ASSUME BoxInv, [O!Next]_(O!vars) PROVE BoxInv'
  OBVIOUS
<1>1. CASE UNCHANGED O!vars
  BY <1>1 DEF O!vars, BoxInv, BoxType, Answered
<1>2. ASSUME NEW x \in Boxes, NEW noeffect \in BOOLEAN, O!open(x, noeffect), UNCHANGED wanted PROVE BoxInv'
  BY <1>2, OpenStep
<1>3. ASSUME NEW x \in Boxes, NEW noeffect \in BOOLEAN, O!close(x, noeffect), UNCHANGED wanted PROVE BoxInv'
  BY <1>3, CloseStep
<1>4. ASSUME NEW x \in Boxes, O!done(x), UNCHANGED wanted PROVE BoxInv'
  BY <1>4, DoneStep
<1>5. ASSUME NEW x \in Boxes, O!complete(x), UNCHANGED wanted PROVE BoxInv'
  BY <1>5, CompleteStep
<1>6. ASSUME NEW x \in Boxes, O!immediate(x), UNCHANGED wanted PROVE BoxInv'
  BY <1>6, ImmediateStep
<1>7. ASSUME NEW x \in Boxes \cup {None}, O!click(x), UNCHANGED wanted PROVE BoxInv'
  BY <1>7, ClickStep
<1>8. ASSUME NEW x \in Boxes, O!fill(x) PROVE BoxInv'
  BY <1>8, FillStep
<1>9. ASSUME NEW x \in Boxes, NEW width \in Space, O!resizeBox(x, width) PROVE BoxInv'
  BY <1>9, ResizeBoxStep
<1>10. ASSUME NEW room \in Space, O!resize(room), UNCHANGED wanted PROVE BoxInv'
  BY <1>10, ResizeStep
<1> QED
  BY <1>1, <1>2, <1>3, <1>4, <1>5, <1>6, <1>7, <1>8, <1>9, <1>10 DEF O!Next, O!Showing, O!Sizing

\* Which says more than BoxesAnswered.
LEMMA BoxSays == BoxInv => O!BoxesAnswered
<1> SUFFICES ASSUME BoxInv PROVE O!BoxTrue /\ O!AnsweredOnce
  BY DEF O!BoxesAnswered
<1>1. O!BoxTrue
  BY DEF BoxInv, Shown, Focused, O!BoxTrue
<1>2. ASSUME NEW x \in Asking, closes[x] <= 1 PROVE asked[x].called = closes[x]
  <2>1. closes[x] \in Nat
    BY DEF BoxInv, BoxType, O!BoxAssumption
  <2>2. closes[x] = 0 \/ closes[x] = 1
    BY <1>2, <2>1
  <2> QED
    BY <2>2 DEF BoxInv, Answered
<1> QED
  BY <1>1, <1>2 DEF O!AnsweredOnce

\* A box is shown, has the focus and its width as its calls say, and what it asks
\* is answered once, whatever order the effects end and the immediates run in (box.js, popup.js).
THEOREM BoxesAreTrue == Spec => []BoxesAnswered
<1> DEFINE Inv == scene = "boxes" => BoxInv
<1> USE ClientAssumption
<1>1. Init => Inv
  BY BoxInit DEF Init
<1>2. Inv /\ [Next]_clientVars => Inv'
  <2> SUFFICES ASSUME Inv, [Next]_clientVars PROVE Inv'
    OBVIOUS
  <2>1. scene' = scene
    BY DEF Next, clientVars
  <2>2. ASSUME scene = "boxes" PROVE [O!Next]_(O!vars)
    BY <2>2 DEF Next, clientVars, boxVars, O!vars
  <2> QED
    BY <2>1, <2>2, BoxStep
<1>3. Inv => BoxesAnswered
  BY BoxSays DEF BoxesAnswered
<1> QED
  BY <1>1, <1>2, <1>3, PTL DEF Spec

-----------------------------------------------------------------------------
(* The selectors.                                                          *)

\* The types of Selector.
Choices == Option \cup {Default, None}
SelectorState ==
  [opened : BOOLEAN, disabled : BOOLEAN, selected : Choices, value : Choices, previous : Choices, lit : Choices]

\* What was told is the choice known, and is the choice there is once the focus has
\* left a selector that is closed.
SelectorInv ==
  /\ selector \in SelectorState
  /\ hasFocus \in BOOLEAN /\ renewed \in BOOLEAN /\ departed \in BOOLEAN
  /\ ~renewed => selector.value = selector.selected /\ choice = selector.previous
  /\ departed /\ ~hasFocus /\ ~selector.opened /\ ~renewed => selector.previous = selector.selected
  /\ ~hasFocus /\ kind = "element" => ~selector.opened

\* At first nothing is chosen and nobody has the focus.
LEMMA SelectorInit == SE!Init => SelectorInv
<1> SUFFICES ASSUME SE!Init PROVE SelectorInv
  OBVIOUS
<1>1. CASE kind = "element"
  BY <1>1 DEF SE!Init, SelectorInv, SelectorState, Choices
<1>2. CASE kind = "view"
  BY <1>2 DEF SE!Init, SelectorInv, SelectorState, Choices
<1> QED
  BY <1>1, <1>2 DEF SE!Init

\* Opening and closing lose no choice.
LEMMA OpenedIs ==
  ASSUME NEW t \in SelectorState, NEW u, u = SE!opened(t) \/ u = SE!closeView(t) \/ u = SE!toggle(t)
  PROVE  /\ u \in SelectorState
         /\ u.selected = t.selected /\ u.value = t.value /\ u.previous = t.previous
  BY DEF SE!opened, SE!closeView, SE!toggle, SelectorState

\* A choice is shown.
LEMMA SelectedIs ==
  ASSUME NEW t \in SelectorState, NEW o \in Choices, NEW u, u = SE!setSelected(t, o)
  PROVE  /\ u \in SelectorState
         /\ u.selected = o /\ u.previous = t.previous /\ u.opened = t.opened
         /\ t.value = t.selected => u.value = o
  BY DEF SE!setSelected, SelectorState

\* A change that is told is known, and another one is not to be told again.
LEMMA CheckedIs ==
  ASSUME NEW t \in SelectorState, NEW u, u = SE!checkChange(t)
  PROVE  /\ u \in SelectorState
         /\ u.selected = t.selected /\ u.previous = t.selected /\ u.value = t.value /\ u.opened = t.opened
<1> DEFINE p == [t EXCEPT !.previous = IF SE!changed(t) THEN t.selected ELSE @]
<1>1. /\ p \in SelectorState
      /\ p.previous = t.selected /\ p.selected = t.selected
      /\ p.value = t.value /\ p.opened = t.opened
  <2>1. t.selected \in Choices /\ t.previous \in Choices
    BY DEF SelectorState
  <2>2. p = [t EXCEPT !.previous = t.selected]
    BY <2>1 DEF SE!changed, SelectorState
  <2> QED
    BY <2>1, <2>2 DEF SelectorState
<1>2. u = IF p.previous # None THEN [p EXCEPT !.lit = p.previous] ELSE p
  BY DEF SE!checkChange
<1> HIDE DEF p
<1> QED
  BY <1>1, <1>2 DEF SelectorState

\* Closing tells the choice if it is open.
LEMMA ClosedIs ==
  ASSUME NEW t \in SelectorState, NEW u, u = SE!close(t)
  PROVE  /\ u \in SelectorState /\ ~u.opened
         /\ u.selected = t.selected /\ u.value = t.value
         /\ u.previous = IF t.opened THEN t.selected ELSE t.previous
<1>1. [t EXCEPT !.opened = FALSE] \in SelectorState
  BY DEF SelectorState
<1>2. CASE t.opened
  BY <1>1, <1>2, CheckedIs DEF SE!close, SelectorState
<1>3. CASE ~t.opened
  BY <1>3 DEF SE!close
<1> QED
  BY <1>2, <1>3

\* Every event keeps the invariant.
LEMMA SelectorStep ==
  ASSUME SelectorInv, [SE!Next]_(SE!vars) PROVE SelectorInv'
<1>1. CASE UNCHANGED SE!vars
  BY <1>1 DEF SE!vars, SelectorInv
<1>t. selector \in SelectorState
  BY DEF SelectorInv
<1>2. CASE SE!blur
  <2> DEFINE t == SE!checkChange(selector)
  <2>1. /\ selector' = SE!close(t) /\ UNCHANGED <<kind, renewed>>
        /\ choice' = IF SE!changed(selector) THEN selector.selected ELSE choice
        /\ hasFocus' = FALSE /\ departed' = TRUE
    BY <1>2 DEF SE!blur, SE!Element, SE!Told
  <2>2. /\ t \in SelectorState
        /\ t.selected = selector.selected /\ t.previous = selector.selected /\ t.value = selector.value
    BY <1>t, CheckedIs
  <2>3. /\ selector' \in SelectorState /\ ~selector'.opened
        /\ selector'.selected = selector.selected /\ selector'.value = selector.value
        /\ selector'.previous = selector.selected
    <3> HIDE DEF t
    <3> QED
      BY <2>1, <2>2, ClosedIs
  <2>4. ~renewed => choice' = selector.selected
    BY <2>1 DEF SE!changed, SelectorInv
  <2> QED
    BY <2>1, <2>3, <2>4 DEF SelectorInv
<1>3. CASE SE!blurView
  <2> DEFINE t == IF openers.listening > 0 THEN SE!closeView(selector) ELSE selector
  <2>1. /\ selector' = [t EXCEPT !.previous = IF SE!changed(selector) THEN selector.selected ELSE @]
        /\ UNCHANGED <<kind, renewed>> /\ kind = "view"
        /\ choice' = IF SE!changed(selector) THEN selector.selected ELSE choice
        /\ hasFocus' = FALSE /\ departed' = TRUE
    BY <1>3 DEF SE!blurView, SE!View, SE!Told
  <2>2. /\ t \in SelectorState
        /\ t.selected = selector.selected /\ t.previous = selector.previous /\ t.value = selector.value
    BY <1>t, OpenedIs
  <2>3. /\ selector' \in SelectorState
        /\ selector'.selected = selector.selected /\ selector'.value = selector.value
        /\ selector'.previous = selector.selected
    <3> HIDE DEF t
    <3> QED
      BY <1>t, <2>1, <2>2 DEF SE!changed, SelectorState
  <2>4. ~renewed => choice' = selector.selected
    BY <2>1 DEF SE!changed, SelectorInv
  <2> QED
    BY <2>1, <2>3, <2>4 DEF SelectorInv
<1>4. CASE SE!Stays /\ UNCHANGED departed
  <2>0. ASSUME NEW o \in Choices, SE!active(o) PROVE SelectorInv'
    <3> DEFINE t == SE!setSelected(selector, o)
    <3>1. /\ selector' = SE!close(t) /\ UNCHANGED <<kind, renewed>> /\ hasFocus' = TRUE
          /\ choice' = IF selector.opened /\ SE!changed(t) THEN t.selected ELSE choice
      BY <2>0 DEF SE!active, SE!Element, SE!Told
    <3>2. /\ t \in SelectorState /\ t.selected = o /\ t.previous = selector.previous
          /\ t.opened = selector.opened /\ (selector.value = selector.selected => t.value = o)
      BY <1>t, SelectedIs
    <3> HIDE DEF t
    <3>3. /\ selector' \in SelectorState /\ ~selector'.opened
          /\ selector'.selected = o /\ selector'.value = t.value
          /\ selector'.previous = IF selector.opened THEN o ELSE selector.previous
      BY <3>1, <3>2, ClosedIs
    <3> QED
      BY <1>4, <3>1, <3>2, <3>3 DEF SE!changed, SelectorInv
  <2>1. CASE SE!enable \/ SE!disable \/ SE!enableView \/ SE!setView \/ SE!unsetView \/ SE!renew
    BY <1>4, <2>1 DEF SE!enable, SE!disable, SE!enableView, SE!setView, SE!unsetView, SE!renew, SE!Element, SE!View,
       SelectorInv, SelectorState, Choices
  <2>2. CASE SE!mousedownView
    <3>1. /\ selector' \in SelectorState /\ selector'.selected = selector.selected
          /\ selector'.value = selector.value /\ selector'.previous = selector.previous
      <4>1. /\ SE!toggle(selector) \in SelectorState /\ SE!toggle(selector).selected = selector.selected
            /\ SE!toggle(selector).value = selector.value /\ SE!toggle(selector).previous = selector.previous
        BY <1>t, OpenedIs
      <4>2. selector' \in {selector, SE!toggle(selector), SE!toggle(SE!toggle(selector))}
        BY <2>2 DEF SE!mousedownView
      <4> QED
        BY <1>t, <4>1, <4>2, OpenedIs
    <3> QED
      BY <1>4, <2>2, <3>1 DEF SE!mousedownView, SE!View, SelectorInv
  <2>3. ASSUME NEW inList \in BOOLEAN, SE!mousedown(inList) PROVE SelectorInv'
    <3>1. /\ UNCHANGED <<kind, renewed>> /\ hasFocus' = TRUE
          /\ selector' = IF inList THEN selector
                         ELSE IF selector.opened THEN SE!close(selector) ELSE SE!opened(selector)
          /\ choice' = IF ~inList /\ selector.opened /\ SE!changed(selector) THEN selector.selected ELSE choice
      BY <2>3 DEF SE!mousedown, SE!Element, SE!Told
    <3>2. CASE ~inList /\ selector.opened
      BY <1>4, <1>t, <3>1, <3>2, ClosedIs DEF SE!changed, SelectorInv
    <3>3. CASE ~inList /\ ~selector.opened
      BY <1>4, <1>t, <3>1, <3>3, OpenedIs DEF SelectorInv
    <3>4. CASE inList
      BY <1>4, <3>1, <3>4 DEF SelectorInv
    <3> QED
      BY <3>2, <3>3, <3>4
  <2>4. ASSUME NEW key \in {"space", "esc", "arrow", "enter"}, SE!keydown(key) PROVE SelectorInv'
    <3>1. CASE SE!Element /\ selector' = SE!opened(selector) /\ UNCHANGED <<hasFocus, choice>>
      BY <1>4, <1>t, <2>4, <3>1, OpenedIs DEF SE!keydown, SE!Element, SelectorInv
    <3>2. CASE /\ SE!Element /\ selector' = SE!close(selector) /\ UNCHANGED hasFocus
               /\ IF selector.opened THEN SE!Told(selector) ELSE UNCHANGED choice
      BY <1>4, <1>t, <2>4, <3>2, ClosedIs DEF SE!keydown, SE!Element, SE!Told, SE!changed, SelectorInv
    <3>3. CASE /\ SE!Element /\ (\E o \in Option : selector' = [selector EXCEPT !.lit = o])
               /\ UNCHANGED <<hasFocus, choice>>
      BY <1>4, <1>t, <2>4, <3>3 DEF SE!keydown, SE!Element, SelectorInv, SelectorState, Choices
    <3>4. CASE selector.lit # None /\ SE!active(selector.lit)
      BY <1>t, <2>0, <3>4 DEF SelectorState
    <3> QED
      BY <2>4, <3>1, <3>2, <3>3, <3>4 DEF SE!keydown
  <2>5. ASSUME NEW key \in {"space", "esc"}, SE!keydownView(key) PROVE SelectorInv'
    <3>1. selector' = SE!opened(selector) \/ selector' = SE!closeView(selector)
      BY <2>5 DEF SE!keydownView
    <3> QED
      BY <1>4, <1>t, <2>5, <3>1, OpenedIs DEF SE!keydownView, SE!View, SelectorInv
  <2>6. ASSUME NEW o \in Option,
               SE!mousemove(o) \/ SE!click(o) \/ SE!unselectView(o) \/ SE!activeView(o)
               \/ \E mouse \in BOOLEAN : SE!selectView(o, mouse)
        PROVE  SelectorInv'
    <3>o. o \in Choices
      BY DEF Choices
    <3>1. CASE SE!mousemove(o)
      BY <1>4, <1>t, <3>1, <3>o DEF SE!mousemove, SE!Element, SelectorInv, SelectorState
    <3>2. CASE SE!click(o)
      BY <2>0, <3>2, <3>o DEF SE!click
    <3>3. CASE SE!unselectView(o)
      BY <1>4, <1>t, <3>3 DEF SE!unselectView, SE!View, SelectorInv, SelectorState, Choices
    <3>4. CASE SE!activeView(o)
      <4> DEFINE t == SE!setSelected(selector, o)
      <4>1. /\ t \in SelectorState /\ t.selected = o /\ t.previous = selector.previous
            /\ (selector.value = selector.selected => t.value = o)
        BY <1>t, <3>o, SelectedIs
      <4>2. selector' = SE!closeView(t) /\ UNCHANGED <<kind, hasFocus, renewed, choice>> /\ hasFocus
        BY <3>4 DEF SE!activeView, SE!View
      <4> HIDE DEF t
      <4>3. /\ selector' \in SelectorState /\ selector'.selected = t.selected /\ selector'.value = t.value
            /\ selector'.previous = t.previous
        BY <4>1, <4>2, OpenedIs
      <4> QED
        BY <1>4, <4>1, <4>2, <4>3 DEF SelectorInv
    <3>5. ASSUME NEW mouse \in BOOLEAN, SE!selectView(o, mouse) PROVE SelectorInv'
      <4> DEFINE t == SE!setSelected(selector, o)
      <4>1. /\ t \in SelectorState /\ t.selected = o /\ t.previous = selector.previous /\ t.opened = selector.opened
            /\ (selector.value = selector.selected => t.value = o)
        BY <1>t, <3>o, SelectedIs
      <4>2. /\ selector' = (IF mouse THEN selector ELSE t)
            /\ UNCHANGED <<kind, hasFocus, renewed, choice>> /\ selector.opened /\ kind = "view"
        BY <3>5 DEF SE!selectView, SE!View
      <4> HIDE DEF t
      <4> QED
        BY <1>4, <4>1, <4>2 DEF SelectorInv
    <3> QED
      BY <2>6, <3>1, <3>2, <3>3, <3>4, <3>5
  <2> QED
    BY <1>4, <2>1, <2>2, <2>3, <2>4, <2>5, <2>6 DEF SE!Stays
<1> QED
  BY <1>1, <1>2, <1>3, <1>4 DEF SE!Next

\* What was told last is the choice.
LEMMA SelectorSays == SelectorInv => SE!LeftTold
  BY DEF SelectorInv, SE!LeftTold

-----------------------------------------------------------------------------
(* The properties of nodes.                                                *)

\* The types of Properties.
Given ==
  {f \in UNION {[D -> Key \cup DOMAIN Types] : D \in SUBSET PR!Prop} :
     \A name \in DOMAIN f : f[name] \in PR!Values(name)}
Stated == Key \cup DOMAIN Types \cup {Undefined}
PropertyState ==
  [own : [Item -> Given], proto : [Item -> Given], told : [Item -> [PR!Prop -> Stated]],
   keys : [Key -> Item \cup {Undefined}], bare : [Item -> SUBSET PR!Prop]]

\* What a node of t was told last of a property.
Heard(t, n, name) ==
  IF name \in t.bare[n] THEN t.told[n][name] = Undefined /\ ~PR!has(t.own[n], name)
  ELSE t.told[n][name] = PR!get(t, n, name)

\* The key a node in the tree was told is listened to for it, if no other node had it.
Listened(t, n, had) ==
  t.told[n]["key"] # Undefined /\ (\A o \in Item \ {n} : t.told[n]["key"] \notin had[o])
    => t.keys[t.told[n]["key"]] = n

\* The inductive invariant of Properties.
PropertyInv ==
  /\ PR!PropertiesAssumption
  /\ properties \in PropertyState /\ attached \subseteq created /\ created \subseteq Item
  /\ hadKey \in [Item -> SUBSET Key]
  /\ \A n \in created :
       /\ properties.proto[n] = PR!calcProto(properties.own[n])
       /\ \A name \in PR!Prop : Heard(properties, n, name)
       /\ PR!get(properties, n, "key") \in hadKey[n] \cup {Undefined}
  /\ \A n \in attached : Listened(properties, n, hadKey)

\* Properties are given, changed and taken away one by one.
LEMMA GivenIs ==
  ASSUME NEW f \in Given
  PROVE  /\ DOMAIN f \subseteq PR!Prop
         /\ \A name \in PR!Prop : name \in DOMAIN f => f[name] \in PR!Values(name)
         /\ f = [x \in DOMAIN f |-> f[x]]
  BY DEF Given

\* What is said of them one by one makes them so.
LEMMA IsGiven ==
  ASSUME NEW D \in SUBSET PR!Prop, NEW f, f = [x \in D |-> f[x]], \A name \in D : f[name] \in PR!Values(name)
  PROVE  f \in Given
<1>1. \A name \in D : f[name] \in Key \cup DOMAIN Types
  BY DEF PR!Values
<1>2. f \in [D -> Key \cup DOMAIN Types]
  BY <1>1
<1>3. f \in UNION {[E -> Key \cup DOMAIN Types] : E \in SUBSET PR!Prop}
  BY <1>2
<1> QED
  BY <1>3 DEF Given

\* A property more.
LEMMA WithIs ==
  ASSUME NEW f \in Given, NEW name \in PR!Prop, NEW v \in PR!Values(name), NEW g, g = PR!With(f, name, v)
  PROVE  /\ g \in Given
         /\ DOMAIN g = DOMAIN f \cup {name}
         /\ g[name] = v /\ \A x \in DOMAIN f \ {name} : g[x] = f[x]
<1> DEFINE D == DOMAIN f \cup {name}
<1>1. D \in SUBSET PR!Prop /\ g = [x \in D |-> g[x]]
  BY GivenIs DEF PR!With
<1>2. \A x \in D : g[x] = IF x = name THEN v ELSE f[x]
  BY DEF PR!With
<1>3. \A x \in D : g[x] \in PR!Values(x)
  BY <1>1, <1>2, GivenIs
<1>4. g \in Given
  <2> HIDE DEF D
  <2> QED
    BY <1>1, <1>3, IsGiven
<1> QED
  BY <1>2, <1>4 DEF PR!With

Loses(f, g, name) ==
  /\ g \in Given
  /\ DOMAIN g = DOMAIN f \ {name}
  /\ \A x \in DOMAIN g : g[x] = f[x]

\* A property less.
LEMMA WithoutIs ==
  ASSUME NEW f \in Given, NEW name \in PR!Prop, NEW g, g = PR!Without(f, name)
  PROVE  Loses(f, g, name)
<1> DEFINE D == DOMAIN f \ {name}
<1>1. D \in SUBSET PR!Prop /\ g = [x \in D |-> g[x]]
  BY GivenIs DEF PR!Without
<1>2. \A x \in D : g[x] = f[x]
  BY DEF PR!Without
<1>3. \A x \in D : g[x] \in PR!Values(x)
  BY <1>1, <1>2, GivenIs
<1>4. g \in Given
  <2> HIDE DEF D
  <2> QED
    BY <1>1, <1>3, IsGiven
<1> QED
  BY <1>2, <1>4 DEF PR!Without, Loses

\* What a type gives; a node without one has the default.
LEMMA TypeGives ==
  ASSUME PR!PropertiesAssumption, NEW t \in DOMAIN Types
  PROVE  Types[t] \in Given
<1>1. /\ DOMAIN Types[t] \in SUBSET PR!Prop /\ Types[t] = [x \in DOMAIN Types[t] |-> Types[t][x]]
      /\ \A x \in DOMAIN Types[t] : Types[t][x] \in PR!Values(x)
  BY DEF PR!PropertiesAssumption
<1> QED
  BY <1>1, IsGiven

\* The proto of a node has properties of its type.
LEMMA CalcIs ==
  ASSUME PR!PropertiesAssumption, NEW f \in Given
  PROVE  PR!calcProto(f) \in Given
<1>1. PR!has(f, "type") => f["type"] \in DOMAIN Types
  BY GivenIs DEF PR!has, PR!Prop, PR!Values
<1> QED
  BY <1>1, TypeGives DEF PR!calcProto, PR!PropertiesAssumption

\* What is read of a node, and what it has when it has a property of its own.
LEMMA GetIs ==
  ASSUME PR!PropertiesAssumption, NEW t \in PropertyState, NEW n \in Item, NEW name \in PR!Prop
  PROVE  /\ PR!get(t, n, name) \in PR!Values(name) \cup {Undefined}
         /\ PR!get(t, n, name) \in Stated
         /\ Undefined \notin PR!Values(name)
         /\ PR!Values(name) \subseteq Stated
<1>1. t.own[n] \in Given /\ t.proto[n] \in Given
  BY DEF PropertyState
<1>2. PR!get(t, n, name) \in PR!Values(name) \cup {Undefined}
  BY <1>1, GivenIs DEF PR!get, PR!read, PR!has
<1> QED
  BY <1>2 DEF PR!Values, Stated, PR!PropertiesAssumption

\* What changes of n alone.
Tuned(t, u, n) ==
  /\ u \in PropertyState /\ u.own = t.own
  /\ \A m \in Item \ {n} : u.proto[m] = t.proto[m] /\ u.told[m] = t.told[m] /\ u.bare[m] = t.bare[m]
  /\ \A name \in PR!Prop : Heard(u, n, name)
\* The key of n is forgotten, or told and listened to.
KeptKey(t, u, n) == u.keys = t.keys /\ u.told[n]["key"] \in {t.told[n]["key"], Undefined}
NewKey(t, u, n, k) == u.keys = [t.keys EXCEPT ![k] = n] /\ u.told[n]["key"] = k

\* One listener is told.
ToldOnly(t, u, n, name, v) ==
  /\ u \in PropertyState /\ u.own = t.own /\ u.proto = t.proto
  /\ \A m \in Item \ {n} : u.told[m] = t.told[m] /\ u.bare[m] = t.bare[m]
  /\ \A x \in PR!Prop : u.told[n][x] = IF x = name THEN v ELSE t.told[n][x]
  /\ u.bare[n] = t.bare[n] \ {name}
  /\ u.keys = IF name = "key" /\ v # Undefined THEN [t.keys EXCEPT ![v] = n] ELSE t.keys

\* The listeners that draw it, and those of its key.
LEMMA TellIs ==
  ASSUME PR!PropertiesAssumption, NEW t \in PropertyState, NEW n \in Item, NEW name \in PR!Prop,
         NEW v \in PR!Values(name) \cup {Undefined}, NEW u, u = PR!tell(t, n, name, v)
  PROVE  ToldOnly(t, u, n, name, v)
<1> DEFINE heard == [t.told EXCEPT ![n] = [t.told[n] EXCEPT ![name] = v]]
           bare == [t.bare EXCEPT ![n] = t.bare[n] \ {name}]
           keys == IF name = "key" /\ v # Undefined THEN [t.keys EXCEPT ![v] = n] ELSE t.keys
<1>1. u = [t EXCEPT !.told = heard, !.bare = bare, !.keys = keys]
  BY DEF PR!tell, PropertyState
<1>2. heard \in [Item -> [PR!Prop -> Stated]]
  BY GetIs DEF PropertyState, Stated
<1>3. keys \in [Key -> Item \cup {Undefined}] /\ bare \in [Item -> SUBSET PR!Prop]
  BY DEF PropertyState
<1>4. /\ \A m \in Item \ {n} : heard[m] = t.told[m] /\ bare[m] = t.bare[m]
      /\ \A x \in PR!Prop : heard[n][x] = IF x = name THEN v ELSE t.told[n][x]
      /\ bare[n] = t.bare[n] \ {name}
  BY DEF PropertyState
<1> HIDE DEF heard, bare, keys
<1>5. /\ u \in PropertyState /\ u.own = t.own /\ u.proto = t.proto /\ u.told = heard /\ u.keys = keys
      /\ u.bare = bare
  BY <1>1, <1>2, <1>3 DEF PropertyState
<1> QED
  BY <1>4, <1>5 DEF keys, ToldOnly

\* A property of a proto is replaced, or removed.
LEMMA SetProtoIs ==
  ASSUME PR!PropertiesAssumption, NEW t \in PropertyState, NEW n \in Item, NEW name \in PR!Prop,
         NEW v \in PR!Values(name), \A x \in PR!Prop : Heard(t, n, x),
         NEW u, u = PR!setProto(t, n, name, v)
  PROVE  /\ Tuned(t, u, n)
         /\ DOMAIN u.proto[n] = DOMAIN t.proto[n] \cup {name}
         /\ \A x \in DOMAIN u.proto[n] : u.proto[n][x] = IF x = name THEN v ELSE t.proto[n][x]
         /\ KeptKey(t, u, n) \/ (name = "key" /\ ~PR!has(t.own[n], "key") /\ NewKey(t, u, n, v))
<1> DEFINE w == [t EXCEPT !.proto[n] = PR!With(@, name, v)]
<1>t. /\ t.proto[n] \in Given /\ t.own[n] \in Given
      /\ t.told \in [Item -> [PR!Prop -> Stated]] /\ t.keys \in [Key -> Item \cup {Undefined}]
  BY DEF PropertyState
<1>v. v # Undefined /\ (name = "key" => v \in Key)
  BY GetIs DEF PR!Values
<1>1. CASE PR!read(t.proto[n], name) = v
  <2>1. u = t
    BY <1>1 DEF PR!setProto
  <2>2. name \in DOMAIN t.proto[n] /\ t.proto[n][name] = v
    BY <1>1, <1>v DEF PR!read, PR!has
  <2>4. DOMAIN u.proto[n] = DOMAIN t.proto[n] \cup {name}
    BY <2>1, <2>2
  <2>5. Tuned(t, u, n) /\ KeptKey(t, u, n)
    <3>1. Tuned(t, t, n)
      BY DEF Tuned
    <3>2. KeptKey(t, t, n)
      BY DEF KeptKey
    <3> QED
      BY <2>1, <3>1, <3>2
  <2>6. \A x \in DOMAIN u.proto[n] : u.proto[n][x] = IF x = name THEN v ELSE t.proto[n][x]
    <3>1. ASSUME NEW x \in DOMAIN t.proto[n] PROVE t.proto[n][x] = IF x = name THEN v ELSE t.proto[n][x]
      <4>1. CASE x = name
        BY <2>2, <4>1
      <4>2. CASE x # name
        BY <4>2
      <4> QED
        BY <4>1, <4>2
    <3> QED
      BY <2>1, <3>1
  <2> QED
    BY <2>4, <2>5, <2>6
<1>2. CASE PR!read(t.proto[n], name) # v
  <2>1. /\ w \in PropertyState /\ w.own = t.own /\ w.told = t.told /\ w.keys = t.keys /\ w.bare = t.bare
        /\ w.proto[n] = PR!With(t.proto[n], name, v) /\ \A m \in Item \ {n} : w.proto[m] = t.proto[m]
    <3> DEFINE f == t.proto[n]
               g == PR!With(f, name, v)
               proto == [t.proto EXCEPT ![n] = g]
    <3>g. g \in Given
      <4> HIDE DEF f
      <4>1. f \in Given
        BY <1>t DEF f
      <4> QED
        BY <4>1, WithIs
    <3>1. w = [t EXCEPT !.proto = proto]
      BY DEF PropertyState
    <3> HIDE DEF g
    <3>2. /\ proto \in [Item -> Given] /\ proto[n] = g
          /\ \A m \in Item \ {n} : proto[m] = t.proto[m]
      BY <3>g DEF PropertyState
    <3> HIDE DEF proto, w
    <3> QED
      BY <3>1, <3>2 DEF PropertyState, g
  <2> HIDE DEF w
  <2>2. /\ DOMAIN w.proto[n] = DOMAIN t.proto[n] \cup {name}
        /\ \A x \in DOMAIN w.proto[n] : w.proto[n][x] = IF x = name THEN v ELSE t.proto[n][x]
    <3> DEFINE f == t.proto[n]
               g == w.proto[n]
    <3>1. f \in Given /\ g = PR!With(f, name, v)
      BY <1>t, <2>1
    <3> HIDE DEF f, g
    <3>2. DOMAIN g = DOMAIN f \cup {name}
      BY <3>1, WithIs
    <3>3. g[name] = v /\ \A x \in DOMAIN f \ {name} : g[x] = f[x]
      BY <3>1 DEF PR!With
    <3> QED
      BY <3>2, <3>3 DEF f, g
  <2>3. u = IF PR!hidden(t, n, name) THEN w ELSE PR!tell(w, n, name, v)
    BY <1>2 DEF PR!setProto, w
  <2>4. \A x \in PR!Prop : PR!get(w, n, x) = IF x # name \/ PR!has(t.own[n], name) THEN PR!get(t, n, x) ELSE v
    BY <2>1, <2>2 DEF PR!get, PR!read, PR!has
  <2>5. CASE PR!hidden(t, n, name)
    <3>1. u = w /\ PR!has(t.own[n], name)
      BY <2>1, <2>3, <2>5 DEF PR!hidden
    <3>2. \A x \in PR!Prop : Heard(u, n, x)
      BY <2>1, <2>4, <3>1 DEF Heard
    <3>3. Tuned(t, u, n)
      BY <2>1, <3>1, <3>2 DEF Tuned
    <3>4. KeptKey(t, u, n)
      BY <2>1, <3>1 DEF KeptKey
    <3> QED
      BY <2>2, <3>1, <3>3, <3>4
  <2>6. CASE ~PR!hidden(t, n, name)
    <3>1. u = PR!tell(w, n, name, v) /\ ~PR!has(t.own[n], name)
      BY <2>1, <2>3, <2>6 DEF PR!hidden
    <3>2. /\ u \in PropertyState /\ u.own = w.own /\ u.proto = w.proto
          /\ \A m \in Item \ {n} : u.told[m] = w.told[m] /\ u.bare[m] = w.bare[m]
          /\ \A x \in PR!Prop : u.told[n][x] = IF x = name THEN v ELSE w.told[n][x]
          /\ u.bare[n] = w.bare[n] \ {name}
          /\ u.keys = IF name = "key" /\ v # Undefined THEN [w.keys EXCEPT ![v] = n] ELSE w.keys
      <4>1. v \in PR!Values(name) \cup {Undefined}
        OBVIOUS
      <4>2. ToldOnly(w, u, n, name, v)
        BY <2>1, <3>1, <4>1, TellIs
      <4> QED
        BY <4>2 DEF ToldOnly
    <3>3. \A x \in PR!Prop : Heard(u, n, x)
      <4>1. \A x \in PR!Prop : PR!get(u, n, x) = PR!get(w, n, x)
        BY <3>2 DEF PR!get
      <4> QED
        BY <2>1, <2>4, <3>1, <3>2, <4>1 DEF Heard
    <3>4. KeptKey(t, u, n) \/ (name = "key" /\ ~PR!has(t.own[n], "key") /\ NewKey(t, u, n, v))
      <4>1. CASE name = "key"
        BY <1>v, <2>1, <3>1, <3>2, <4>1 DEF NewKey
      <4>2. CASE name # "key"
        BY <2>1, <3>2, <4>2 DEF KeptKey, PR!Prop
      <4> QED
        BY <4>1, <4>2
    <3> QED
      BY <2>1, <2>2, <3>2, <3>3, <3>4 DEF Tuned
  <2> QED
    BY <2>5, <2>6
<1> QED
  BY <1>1, <1>2

\* What the new type lacks is told to be gone, unless the node has its own.
LEMMA RemoveProtoIs ==
  ASSUME PR!PropertiesAssumption, NEW t \in PropertyState, NEW n \in Item, NEW name \in PR!Prop,
         \A x \in PR!Prop : Heard(t, n, x), NEW u, u = PR!removeProto(t, n, name)
  PROVE  /\ Tuned(t, u, n)
         /\ DOMAIN u.proto[n] = DOMAIN t.proto[n] \ {name}
         /\ \A x \in DOMAIN u.proto[n] : u.proto[n][x] = t.proto[n][x]
         /\ KeptKey(t, u, n)
<1> DEFINE w == [t EXCEPT !.proto[n] = PR!Without(@, name)]
<1>t. /\ t.proto[n] \in Given /\ t.own[n] \in Given
      /\ t.told \in [Item -> [PR!Prop -> Stated]] /\ t.keys \in [Key -> Item \cup {Undefined}]
  BY DEF PropertyState
<1>1. /\ w \in PropertyState /\ w.own = t.own /\ w.told = t.told /\ w.keys = t.keys /\ w.bare = t.bare
      /\ w.proto[n] = PR!Without(t.proto[n], name) /\ \A m \in Item \ {n} : w.proto[m] = t.proto[m]
  <2> DEFINE proto == [t.proto EXCEPT ![n] = PR!Without(t.proto[n], name)]
  <2>1. w = [t EXCEPT !.proto = proto]
    BY DEF PropertyState
  <2>2. /\ proto \in [Item -> Given] /\ proto[n] = PR!Without(t.proto[n], name)
        /\ \A m \in Item \ {n} : proto[m] = t.proto[m]
    <3> DEFINE f == t.proto[n]
               g == PR!Without(f, name)
    <3>1. f \in Given
      BY <1>t
    <3> HIDE DEF f
    <3>2. Loses(f, g, name)
      BY <3>1, WithoutIs
    <3>3. g \in Given
      BY <3>2 DEF Loses
    <3> HIDE DEF g
    <3>4. /\ [t.proto EXCEPT ![n] = g] \in [Item -> Given] /\ [t.proto EXCEPT ![n] = g][n] = g
          /\ \A m \in Item \ {n} : [t.proto EXCEPT ![n] = g][m] = t.proto[m]
      BY <3>3 DEF PropertyState
    <3> QED
      BY <3>4 DEF f, g
  <2> HIDE DEF proto, w
  <2> QED
    BY <2>1, <2>2 DEF PropertyState
<1> HIDE DEF w
<1>2. /\ DOMAIN w.proto[n] = DOMAIN t.proto[n] \ {name}
      /\ \A x \in DOMAIN w.proto[n] : w.proto[n][x] = t.proto[n][x]
  <2> DEFINE f == t.proto[n]
             g == w.proto[n]
  <2>1. f \in Given /\ g = PR!Without(f, name)
    BY <1>t, <1>1
  <2> HIDE DEF f, g
  <2>2. Loses(f, g, name)
    BY <2>1, WithoutIs
  <2> QED
    BY <2>2 DEF f, g, Loses
<1>3. u = IF PR!hidden(t, n, name) THEN w ELSE PR!tell(w, n, name, Undefined)
  BY DEF PR!removeProto, w
<1>4. \A x \in PR!Prop : PR!get(w, n, x) = IF x # name \/ PR!has(t.own[n], name) THEN PR!get(t, n, x) ELSE Undefined
  BY <1>1, <1>2 DEF PR!get, PR!read, PR!has
<1>5. CASE PR!hidden(t, n, name)
  <2>1. u = w /\ PR!has(t.own[n], name)
    BY <1>1, <1>3, <1>5 DEF PR!hidden
  <2>2. \A x \in PR!Prop : Heard(u, n, x)
    BY <1>1, <1>4, <2>1 DEF Heard
  <2> QED
    BY <1>1, <1>2, <2>1, <2>2 DEF Tuned, KeptKey
<1>6. CASE ~PR!hidden(t, n, name)
  <2>1. u = PR!tell(w, n, name, Undefined) /\ ~PR!has(t.own[n], name)
    BY <1>1, <1>3, <1>6 DEF PR!hidden
  <2>2. /\ u \in PropertyState /\ u.own = w.own /\ u.proto = w.proto
        /\ \A m \in Item \ {n} : u.told[m] = w.told[m] /\ u.bare[m] = w.bare[m]
        /\ \A x \in PR!Prop : u.told[n][x] = IF x = name THEN Undefined ELSE w.told[n][x]
        /\ u.bare[n] = w.bare[n] \ {name}
        /\ u.keys = w.keys
    <3> DEFINE v == Undefined
    <3>1. v \in PR!Values(name) \cup {Undefined} /\ u = PR!tell(w, n, name, v)
      BY <2>1
    <3> HIDE DEF v
    <3>2. ToldOnly(w, u, n, name, v)
      BY <1>1, <3>1, TellIs
    <3> QED
      BY <3>2 DEF v, ToldOnly
  <2>3. \A x \in PR!Prop : Heard(u, n, x)
    <3>1. \A x \in PR!Prop : PR!get(u, n, x) = PR!get(w, n, x)
      BY <2>2 DEF PR!get
    <3> QED
      BY <1>1, <1>4, <2>1, <2>2, <3>1 DEF Heard
  <2>4. KeptKey(t, u, n)
    BY <1>1, <2>2 DEF KeptKey, PR!Prop
  <2> QED
    BY <1>1, <1>2, <2>2, <2>3, <2>4 DEF Tuned
<1> QED
  BY <1>5, <1>6

\* The key of n after two changes of it.
LEMMA KeptTwice ==
  ASSUME NEW t, NEW w, NEW u, NEW n, KeptKey(t, w, n)
  PROVE  /\ KeptKey(w, u, n) => KeptKey(t, u, n)
         /\ \A k : NewKey(w, u, n, k) => NewKey(t, u, n, k)
  BY DEF KeptKey, NewKey

\* What changes of n after two changes of it.
LEMMA TunedTwice ==
  ASSUME NEW t, NEW w, NEW u, NEW n, Tuned(t, w, n), Tuned(w, u, n)
  PROVE  Tuned(t, u, n)
  BY DEF Tuned

\* A node is given the proto of its type.
LEMMA UpdateIs ==
  ASSUME PR!PropertiesAssumption, NEW t \in PropertyState, NEW n \in Item, \A x \in PR!Prop : Heard(t, n, x),
         NEW u, u = PR!updateProto(t, n)
  PROVE  /\ Tuned(t, u, n) /\ u.proto[n] = PR!calcProto(t.own[n])
         /\ KeptKey(t, u, n) \/ (\E k \in Key : NewKey(t, u, n, k) /\ k = PR!get(u, n, "key"))
<1> DEFINE proto == PR!calcProto(t.own[n])
           D == DOMAIN t.proto[n] \ DOMAIN proto
           t1 == IF "type" \in D THEN PR!removeProto(t, n, "type") ELSE t
           t2 == IF "key" \in D THEN PR!removeProto(t1, n, "key") ELSE t1
           t3 == IF "type" \in DOMAIN proto THEN PR!setProto(t2, n, "type", proto["type"]) ELSE t2
           t4 == IF "key" \in DOMAIN proto THEN PR!setProto(t3, n, "key", proto["key"]) ELSE t3
<1>1. u = t4
  BY DEF PR!updateProto, PR!eachPair, PR!dropped
<1>p. proto \in Given
  BY CalcIs DEF PropertyState
<1>g. /\ t.proto[n] \in Given /\ DOMAIN t.proto[n] \subseteq {"type", "key"} /\ DOMAIN proto \subseteq {"type", "key"}
      /\ D \subseteq {"type", "key"} /\ DOMAIN t.proto[n] \ D \subseteq DOMAIN proto
      /\ \A x \in DOMAIN proto : proto[x] \in PR!Values(x)
      /\ "type" \in PR!Prop /\ "key" \in PR!Prop
      /\ proto = [x \in DOMAIN proto |-> proto[x]]
  BY <1>p, GivenIs DEF PropertyState, PR!Prop
<1>t. Tuned(t, t, n) /\ KeptKey(t, t, n)
  BY DEF Tuned, KeptKey
<1> HIDE DEF proto, D
<1>2. Tuned(t, t1, n) /\ KeptKey(t, t1, n) /\ DOMAIN t1.proto[n] = DOMAIN t.proto[n] \ (D \cap {"type"})
  <2>1. CASE "type" \in D
    BY <1>g, <2>1, RemoveProtoIs
  <2>2. CASE "type" \notin D
    BY <1>t, <2>2
  <2> QED
    BY <2>1, <2>2
<1> HIDE DEF t1
<1>3. Tuned(t, t2, n) /\ KeptKey(t, t2, n) /\ DOMAIN t2.proto[n] \subseteq DOMAIN proto
  <2>0. t1 \in PropertyState /\ \A x \in PR!Prop : Heard(t1, n, x)
    BY <1>2 DEF Tuned
  <2>1. CASE "key" \in D
    <3>1. Tuned(t1, t2, n) /\ KeptKey(t1, t2, n) /\ DOMAIN t2.proto[n] = DOMAIN t1.proto[n] \ {"key"}
      BY <1>g, <2>0, <2>1, RemoveProtoIs
    <3> HIDE DEF t2
    <3>2. DOMAIN t2.proto[n] \subseteq DOMAIN proto
      BY <1>g, <1>2, <3>1
    <3> QED
      BY <1>2, <3>1, <3>2, KeptTwice, TunedTwice
  <2>2. CASE "key" \notin D
    BY <1>g, <1>2, <2>2
  <2> QED
    BY <2>1, <2>2
<1> HIDE DEF t2
<1>4. /\ Tuned(t, t3, n) /\ KeptKey(t, t3, n)
      /\ DOMAIN t3.proto[n] \subseteq DOMAIN proto
      /\ "type" \in DOMAIN proto => "type" \in DOMAIN t3.proto[n] /\ t3.proto[n]["type"] = proto["type"]
  <2>0. t2 \in PropertyState /\ \A x \in PR!Prop : Heard(t2, n, x)
    BY <1>3 DEF Tuned
  <2>1. CASE "type" \in DOMAIN proto
    <3> DEFINE v == proto["type"]
    <3>1. v \in PR!Values("type") /\ t3 = PR!setProto(t2, n, "type", v)
      BY <1>g, <2>1
    <3> HIDE DEF v, t3
    <3>2. /\ Tuned(t2, t3, n) /\ KeptKey(t2, t3, n)
          /\ DOMAIN t3.proto[n] = DOMAIN t2.proto[n] \cup {"type"}
          /\ t3.proto[n]["type"] = v
      BY <1>g, <2>0, <3>1, SetProtoIs
    <3> QED
      BY <1>3, <2>1, <3>2, KeptTwice, TunedTwice DEF v
  <2>2. CASE "type" \notin DOMAIN proto
    BY <1>3, <2>2
  <2> QED
    BY <2>1, <2>2
<1> HIDE DEF t3
<1>5. /\ Tuned(t, t4, n)
      /\ KeptKey(t, t4, n) \/ (\E k \in Key : NewKey(t, t4, n, k) /\ k = PR!get(t4, n, "key"))
      /\ DOMAIN t4.proto[n] = DOMAIN proto
      /\ \A x \in DOMAIN proto : t4.proto[n][x] = proto[x]
  <2>0. t3 \in PropertyState /\ \A x \in PR!Prop : Heard(t3, n, x)
    BY <1>4 DEF Tuned
  <2>1. CASE "key" \in DOMAIN proto
    <3> DEFINE v == proto["key"]
    <3>1. v \in PR!Values("key") /\ t4 = PR!setProto(t3, n, "key", v)
      BY <1>g, <2>1
    <3> HIDE DEF v, t4
    <3>2. /\ Tuned(t3, t4, n)
          /\ DOMAIN t4.proto[n] = DOMAIN t3.proto[n] \cup {"key"}
          /\ \A x \in DOMAIN t4.proto[n] : t4.proto[n][x] = IF x = "key" THEN v ELSE t3.proto[n][x]
          /\ KeptKey(t3, t4, n) \/ (~PR!has(t3.own[n], "key") /\ NewKey(t3, t4, n, v))
      BY <1>g, <2>0, <3>1, SetProtoIs
    <3>3. DOMAIN t4.proto[n] = DOMAIN proto /\ \A x \in DOMAIN proto : t4.proto[n][x] = proto[x]
      BY <1>g, <1>4, <2>1, <3>2 DEF v
    <3>4. ~PR!has(t3.own[n], "key") => PR!get(t4, n, "key") = v
      BY <2>1, <3>2, <3>3 DEF PR!get, PR!read, PR!has, Tuned, v
    <3>5. v \in Key
      BY <3>1 DEF PR!Values
    <3> QED
      BY <1>4, <3>2, <3>3, <3>4, <3>5, KeptTwice, TunedTwice
  <2>2. CASE "key" \notin DOMAIN proto
    BY <1>g, <1>4, <2>2
  <2> QED
    BY <2>1, <2>2
<1> HIDE DEF t4
<1>6. t4.proto[n] = proto
  <2>1. t4.proto[n] \in Given
    BY <1>5 DEF Tuned, PropertyState
  <2>2. t4.proto[n] = [x \in DOMAIN t4.proto[n] |-> t4.proto[n][x]]
    BY <2>1, GivenIs
  <2> QED
    BY <1>g, <1>5, <2>2
<1> QED
  BY <1>1, <1>5, <1>6 DEF proto

\* A property of the node's own changed and is told, the type to the proto too.
Changed(t, n, name, v) ==
  /\ PR!PropertiesAssumption /\ t \in PropertyState /\ n \in Item /\ name \in PR!Prop
  /\ v \in PR!Values(name) \cup {Undefined}
  /\ \A x \in PR!Prop \ {name} : Heard(t, n, x)
  /\ v = PR!read(t.own[n], name)
  /\ name = "key" => t.proto[n] = PR!calcProto(t.own[n])

\* The node has the proto of its type then, and every listener was told.
LEMMA ChangeIs ==
  ASSUME NEW t, NEW n, NEW name, NEW v, Changed(t, n, name, v), NEW u, u = PR!propertyChange(t, n, name, v)
  PROVE  /\ Tuned(t, u, n) /\ u.proto[n] = PR!calcProto(t.own[n])
         /\ KeptKey(t, u, n) \/ (\E k \in Key : NewKey(t, u, n, k) /\ k = PR!get(u, n, "key"))
<1> USE DEF Changed
<1> DEFINE r == PR!tell(t, n, name, v)
           bare == IF v = Undefined /\ PR!has(t.proto[n], name) THEN r.bare[n] \cup {name} ELSE r.bare[n]
           w == [r EXCEPT !.bare[n] = bare]
<1>1. u = IF name = "type" THEN PR!updateProto(w, n) ELSE w
  <2>1. w = [r EXCEPT !.bare[n] = IF v = Undefined /\ PR!has(t.proto[n], name) THEN @ \cup {name} ELSE @]
    <3>1. ToldOnly(t, r, n, name, v)
      BY TellIs
    <3> HIDE DEF r
    <3> QED
      BY <3>1 DEF ToldOnly, PropertyState
  <2> QED
    BY <2>1 DEF PR!propertyChange
<1>2. /\ w \in PropertyState /\ w.own = t.own /\ w.proto = t.proto
      /\ \A m \in Item \ {n} : w.told[m] = t.told[m] /\ w.bare[m] = t.bare[m]
      /\ \A x \in PR!Prop : w.told[n][x] = IF x = name THEN v ELSE t.told[n][x]
      /\ \A x \in PR!Prop \ {name} : x \in w.bare[n] <=> x \in t.bare[n]
      /\ name \in w.bare[n] <=> v = Undefined /\ PR!has(t.proto[n], name)
      /\ w.keys = IF name = "key" /\ v # Undefined THEN [t.keys EXCEPT ![v] = n] ELSE t.keys
  <2>1. ToldOnly(t, r, n, name, v)
    BY TellIs
  <2> HIDE DEF r
  <2>2. bare \in SUBSET PR!Prop
    BY <2>1 DEF ToldOnly, PropertyState
  <2> HIDE DEF bare
  <2>3. /\ w \in PropertyState /\ w.own = r.own /\ w.proto = r.proto /\ w.told = r.told /\ w.keys = r.keys
        /\ w.bare[n] = bare /\ \A m \in Item \ {n} : w.bare[m] = r.bare[m]
    <3> DEFINE bares == [r.bare EXCEPT ![n] = bare]
    <3>1. /\ bares \in [Item -> SUBSET PR!Prop] /\ bares[n] = bare
          /\ \A m \in Item \ {n} : bares[m] = r.bare[m]
      BY <2>1, <2>2 DEF ToldOnly, PropertyState
    <3>2. w = [r EXCEPT !.bare = bares]
      BY <2>1 DEF ToldOnly, PropertyState
    <3> HIDE DEF bares, w
    <3> QED
      BY <2>1, <3>1, <3>2 DEF ToldOnly, PropertyState
  <2> HIDE DEF w
  <2> QED
    BY <2>1, <2>3 DEF ToldOnly, bare
<1> HIDE DEF w, r, bare
<1>3. \A x \in PR!Prop : PR!get(w, n, x) = PR!get(t, n, x)
  BY <1>2 DEF PR!get
<1>4. \A x \in PR!Prop : Heard(w, n, x)
  <2>1. ASSUME NEW x \in PR!Prop \ {name} PROVE Heard(w, n, x)
    BY <1>2, <1>3 DEF Heard
  <2>2. v = Undefined => ~PR!has(t.own[n], name)
    <3>1. t.own[n] \in Given
      BY DEF PropertyState
    <3> QED
      BY <3>1, GivenIs, GetIs DEF PR!read, PR!has
  <2>3. Heard(w, n, name)
    BY <1>2, <1>3, <2>2 DEF Heard, PR!get, PR!read
  <2> QED
    BY <2>1, <2>3
<1>5. Tuned(t, w, n)
  BY <1>2, <1>4 DEF Tuned
<1>6. CASE name = "type"
  <2>1. KeptKey(t, w, n)
    BY <1>2, <1>6 DEF KeptKey, PR!Prop
  <2>2. /\ Tuned(w, u, n) /\ u.proto[n] = PR!calcProto(w.own[n])
        /\ KeptKey(w, u, n) \/ (\E k \in Key : NewKey(w, u, n, k) /\ k = PR!get(u, n, "key"))
    BY <1>1, <1>2, <1>4, <1>6, UpdateIs
  <2> QED
    BY <1>2, <1>5, <2>1, <2>2, KeptTwice, TunedTwice
<1>7. CASE name = "key"
  <2>1. u = w
    BY <1>1, <1>7
  <2>2. CASE v = Undefined
    <3>1. KeptKey(t, w, n)
      BY <1>2, <1>7, <2>2 DEF KeptKey
    <3> QED
      BY <1>2, <1>5, <1>7, <2>1, <3>1
  <2>3. CASE v # Undefined
    <3>1. v \in Key /\ NewKey(t, w, n, v) /\ v = PR!get(w, n, "key")
      <4>1. v \in Key /\ NewKey(t, w, n, v)
        BY <1>2, <1>7, <2>3 DEF NewKey, PR!Values
      <4>2. v = PR!get(t, n, "key")
        BY <1>7, <2>3 DEF PR!get, PR!read
      <4> QED
        BY <1>3, <1>7, <4>1, <4>2
    <3> QED
      BY <1>2, <1>5, <1>7, <2>1, <3>1
  <2> QED
    BY <2>2, <2>3
<1> QED
  BY <1>6, <1>7 DEF PR!Prop

\* The properties a node has of its own change.
WithOwn(t, n, f) == [t EXCEPT !.own[n] = f]

Owns(t, u, n, f) ==
  /\ u \in PropertyState /\ u.proto = t.proto /\ u.told = t.told /\ u.keys = t.keys /\ u.bare = t.bare
  /\ u.own[n] = f /\ \A m \in Item \ {n} : u.own[m] = t.own[m]

\* Nothing else does.
LEMMA OwnIs ==
  ASSUME NEW t \in PropertyState, NEW n \in Item, NEW f \in Given, NEW u, u = WithOwn(t, n, f)
  PROVE  Owns(t, u, n, f)
<1> DEFINE own == [t.own EXCEPT ![n] = f]
<1>1. own \in [Item -> Given] /\ own[n] = f /\ \A m \in Item \ {n} : own[m] = t.own[m]
  BY DEF PropertyState
<1>2. u = [t EXCEPT !.own = own]
  BY DEF PropertyState, WithOwn
<1> HIDE DEF own
<1> QED
  BY <1>1, <1>2 DEF PropertyState, Owns

\* The listeners draw what a node that enters has.
LEMMA DrawnIs ==
  ASSUME PR!PropertiesAssumption, NEW t \in PropertyState, NEW n \in Item, NEW u, u = PR!Drawn(t, n)
  PROVE  /\ u \in PropertyState /\ u.own = t.own /\ u.proto = t.proto /\ u.keys = t.keys
         /\ \A m \in Item \ {n} : u.told[m] = t.told[m] /\ u.bare[m] = t.bare[m]
         /\ u.bare[n] = {} /\ \A x \in PR!Prop : u.told[n][x] = PR!get(u, n, x)
<1> DEFINE drawn == [name \in PR!Prop |-> PR!get(t, n, name)]
           heard == [t.told EXCEPT ![n] = drawn]
           bare == [t.bare EXCEPT ![n] = {}]
<1>1. drawn \in [PR!Prop -> Stated]
  BY GetIs
<1>2. u = [t EXCEPT !.told = heard, !.bare = bare]
  BY DEF PR!Drawn, PropertyState
<1>3. /\ heard \in [Item -> [PR!Prop -> Stated]] /\ heard[n] = drawn
      /\ bare \in [Item -> SUBSET PR!Prop] /\ bare[n] = {}
      /\ \A m \in Item \ {n} : heard[m] = t.told[m] /\ bare[m] = t.bare[m]
  BY <1>1 DEF PropertyState
<1>4. \A x \in PR!Prop : drawn[x] = PR!get(t, n, x)
  OBVIOUS
<1> HIDE DEF heard, drawn, bare
<1>5. /\ u \in PropertyState /\ u.own = t.own /\ u.proto = t.proto /\ u.keys = t.keys /\ u.told = heard
      /\ u.bare = bare
  BY <1>2, <1>3 DEF PropertyState
<1>6. \A x \in PR!Prop : PR!get(u, n, x) = PR!get(t, n, x)
  BY <1>5 DEF PR!get
<1> QED
  BY <1>3, <1>4, <1>5, <1>6

\* A node has a key it had, and is heard; the others keep what they have.
LEMMA NodeChanges ==
  ASSUME PropertyInv, NEW n \in Item,
         properties' \in PropertyState,
         \A m \in Item \ {n} : /\ properties'.own[m] = properties.own[m]
                               /\ properties'.proto[m] = properties.proto[m]
                               /\ properties'.told[m] = properties.told[m]
                               /\ properties'.bare[m] = properties.bare[m],
         n \in created' => /\ properties'.proto[n] = PR!calcProto(properties'.own[n])
                           /\ \A x \in PR!Prop : Heard(properties', n, x)
                           /\ PR!get(properties', n, "key") \in hadKey'[n] \cup {Undefined},
         hadKey' \in [Item -> SUBSET Key], hadKey[n] \subseteq hadKey'[n],
         \A m \in Item \ {n} : hadKey'[m] = hadKey[m],
         created' \subseteq created \cup {n}, attached' \subseteq created', attached' \ {n} \subseteq attached,
         \A k \in Key \ hadKey'[n] : properties'.keys[k] = properties.keys[k],
         n \in attached' => Listened(properties', n, hadKey')
  PROVE  PropertyInv'
<1>1. created' \subseteq Item
  BY DEF PropertyInv
<1>2. ASSUME NEW m \in created' \ {n}
      PROVE  /\ properties'.proto[m] = PR!calcProto(properties'.own[m])
             /\ \A name \in PR!Prop : Heard(properties', m, name)
             /\ PR!get(properties', m, "key") \in hadKey'[m] \cup {Undefined}
  <2>1. /\ m \in created /\ m \in Item \ {n}
        /\ properties.proto[m] = PR!calcProto(properties.own[m])
        /\ \A name \in PR!Prop : Heard(properties, m, name)
        /\ PR!get(properties, m, "key") \in hadKey[m] \cup {Undefined}
    BY DEF PropertyInv
  <2>2. \A name \in PR!Prop : PR!get(properties', m, name) = PR!get(properties, m, name)
    BY <2>1 DEF PR!get
  <2> QED
    BY <2>1, <2>2 DEF Heard, PR!Prop
<1>3. ASSUME NEW m \in attached' \ {n} PROVE Listened(properties', m, hadKey')
  <2>1. m \in attached /\ m \in created /\ m \in Item \ {n} /\ Listened(properties, m, hadKey)
    BY DEF PropertyInv
  <2>2. SUFFICES ASSUME properties'.told[m]["key"] # Undefined,
                        \A o \in Item \ {m} : properties'.told[m]["key"] \notin hadKey'[o]
                 PROVE  properties'.keys[properties'.told[m]["key"]] = m
    BY DEF Listened
  <2> DEFINE k == properties'.told[m]["key"]
  <2>3. k = properties.told[m]["key"] /\ k # Undefined
    BY <2>1, <2>2
  <2>4. k \in Key
    <3>1. k \in PR!Values("key") \cup {Undefined}
      <4>1. "key" \in PR!Prop /\ properties \in PropertyState /\ Heard(properties, m, "key") /\ PR!PropertiesAssumption
        BY <2>1 DEF PropertyInv, PR!Prop
      <4> QED
        BY <2>1, <2>3, <4>1, GetIs DEF Heard
    <3> QED
      BY <2>3, <3>1 DEF PR!Values
  <2> HIDE DEF k
  <2>5. \A o \in Item \ {m} : k \notin hadKey[o]
    BY <2>2 DEF k
  <2>6. k \notin hadKey'[n]
    BY <2>1, <2>2 DEF k
  <2>7. properties.keys[k] = m
    BY <2>1, <2>3, <2>5 DEF Listened
  <2>8. properties'.keys[k] = properties.keys[k]
    BY <2>4, <2>6
  <2> QED
    BY <2>7, <2>8 DEF k
<1> QED
  BY <1>1, <1>2, <1>3 DEF PropertyInv

\* At first there are no nodes.
LEMMA PropertyInit == PR!PropertiesAssumption /\ PR!Init => PropertyInv
<1> SUFFICES ASSUME PR!PropertiesAssumption, PR!Init PROVE PropertyInv
  OBVIOUS
<1>1. PR!NoProperties \in Given
  <2>1. PR!NoProperties \in UNION {[D -> Key \cup DOMAIN Types] : D \in SUBSET PR!Prop}
    <3>1. {} \in SUBSET PR!Prop /\ PR!NoProperties \in [{} -> Key \cup DOMAIN Types]
      BY DEF PR!NoProperties
    <3> QED
      BY <3>1
  <2> QED
    BY <2>1 DEF Given, PR!NoProperties
<1>2. Types[DefaultType] \in Given
  BY TypeGives DEF PR!PropertiesAssumption
<1>3. properties \in PropertyState
  BY <1>1, <1>2 DEF PR!Init, PR!Blank, PropertyState, Stated
<1> QED
  BY <1>3 DEF PR!Init, PropertyInv

\* The key a node was told goes on being listened to for it.
LEMMA GoesOnListened ==
  ASSUME PropertyInv, NEW n \in attached, NEW u, u = properties',
         \A m \in Item \ {n} : hadKey'[m] = hadKey[m],
         KeptKey(properties, u, n) \/ (\E k \in Key : NewKey(properties, u, n, k))
  PROVE  Listened(u, n, hadKey')
<1>1. Listened(properties, n, hadKey) /\ properties.keys \in [Key -> Item \cup {Undefined}]
  BY DEF PropertyInv, PropertyState
<1>2. CASE KeptKey(properties, u, n)
  BY <1>1, <1>2 DEF KeptKey, Listened
<1>3. CASE \E k \in Key : NewKey(properties, u, n, k)
  BY <1>1, <1>3 DEF NewKey, Listened
<1> QED
  BY <1>2, <1>3

\* A node has the key it was noted to have.
LEMMA NoteIs ==
  ASSUME PropertyInv, NEW n \in Item, properties' \in PropertyState, PR!Note(n)
  PROVE  /\ hadKey' \in [Item -> SUBSET Key] /\ hadKey[n] \subseteq hadKey'[n]
         /\ \A m \in Item \ {n} : hadKey'[m] = hadKey[m]
         /\ PR!get(properties', n, "key") \in hadKey'[n] \cup {Undefined}
<1>1. PR!get(properties', n, "key") \in Key \cup {Undefined}
  BY GetIs DEF PropertyInv, PR!Prop, PR!Values
<1> QED
  BY <1>1 DEF PR!Note, PropertyInv

\* A property of a node is set or removed: the invariant holds then.
LEMMA Changes ==
  ASSUME PropertyInv, NEW n \in created, NEW name \in PR!Prop, NEW v \in PR!Values(name) \cup {Undefined},
         NEW f \in Given, NEW t, t = WithOwn(properties, n, f),
         DOMAIN f \ {name} = DOMAIN properties.own[n] \ {name},
         \A x \in DOMAIN f \ {name} : f[x] = properties.own[n][x],
         v = PR!read(f, name),
         properties' = PR!propertyChange(t, n, name, v),
         PR!Note(n), UNCHANGED <<created, attached, fired>>
  PROVE  PropertyInv'
<1>1. /\ n \in Item /\ properties \in PropertyState /\ PR!PropertiesAssumption
      /\ properties.proto[n] = PR!calcProto(properties.own[n])
      /\ \A x \in PR!Prop : Heard(properties, n, x)
  BY DEF PropertyInv
<1>2. /\ t \in PropertyState /\ t.proto = properties.proto /\ t.told = properties.told /\ t.keys = properties.keys
      /\ t.bare = properties.bare
      /\ t.own[n] = f /\ \A m \in Item \ {n} : t.own[m] = properties.own[m]
  <2>1. Owns(properties, t, n, f)
    BY <1>1, OwnIs
  <2> QED
    BY <2>1 DEF Owns
<1>3. ASSUME NEW x \in PR!Prop \ {name} PROVE PR!get(t, n, x) = PR!get(properties, n, x) /\ Heard(t, n, x)
  <2>1. /\ t.own[n] = f /\ t.proto[n] = properties.proto[n] /\ t.told[n] = properties.told[n]
        /\ t.bare[n] = properties.bare[n]
    BY <1>2
  <2>2. x \in DOMAIN f <=> x \in DOMAIN properties.own[n]
    OBVIOUS
  <2>3. x \in DOMAIN f => f[x] = properties.own[n][x]
    OBVIOUS
  <2>4. PR!get(t, n, x) = PR!get(properties, n, x) /\ (PR!has(t.own[n], x) <=> PR!has(properties.own[n], x))
    BY <2>1, <2>2, <2>3 DEF PR!get, PR!has
  <2>5. Heard(properties, n, x)
    BY <1>1
  <2> QED
    BY <2>1, <2>2, <2>4, <2>5 DEF Heard
<1>4. \A x \in PR!Prop \ {name} : Heard(t, n, x)
  BY <1>3
<1>5. v = PR!read(t.own[n], name)
  BY <1>2
<1>6. name = "key" => t.proto[n] = PR!calcProto(t.own[n])
  <2>1. ASSUME name = "key" PROVE PR!calcProto(f) = PR!calcProto(properties.own[n])
    <3>1. "type" \in DOMAIN f <=> "type" \in DOMAIN properties.own[n]
      BY <2>1
    <3>2. "type" \in DOMAIN f => f["type"] = properties.own[n]["type"]
      BY <2>1
    <3> QED
      BY <3>1, <3>2 DEF PR!calcProto, PR!has
  <2> QED
    BY <1>1, <1>2, <2>1
<1> DEFINE u == properties'
<1>7. u = PR!propertyChange(t, n, name, v)
  OBVIOUS
<1> HIDE DEF u
<1>c. Changed(t, n, name, v)
  BY <1>1, <1>2, <1>4, <1>5, <1>6 DEF Changed
<1>8. /\ Tuned(t, u, n) /\ u.proto[n] = PR!calcProto(t.own[n])
      /\ KeptKey(t, u, n) \/ (\E k \in Key : NewKey(t, u, n, k) /\ k = PR!get(u, n, "key"))
  BY <1>7, <1>c, ChangeIs
<1>9. KeptKey(properties, u, n) \/ (\E k \in Key : NewKey(properties, u, n, k) /\ k = PR!get(u, n, "key"))
  BY <1>2, <1>8 DEF KeptKey, NewKey
<1>10. /\ hadKey' \in [Item -> SUBSET Key] /\ hadKey[n] \subseteq hadKey'[n]
       /\ \A m \in Item \ {n} : hadKey'[m] = hadKey[m]
       /\ PR!get(u, n, "key") \in hadKey'[n] \cup {Undefined}
  BY <1>1, <1>8, NoteIs DEF Tuned, u
<1>11. n \in attached' => Listened(u, n, hadKey')
  BY <1>9, <1>10, GoesOnListened DEF u
<1>12. \A k \in Key \ hadKey'[n] : u.keys[k] = properties.keys[k]
  <2>1. CASE KeptKey(properties, u, n)
    BY <2>1 DEF KeptKey
  <2>2. ASSUME NEW k \in Key, NewKey(properties, u, n, k), k = PR!get(u, n, "key")
        PROVE  \A o \in Key \ hadKey'[n] : u.keys[o] = properties.keys[o]
    <3>1. k \in hadKey'[n]
      BY <1>1, <1>10, <2>2 DEF PR!PropertiesAssumption
    <3> QED
      BY <1>1, <2>2, <3>1 DEF NewKey, PropertyState
  <2> QED
    BY <1>9, <2>1, <2>2
<1>13. \A m \in Item \ {n} : /\ u.own[m] = properties.own[m]
                             /\ u.proto[m] = properties.proto[m] /\ u.told[m] = properties.told[m]
                             /\ u.bare[m] = properties.bare[m]
  BY <1>2, <1>8 DEF Tuned
<1>14. u \in PropertyState /\ u.proto[n] = PR!calcProto(u.own[n]) /\ \A x \in PR!Prop : Heard(u, n, x)
  BY <1>2, <1>8 DEF Tuned
<1>15. created' = created /\ attached' = attached /\ attached \subseteq created
  BY DEF PropertyInv
<1> QED
  BY <1>1, <1>10, <1>11, <1>12, <1>13, <1>14, <1>15, NodeChanges DEF u

\* A node is made.
LEMMA Creates ==
  ASSUME PropertyInv, NEW n \in Item, NEW own \in Given, PR!createNode(n, own)
  PROVE  PropertyInv'
<1> DEFINE proto == PR!calcProto(own)
           t == [properties EXCEPT !.own[n] = own, !.proto[n] = PR!calcProto(own)]
           u == properties'
<1>1. /\ properties \in PropertyState /\ PR!PropertiesAssumption /\ attached \subseteq created
      /\ n \notin created /\ n \notin attached
  BY DEF PropertyInv, PR!createNode
<1>2. proto \in Given
  BY <1>1, CalcIs
<1>3. /\ t \in PropertyState /\ t.told = properties.told /\ t.keys = properties.keys /\ t.bare = properties.bare
      /\ t.own[n] = own /\ t.proto[n] = proto
      /\ \A m \in Item \ {n} : t.own[m] = properties.own[m] /\ t.proto[m] = properties.proto[m]
  <2> DEFINE owns == [properties.own EXCEPT ![n] = own]
             protos == [properties.proto EXCEPT ![n] = proto]
  <2>1. t = [properties EXCEPT !.own = owns, !.proto = protos]
    BY <1>1 DEF PropertyState
  <2> HIDE DEF proto, t
  <2>2. /\ owns \in [Item -> Given] /\ protos \in [Item -> Given]
        /\ owns[n] = own /\ protos[n] = proto
        /\ \A m \in Item \ {n} : owns[m] = properties.own[m] /\ protos[m] = properties.proto[m]
    BY <1>1, <1>2 DEF PropertyState
  <2> HIDE DEF owns, protos
  <2> QED
    BY <1>1, <2>1, <2>2 DEF PropertyState
<1>4. u = PR!Drawn(t, n) /\ PR!Note(n) /\ created' = created \cup {n} /\ attached' = attached
  BY DEF PR!createNode
<1> HIDE DEF proto, t, u
<1>5. /\ u \in PropertyState /\ u.own = t.own /\ u.proto = t.proto /\ u.keys = t.keys
      /\ \A m \in Item \ {n} : u.told[m] = t.told[m] /\ u.bare[m] = t.bare[m]
      /\ u.bare[n] = {} /\ \A x \in PR!Prop : u.told[n][x] = PR!get(u, n, x)
  BY <1>1, <1>3, <1>4, DrawnIs
<1>6. /\ hadKey' \in [Item -> SUBSET Key] /\ hadKey[n] \subseteq hadKey'[n]
      /\ \A m \in Item \ {n} : hadKey'[m] = hadKey[m]
      /\ PR!get(u, n, "key") \in hadKey'[n] \cup {Undefined}
  BY <1>4, <1>5, NoteIs DEF u
<1>7. \A m \in Item \ {n} : /\ u.own[m] = properties.own[m]
                            /\ u.proto[m] = properties.proto[m] /\ u.told[m] = properties.told[m]
                             /\ u.bare[m] = properties.bare[m]
  BY <1>3, <1>5
<1>8. u.proto[n] = PR!calcProto(u.own[n]) /\ \A x \in PR!Prop : Heard(u, n, x)
  BY <1>3, <1>5 DEF Heard, proto
<1>9. \A k \in Key \ hadKey'[n] : u.keys[k] = properties.keys[k]
  BY <1>3, <1>5
<1>10. attached' \subseteq created' /\ attached' \ {n} \subseteq attached /\ n \notin attached'
  BY <1>1, <1>4
<1> QED
  BY <1>4, <1>5, <1>6, <1>7, <1>8, <1>9, <1>10, NodeChanges DEF u

\* A node enters the tree.
LEMMA Enters ==
  ASSUME PropertyInv, NEW n \in Item, PR!enter(n)
  PROVE  PropertyInv'
<1> DEFINE k == PR!get(properties, n, "key")
           t == IF k = Undefined THEN properties ELSE [properties EXCEPT !.keys[k] = n]
           u == properties'
<1>1. /\ properties \in PropertyState /\ PR!PropertiesAssumption /\ attached \subseteq created /\ n \in created
      /\ properties.proto[n] = PR!calcProto(properties.own[n])
  BY DEF PropertyInv, PR!enter
<1>2. k \in Key \cup {Undefined} /\ Undefined \notin Key
  BY <1>1, GetIs DEF PR!Prop, PR!Values
<1>3. u = PR!Drawn(t, n) /\ PR!Note(n) /\ created' = created /\ attached' = attached \cup {n}
  BY DEF PR!enter
<1> HIDE DEF k, u
<1>4. /\ t \in PropertyState /\ t.own = properties.own /\ t.proto = properties.proto /\ t.told = properties.told
      /\ t.bare = properties.bare
      /\ t.keys = IF k = Undefined THEN properties.keys ELSE [properties.keys EXCEPT ![k] = n]
  <2> DEFINE keys == [properties.keys EXCEPT ![k] = n]
  <2>1. k # Undefined => t = [properties EXCEPT !.keys = keys]
    BY <1>1, <1>2 DEF PropertyState
  <2>2. k # Undefined => keys \in [Key -> Item \cup {Undefined}]
    BY <1>1, <1>2 DEF PropertyState
  <2>3. k = Undefined => t = properties
    OBVIOUS
  <2> HIDE DEF t
  <2>4. CASE k = Undefined
    BY <1>1, <2>3, <2>4
  <2>5. CASE k # Undefined
    <3> HIDE DEF keys
    <3>1. t \in PropertyState /\ t.own = properties.own /\ t.proto = properties.proto /\ t.told = properties.told
          /\ t.keys = keys /\ t.bare = properties.bare
      BY <1>1, <2>1, <2>2, <2>5 DEF PropertyState
    <3> QED
      BY <2>5, <3>1 DEF keys
  <2> QED
    BY <2>4, <2>5
<1> HIDE DEF t
<1>5. /\ u \in PropertyState /\ u.own = t.own /\ u.proto = t.proto /\ u.keys = t.keys
      /\ \A m \in Item \ {n} : u.told[m] = t.told[m] /\ u.bare[m] = t.bare[m]
      /\ u.bare[n] = {} /\ \A x \in PR!Prop : u.told[n][x] = PR!get(u, n, x)
  BY <1>1, <1>3, <1>4, DrawnIs
<1>6. /\ hadKey' \in [Item -> SUBSET Key] /\ hadKey[n] \subseteq hadKey'[n]
      /\ \A m \in Item \ {n} : hadKey'[m] = hadKey[m]
      /\ PR!get(u, n, "key") \in hadKey'[n] \cup {Undefined}
  BY <1>3, <1>5, NoteIs DEF u
<1>7. \A m \in Item \ {n} : /\ u.own[m] = properties.own[m]
                            /\ u.proto[m] = properties.proto[m] /\ u.told[m] = properties.told[m]
                             /\ u.bare[m] = properties.bare[m]
  BY <1>4, <1>5
<1>8. u.proto[n] = PR!calcProto(u.own[n]) /\ \A x \in PR!Prop : Heard(u, n, x)
  BY <1>1, <1>4, <1>5 DEF Heard
<1>9. PR!get(u, n, "key") = k
  BY <1>4, <1>5 DEF PR!get, k
<1>10. \A o \in Key \ hadKey'[n] : u.keys[o] = properties.keys[o]
  BY <1>1, <1>4, <1>5, <1>6, <1>9 DEF PropertyState
<1>11. Listened(u, n, hadKey')
  <2>1. u.told[n]["key"] = k
    BY <1>5, <1>9 DEF PR!Prop
  <2>2. k # Undefined => u.keys[k] = n
    BY <1>1, <1>2, <1>4, <1>5 DEF PropertyState
  <2> QED
    BY <2>1, <2>2 DEF Listened
<1>12. created' \subseteq created \cup {n} /\ attached' \subseteq created' /\ attached' \ {n} \subseteq attached
  BY <1>1, <1>3
<1> QED
  BY <1>5, <1>6, <1>7, <1>8, <1>10, <1>11, <1>12, NodeChanges DEF u

\* A node leaves it.
LEMMA Leaves ==
  ASSUME PropertyInv, NEW n \in Item, PR!leave(n)
  PROVE  PropertyInv'
<1> DEFINE u == properties'
           k == properties.own[n]["key"]
<1>1. /\ properties \in PropertyState /\ PR!PropertiesAssumption /\ attached \subseteq created /\ n \in created
      /\ properties.proto[n] = PR!calcProto(properties.own[n]) /\ \A x \in PR!Prop : Heard(properties, n, x)
      /\ PR!get(properties, n, "key") \in hadKey[n] \cup {Undefined} /\ hadKey \in [Item -> SUBSET Key]
  BY DEF PropertyInv, PR!leave
<1>2. /\ u = IF PR!has(properties.own[n], "key") THEN [properties EXCEPT !.keys[k] = Undefined] ELSE properties
      /\ created' = created /\ attached' = attached \ {n} /\ hadKey' = hadKey
  BY DEF PR!leave
<1>3. PR!has(properties.own[n], "key") => k \in hadKey[n] /\ k \in Key
  <2>1. PR!has(properties.own[n], "key") => k \in PR!Values("key") /\ k = PR!get(properties, n, "key")
    <3>1. properties.own[n] \in Given /\ "key" \in PR!Prop
      BY <1>1 DEF PropertyState, PR!Prop
    <3> QED
      BY <3>1, GivenIs DEF PR!get, PR!has
  <2> QED
    BY <1>1, <2>1 DEF PR!Values, PR!PropertiesAssumption
<1> HIDE DEF u, k
<1>4. /\ u \in PropertyState /\ u.own = properties.own /\ u.proto = properties.proto /\ u.told = properties.told
      /\ u.bare = properties.bare
      /\ u.keys = IF PR!has(properties.own[n], "key")
                  THEN [properties.keys EXCEPT ![k] = Undefined] ELSE properties.keys
  <2> DEFINE keys == [properties.keys EXCEPT ![k] = Undefined]
  <2>1. CASE PR!has(properties.own[n], "key")
    <3>1. u = [properties EXCEPT !.keys = keys]
      BY <1>1, <1>2, <2>1 DEF PropertyState
    <3>2. keys \in [Key -> Item \cup {Undefined}]
      BY <1>1 DEF PropertyState
    <3> HIDE DEF keys
    <3>3. u \in PropertyState /\ u.own = properties.own /\ u.proto = properties.proto /\ u.told = properties.told
          /\ u.keys = keys /\ u.bare = properties.bare
      BY <1>1, <3>1, <3>2 DEF PropertyState
    <3> QED
      BY <2>1, <3>3 DEF keys
  <2>2. CASE ~PR!has(properties.own[n], "key")
    BY <1>1, <1>2, <2>2
  <2> QED
    BY <2>1, <2>2
<1>5. \A x \in PR!Prop : PR!get(u, n, x) = PR!get(properties, n, x)
  BY <1>4 DEF PR!get
<1>6. \A x \in PR!Prop : Heard(u, n, x)
  BY <1>1, <1>4, <1>5 DEF Heard
<1>7. PR!get(u, n, "key") \in hadKey[n] \cup {Undefined}
  BY <1>1, <1>5 DEF PR!Prop
<1>8. \A o \in Key \ hadKey[n] : u.keys[o] = properties.keys[o]
  BY <1>1, <1>3, <1>4 DEF PropertyState
<1>9. attached' \subseteq created' /\ attached' \ {n} \subseteq attached /\ n \notin attached'
  BY <1>1, <1>2
<1> QED
  BY <1>1, <1>2, <1>4, <1>6, <1>7, <1>8, <1>9, NodeChanges DEF u

\* Every operation keeps the invariant.
LEMMA PropertyStep ==
  ASSUME PropertyInv, [PR!Next]_(PR!vars) PROVE PropertyInv'
<1>i. /\ PR!PropertiesAssumption /\ properties \in PropertyState /\ created \subseteq Item
      /\ attached \subseteq created
  BY DEF PropertyInv
<1>1. CASE UNCHANGED PR!vars
  BY <1>1 DEF PR!vars, PropertyInv, Heard, Listened, PR!get
<1>2. ASSUME NEW k \in Key, PR!active(k) PROVE PropertyInv'
  BY <1>2 DEF PR!active, PropertyInv, Heard, Listened, PR!get
<1>3. ASSUME NEW n \in Item, NEW own \in {PR!NoProperties} \cup {[type |-> t] : t \in DOMAIN Types},
             PR!createNode(n, own)
      PROVE  PropertyInv'
  <2>1. own \in Given
    <3>1. CASE own = PR!NoProperties
      <4>1. DOMAIN own = {} /\ own = [x \in DOMAIN own |-> own[x]]
        BY <3>1 DEF PR!NoProperties
      <4> QED
        BY <4>1, IsGiven
    <3>2. ASSUME NEW t \in DOMAIN Types, own = [type |-> t] PROVE own \in Given
      <4>1. /\ DOMAIN own = {"type"} /\ own = [x \in DOMAIN own |-> own[x]] /\ own["type"] = t
            /\ {"type"} \in SUBSET PR!Prop /\ t \in PR!Values("type")
        BY <3>2 DEF PR!Prop, PR!Values
      <4> QED
        BY <4>1, IsGiven
    <3> QED
      BY <3>1, <3>2
  <2> QED
    BY <1>3, <2>1, Creates
<1>4. ASSUME NEW n \in Item, NEW m \in Item, PR!clone(m, n) PROVE PropertyInv'
  <2>1. properties.own[m] \in Given
    BY <1>i DEF PropertyState
  <2> QED
    BY <1>4, <2>1, Creates DEF PR!clone
<1>5. ASSUME NEW n \in Item, NEW name \in PR!Prop, NEW v \in PR!Values(name), PR!setProperty(n, name, v)
      PROVE  PropertyInv'
  <2> DEFINE f == PR!With(properties.own[n], name, v)
             t == [properties EXCEPT !.own[n] = f]
             g == properties.own[n]
  <2>1. /\ n \in created /\ properties' = PR!propertyChange(t, n, name, v)
        /\ PR!Note(n) /\ UNCHANGED <<created, attached, fired>>
    BY <1>5 DEF PR!setProperty
  <2>2. g \in Given /\ f = PR!With(g, name, v)
    BY <1>i, <2>1 DEF PropertyState
  <2> HIDE DEF f, g
  <2>3. f \in Given /\ DOMAIN f = DOMAIN g \cup {name}
    BY <2>2, WithIs
  <2>4. f[name] = v /\ \A x \in DOMAIN g \ {name} : f[x] = g[x]
    BY <2>2 DEF PR!With
  <2>5. /\ v = PR!read(f, name)
        /\ DOMAIN f \ {name} = DOMAIN g \ {name} /\ \A x \in DOMAIN f \ {name} : f[x] = g[x]
    BY <2>3, <2>4 DEF PR!read, PR!has
  <2> HIDE DEF t
  <2>6. t = WithOwn(properties, n, f) /\ v \in PR!Values(name) \cup {Undefined}
    BY DEF t, WithOwn
  <2> QED
    BY <2>1, <2>3, <2>5, <2>6, Changes DEF g
<1>6. ASSUME NEW n \in Item, NEW name \in PR!Prop, PR!removeProperty(n, name) PROVE PropertyInv'
  <2> DEFINE f == PR!Without(properties.own[n], name)
             t == [properties EXCEPT !.own[n] = f]
             g == properties.own[n]
             v == Undefined
  <2>1. /\ n \in created /\ properties' = PR!propertyChange(t, n, name, v)
        /\ PR!Note(n) /\ UNCHANGED <<created, attached, fired>>
    BY <1>6 DEF PR!removeProperty
  <2>2. g \in Given /\ f = PR!Without(g, name)
    BY <1>i, <2>1 DEF PropertyState
  <2> HIDE DEF f, g
  <2>3. Loses(g, f, name)
    BY <2>2, WithoutIs
  <2>4. f \in Given /\ DOMAIN f = DOMAIN g \ {name} /\ \A x \in DOMAIN f : f[x] = g[x]
    BY <2>3 DEF Loses
  <2>5. /\ v = PR!read(f, name)
        /\ DOMAIN f \ {name} = DOMAIN g \ {name} /\ \A x \in DOMAIN f \ {name} : f[x] = g[x]
    BY <2>4 DEF PR!read, PR!has
  <2>6. t = WithOwn(properties, n, f) /\ v \in PR!Values(name) \cup {Undefined}
    BY DEF WithOwn
  <2> HIDE DEF t, v
  <2> QED
    BY <2>1, <2>4, <2>5, <2>6, Changes DEF g
<1>7. ASSUME NEW n \in Item, PR!enter(n) \/ PR!leave(n) PROVE PropertyInv'
  BY <1>7, Enters, Leaves
<1> QED
  BY <1>1, <1>2, <1>3, <1>4, <1>5, <1>6, <1>7 DEF PR!Next

\* Every listener was told what there is, and the keys are listened to.
LEMMA PropertySays == PropertyInv => PR!ToldTheValue
  BY DEF PropertyInv, PR!ToldTheValue, Heard, Listened

\* What a listener was told last of a property is its value, unless that was that
\* the node's own was removed, over one of its type, and the listener goes on
\* without it until it is told of another; what a selector told last is
\* its choice once the focus has left it, and it shows it (tree.js:120-282,
\* tree.selector.js:15-187, selector.js:36-114 and its controllers).
THEOREM ValuesAreTold == Spec => []ToldTheValue
<1> DEFINE Inv == (scene = "selector" => SelectorInv) /\ (scene = "properties" => PropertyInv)
<1> USE ClientAssumption
<1>1. Init => Inv
  BY SelectorInit, PropertyInit DEF Init
<1>2. Inv /\ [Next]_clientVars => Inv'
  <2> SUFFICES ASSUME Inv, [Next]_clientVars PROVE Inv'
    OBVIOUS
  <2>1. scene' = scene
    BY DEF Next, clientVars
  <2>2. ASSUME scene = "selector" PROVE [SE!Next]_(SE!vars)
    BY <2>2 DEF Next, clientVars, selectorVars, SE!vars
  <2>3. ASSUME scene = "properties" PROVE [PR!Next]_(PR!vars)
    BY <2>3 DEF Next, clientVars, propertyVars, PR!vars
  <2> QED
    BY <2>1, <2>2, <2>3, SelectorStep, PropertyStep
<1>3. Inv => ToldTheValue
  BY SelectorSays, PropertySays DEF ToldTheValue
<1> QED
  BY <1>1, <1>2, <1>3, PTL DEF Spec

-----------------------------------------------------------------------------
(* The tables of the store.                                               *)

\* The types of Db.
DbType ==
  /\ disk \in [Table -> SUBSET Int] /\ tables \in [Table -> SUBSET Int]
  /\ whole \subseteq Table /\ reading \subseteq Table /\ mkdirs \subseteq Table
  /\ creates \subseteq Table \X Nat /\ unlinks \subseteq Table \X Nat /\ lost \subseteq Table
  /\ loading \in {"idle", "asked", "tables"} /\ calls \in Nat /\ errors \in Nat

\* The items of a table in memory are 0, 1, 2, ...
TablesNumbered == \A t \in Table : tables[t] # T!NoTable => \E n \in Nat : tables[t] = 0..(n - 1)

\* A file is never numbered -1.
FilesNumbered == \A t \in Table : disk[t] # T!NoDirectory => disk[t] \subseteq Nat

\* A whole table has its directory, its files are known, and what is under way
\* goes over none of them.
WholeKnown ==
  \A t \in whole :
    /\ disk[t] # T!NoDirectory /\ tables[t] # T!NoTable /\ disk[t] \subseteq tables[t]
    /\ \A i \in Nat : <<t, i>> \in creates => i \notin disk[t]

\* Nothing was lost of the writes of a table that is whole, or can become so when
\* its directory is made.
WritesKnown ==
  \A t \in Table : t \in whole \/ disk[t] = T!NoDirectory =>
    \A i \in Nat : <<t, i>> \in creates => tables[t] # T!NoTable /\ i \in tables[t]

TablesThere ==
  /\ \A t \in mkdirs : tables[t] # T!NoTable
  /\ \A t \in reading : tables[t] # T!NoTable /\ disk[t] # T!NoDirectory

\* What is left for the callback of load to tell.
LoadCounted ==
  /\ errors > 0 => calls <= errors
  /\ errors = 0 => calls <= 1
  /\ errors = 0 /\ (loading # "tables" \/ reading # {}) => calls = 0
  /\ loading # "tables" => reading = {} /\ errors = 0

DbInv == DbType /\ TablesNumbered /\ FilesNumbered /\ WholeKnown /\ WritesKnown /\ TablesThere /\ LoadCounted

\* The cardinality of Db is that of the theorems about finite sets.
LEMMA SameCardinality == \A S : T!Cardinality(S) = Cardinality(S)
  BY Zenon DEF T!Cardinality, Cardinality

\* calcIndex answers the number of items, which is the first free index.
LEMMA NextIndex ==
  ASSUME DbType, TablesNumbered, NEW t \in Table, tables[t] # T!NoTable
  PROVE  /\ T!calcIndex(t) \in Nat /\ tables[t] = 0..(T!calcIndex(t) - 1)
         /\ tables[t] \union {T!calcIndex(t)} = 0..T!calcIndex(t)
<1>1. PICK n \in Nat : tables[t] = 0..(n - 1)
  BY DEF TablesNumbered
<1>2. Cardinality(0..(n - 1)) = n
  BY FS_Interval
<1> QED
  BY <1>1, <1>2, SameCardinality DEF T!calcIndex

\* The store begins without tables.
LEMMA DbInit == T!Init => DbInv
BY DEF T!Init, DbInv, DbType, TablesNumbered, FilesNumbered, WholeKnown, WritesKnown, TablesThere, LoadCounted,
       T!NoDirectory, T!NoTable

\* A crash forgets what is in memory, and so everything DbInv asks of it.
LEMMA BootInv ==
  ASSUME DbInv, T!Boot, UNCHANGED <<disk, lost>>
  PROVE  DbInv'
BY DEF T!Boot, DbInv, DbType, TablesNumbered, FilesNumbered, WholeKnown, WritesKnown, TablesThere, LoadCounted,
       T!NoDirectory, T!NoTable

\* Every step keeps the invariant.
LEMMA DbStep == DbInv /\ [T!Next]_(T!vars) => DbInv'
<1> SUFFICES ASSUME DbInv, [T!Next]_(T!vars) PROVE DbInv'
  OBVIOUS
<1> USE DEF DbInv
<1>1. CASE T!load
  BY <1>1 DEF T!load, DbType, TablesNumbered, FilesNumbered, WholeKnown, WritesKnown, TablesThere, LoadCounted
<1>2. CASE T!readTables
  <2> DEFINE found == {t \in Table : disk[t] # T!NoDirectory}
  <2>1. /\ loading = "asked" /\ loading' = "tables" /\ reading' = found
        /\ tables' = [t \in Table |-> IF t \in found THEN {} ELSE tables[t]]
        /\ whole' = whole \ found /\ calls' = IF found = {} THEN 1 ELSE 0
        /\ UNCHANGED <<disk, mkdirs, creates, unlinks, errors, lost>>
    BY <1>2 DEF T!readTables
  <2>2. DbType'
    BY <2>1 DEF DbType
  <2>3. TablesNumbered'
    <3> SUFFICES ASSUME NEW t \in Table, tables'[t] # T!NoTable PROVE \E n \in Nat : tables'[t] = 0..(n - 1)
      BY DEF TablesNumbered
    <3>1. CASE t \in found
      <4>1. tables'[t] = 0..(0 - 1)
        BY <2>1, <3>1
      <4> QED BY <4>1
    <3>2. CASE t \notin found
      BY <2>1, <3>2 DEF TablesNumbered
    <3> QED BY <3>1, <3>2
  <2>4. whole' = {}
    BY <2>1 DEF WholeKnown, DbType
  <2>5. FilesNumbered' /\ WholeKnown' /\ WritesKnown'
    BY <2>1, <2>4 DEF FilesNumbered, WholeKnown, WritesKnown
  <2>6. TablesThere'
    BY <2>1 DEF TablesThere, T!NoTable, DbType
  <2>7. LoadCounted'
    BY <2>1 DEF LoadCounted, DbType
  <2> QED BY <2>2, <2>3, <2>5, <2>6, <2>7
<1>3. CASE T!Restart
  BY <1>3, BootInv DEF T!Restart
<1>4. ASSUME NEW t \in Table, T!readItems(t) PROVE DbInv'
  <2>1. CASE disk[t] # {}
    BY <1>4, <2>1, BootInv DEF T!readItems
  <2>2. CASE disk[t] = {}
    <3>1. /\ t \in reading /\ reading' = reading \ {t}
          /\ whole' = IF \A w \in creates : w[1] # t THEN whole \union {t} ELSE whole
          /\ calls' = IF reading' = {} /\ errors = 0 THEN calls + 1 ELSE calls
          /\ UNCHANGED <<disk, tables, loading, mkdirs, creates, unlinks, errors, lost>>
      BY <1>4, <2>2 DEF T!readItems
    <3>2. tables[t] # T!NoTable /\ disk[t] # T!NoDirectory
      BY <3>1 DEF TablesThere
    <3>3. t \in whole' => t \in whole \/ \A i \in Nat : <<t, i>> \notin creates
      BY <3>1
    <3>4. DbType' /\ TablesNumbered' /\ FilesNumbered' /\ TablesThere'
      BY <3>1 DEF DbType, TablesNumbered, FilesNumbered, TablesThere
    <3>5. WholeKnown' /\ WritesKnown'
      BY <2>2, <3>1, <3>2, <3>3 DEF WholeKnown, WritesKnown
    <3>6. LoadCounted'
      BY <3>1 DEF LoadCounted, DbType
    <3> QED BY <3>4, <3>5, <3>6
  <2> QED BY <2>1, <2>2
<1>5. ASSUME NEW t \in Table, T!readFails(t) PROVE DbInv'
  BY <1>5 DEF T!readFails, DbType, TablesNumbered, FilesNumbered, WholeKnown, WritesKnown, TablesThere, LoadCounted
<1>6. ASSUME NEW t \in Table, T!insertTable(t) PROVE DbInv'
  <2>1. /\ tables[t] = T!NoTable /\ tables' = [tables EXCEPT ![t] = {}] /\ mkdirs' = mkdirs \union {t}
        /\ UNCHANGED <<disk, whole, loading, reading, creates, unlinks, calls, errors, lost>>
    BY <1>6 DEF T!insertTable
  <2>2. DbType' /\ FilesNumbered' /\ TablesThere' /\ LoadCounted'
    BY <2>1 DEF DbType, FilesNumbered, TablesThere, LoadCounted, T!NoTable
  <2>3. TablesNumbered'
    <3> SUFFICES ASSUME NEW u \in Table, tables'[u] # T!NoTable PROVE \E n \in Nat : tables'[u] = 0..(n - 1)
      BY DEF TablesNumbered
    <3>1. CASE u = t
      <4>1. tables'[u] = 0..(0 - 1)
        BY <2>1, <3>1 DEF DbType
      <4> QED BY <4>1
    <3>2. CASE u # t
      BY <2>1, <3>2 DEF TablesNumbered, DbType
    <3> QED BY <3>1, <3>2
  <2>4. t \notin whole
    BY <2>1 DEF WholeKnown
  <2>5. WholeKnown' /\ WritesKnown'
    BY <2>1, <2>4 DEF WholeKnown, WritesKnown, DbType
  <2> QED BY <2>2, <2>3, <2>5
<1>7. ASSUME NEW t \in Table, T!mkdir(t) PROVE DbInv'
  <2>1. /\ t \in mkdirs /\ mkdirs' = mkdirs \ {t}
        /\ UNCHANGED <<tables, loading, reading, creates, unlinks, calls, errors, lost>>
    BY <1>7 DEF T!mkdir
  <2>2. CASE disk[t] = T!NoDirectory /\ disk' = [disk EXCEPT ![t] = {}] /\ whole' = whole \union {t}
    <3>1. DbType' /\ TablesNumbered' /\ FilesNumbered' /\ LoadCounted'
      BY <2>1, <2>2 DEF DbType, TablesNumbered, FilesNumbered, LoadCounted
    <3>2. WholeKnown' /\ TablesThere'
      BY <2>1, <2>2 DEF WholeKnown, TablesThere, DbType, T!NoDirectory
    <3>3. WritesKnown'
      BY <2>1, <2>2 DEF WritesKnown, DbType
    <3> QED BY <3>1, <3>2, <3>3
  <2>3. CASE UNCHANGED <<disk, whole>>
    BY <2>1, <2>3 DEF DbType, TablesNumbered, FilesNumbered, WholeKnown, WritesKnown, TablesThere, LoadCounted
  <2> QED BY <1>7, <2>2, <2>3 DEF T!mkdir
<1>8. ASSUME NEW t \in Table, T!insert(t) PROVE DbInv'
  <2> DEFINE n == T!calcIndex(t)
  <2>1. /\ tables[t] # T!NoTable
        /\ tables' = [tables EXCEPT ![t] = @ \union {n}] /\ creates' = creates \union {<<t, n>>}
        /\ UNCHANGED <<disk, whole, loading, reading, mkdirs, unlinks, calls, errors, lost>>
    BY <1>8 DEF T!insert
  <2>2. n \in Nat /\ tables[t] = 0..(n - 1) /\ tables'[t] = 0..((n + 1) - 1)
    BY <2>1, NextIndex DEF DbType
  <2> HIDE DEF n
  <2>3. tables'[t] # T!NoTable
    <3>1. n \in tables'[t]
      BY <2>2
    <3> QED BY <2>2, <3>1 DEF T!NoTable
  <2>4. DbType' /\ FilesNumbered' /\ LoadCounted' /\ TablesThere'
    BY <2>1, <2>2, <2>3 DEF DbType, FilesNumbered, LoadCounted, TablesThere
  <2>5. TablesNumbered'
    <3> SUFFICES ASSUME NEW u \in Table, tables'[u] # T!NoTable PROVE \E m \in Nat : tables'[u] = 0..(m - 1)
      BY DEF TablesNumbered
    <3>1. CASE u = t
      BY <2>2, <3>1
    <3>2. CASE u # t
      BY <2>1, <3>2 DEF TablesNumbered, DbType
    <3> QED BY <3>1, <3>2
  <2>6. t \in whole => n \notin disk[t]
    BY <2>2 DEF WholeKnown
  <2>7. WholeKnown' /\ WritesKnown'
    BY <2>1, <2>2, <2>3, <2>6 DEF WholeKnown, WritesKnown, DbType
  <2> QED BY <2>4, <2>5, <2>7
<1>9. ASSUME NEW w \in creates, T!writeFile(w) PROVE DbInv'
  <2> DEFINE t == w[1]
             i == w[2]
  <2>1. t \in Table /\ i \in Nat /\ w = <<t, i>>
    BY <1>9 DEF DbType
  <2>2. creates' = creates \ {w} /\ UNCHANGED <<tables, whole, loading, reading, mkdirs, unlinks, calls, errors>>
    BY <1>9 DEF T!writeFile
  <2>3. CASE UNCHANGED <<disk, lost>>
    BY <2>2, <2>3 DEF DbType, TablesNumbered, FilesNumbered, WholeKnown, WritesKnown, TablesThere, LoadCounted
  <2>4. CASE /\ disk[t] # T!NoDirectory /\ disk' = [disk EXCEPT ![t] = @ \union {i}]
             /\ lost' = IF i \in disk[t] THEN lost \union {t} ELSE lost
    <3> HIDE DEF t, i
    <3>1. DbType' /\ TablesNumbered' /\ FilesNumbered' /\ LoadCounted'
      BY <2>1, <2>2, <2>4 DEF DbType, TablesNumbered, FilesNumbered, LoadCounted
    <3>2. disk'[t] = disk[t] \union {i} /\ disk'[t] # T!NoDirectory
      BY <2>1, <2>4 DEF DbType, T!NoDirectory
    <3>3. TablesThere' /\ WritesKnown'
      BY <2>1, <2>2, <2>4, <3>2 DEF TablesThere, WritesKnown, DbType
    <3>4. WholeKnown'
      BY <2>1, <2>2, <2>4, <3>2, <1>9 DEF WholeKnown, WritesKnown, DbType
    <3> QED BY <3>1, <3>3, <3>4
  <2> QED BY <1>9, <2>3, <2>4 DEF T!writeFile
<1>10. ASSUME NEW t \in Table, NEW i \in tables[t], T!remove(t, i) PROVE DbInv'
  <2>1. i \in tables[t] \ T!NoTable /\ unlinks' = unlinks \union {<<t, i>>}
        /\ UNCHANGED <<disk, tables, whole, loading, reading, mkdirs, creates, calls, errors, lost>>
    BY <1>10 DEF T!remove
  <2>2. i \in Nat
    BY <2>1 DEF TablesNumbered, T!NoTable
  <2> QED
    BY <2>1, <2>2 DEF DbType, TablesNumbered, FilesNumbered, WholeKnown, WritesKnown, TablesThere, LoadCounted
<1>11. ASSUME NEW u \in unlinks, T!unlink(u) PROVE DbInv'
  <2> DEFINE t == u[1]
             i == u[2]
  <2>1. t \in Table /\ i \in Nat /\ u = <<t, i>>
    BY <1>11 DEF DbType
  <2>2. unlinks' = unlinks \ {u} /\ UNCHANGED <<tables, whole, loading, reading, mkdirs, creates, calls, errors, lost>>
    BY <1>11 DEF T!unlink
  <2>3. CASE UNCHANGED disk
    BY <2>2, <2>3 DEF DbType, TablesNumbered, FilesNumbered, WholeKnown, WritesKnown, TablesThere, LoadCounted
  <2>4. CASE disk' = [disk EXCEPT ![t] = @ \ {i}]
    <3> HIDE DEF t, i
    <3>1. DbType' /\ TablesNumbered' /\ LoadCounted'
      BY <2>1, <2>2, <2>4 DEF DbType, TablesNumbered, LoadCounted
    <3>2. disk'[t] = disk[t] \ {i} /\ \A v \in Table \ {t} : disk'[v] = disk[v]
      BY <2>1, <2>4 DEF DbType
    <3>3. \A v \in Table : disk'[v] \subseteq disk[v] /\ (disk'[v] = T!NoDirectory <=> disk[v] = T!NoDirectory)
      <4>1. disk[t] # T!NoDirectory => -1 \notin disk[t]
        BY <2>1 DEF FilesNumbered
      <4> QED BY <2>1, <3>2, <4>1 DEF T!NoDirectory
    <3>4. FilesNumbered' /\ TablesThere' /\ WritesKnown' /\ WholeKnown'
      BY <2>2, <3>3 DEF DbType, FilesNumbered, TablesThere, WritesKnown, WholeKnown
    <3> QED BY <3>1, <3>4
  <2> QED BY <1>11, <2>3, <2>4 DEF T!unlink
<1>12. CASE UNCHANGED T!vars
  BY <1>12 DEF T!vars, DbType, TablesNumbered, FilesNumbered, WholeKnown, WritesKnown, TablesThere, LoadCounted
<1> QED
  BY <1>1, <1>2, <1>3, <1>4, <1>5, <1>6, <1>7, <1>8, <1>9, <1>10, <1>11, <1>12 DEF T!Next

\* A step from such a state writes over nothing that the process should know.
LEMMA StepKeepsItems == DbInv /\ DbInv' /\ [T!Next]_(T!vars) => [T!ItemsKept]_(T!vars)
<1> SUFFICES ASSUME DbInv, DbInv', T!Next PROVE T!ItemsKept
  OBVIOUS
<1>1. \A t \in whole : disk[t] # T!NoDirectory /\ disk[t] \subseteq tables[t]
  BY DEF DbInv, WholeKnown
<1>2. lost' = lost \/ \E u \in Table \ whole : lost' = lost \union {u}
  <2>1. ASSUME NEW w \in creates, T!writeFile(w) PROVE <1>2
    <3>1. w[1] \in Table /\ w[2] \in Nat /\ w = <<w[1], w[2]>>
      BY DEF DbInv, DbType
    <3>2. w[1] \in whole => w[2] \notin disk[w[1]]
      BY <3>1 DEF DbInv, WholeKnown
    <3> QED BY <2>1, <3>1, <3>2 DEF T!writeFile
  <2>2. ASSUME NEW t \in Table, T!readItems(t) \/ T!readFails(t) \/ T!insertTable(t) \/ T!mkdir(t) \/ T!insert(t)
        PROVE  lost' = lost
    BY <2>2 DEF T!readItems, T!readFails, T!insertTable, T!mkdir, T!insert
  <2>3. CASE T!load \/ T!readTables \/ T!Restart
    BY <2>3 DEF T!load, T!readTables, T!Restart
  <2>4. ASSUME NEW t \in Table, NEW i \in tables[t], T!remove(t, i) PROVE lost' = lost
    BY <2>4 DEF T!remove
  <2>5. ASSUME NEW u \in unlinks, T!unlink(u) PROVE lost' = lost
    BY <2>5 DEF T!unlink
  <2> QED BY <2>1, <2>2, <2>3, <2>4, <2>5 DEF T!Next
<1>3. \A t \in whole : lost' \ lost # {t}
  BY <1>2
<1>4. calls' <= (IF errors' = 0 THEN 1 ELSE errors')
  BY DEF DbInv, LoadCounted, DbType
<1> QED
  BY <1>1, <1>3, <1>4 DEF T!ItemsKept

\* Through failed calls, crashes and restarts, no item is written over another
\* one in a table the process read or made (db.js:116-178).
THEOREM ItemsAreKept == Spec => NoItemLost
<1> DEFINE Inv == scene = "db" => DbInv
<1>1. Init => Inv
  BY DbInit DEF Init
<1>2. Inv /\ [Next]_clientVars => Inv' /\ [scene = "db" => T!ItemsKept]_clientVars
  <2> SUFFICES ASSUME Inv, [Next]_clientVars PROVE Inv' /\ [scene = "db" => T!ItemsKept]_clientVars
    OBVIOUS
  <2>1. scene' = scene
    BY DEF Next, clientVars
  <2>2. ASSUME scene = "db" PROVE [T!Next]_(T!vars)
    BY <2>2 DEF Next, clientVars, dbVars, T!vars
  <2>3. Inv'
    BY <2>1, <2>2, DbStep
  <2>4. ASSUME scene = "db" PROVE [T!ItemsKept]_(T!vars)
    BY <2>1, <2>2, <2>3, <2>4, StepKeepsItems
  <2>5. scene = "db" /\ UNCHANGED T!vars => UNCHANGED clientVars
    BY DEF Next, OthersKept, clientVars, dbVars, T!vars
  <2> QED
    BY <2>3, <2>4, <2>5
<1> QED
  BY <1>1, <1>2, PTL DEF Spec, NoItemLost

-----------------------------------------------------------------------------
(* The modules of the cache.                                               *)

ModuleType ==
  /\ children \in [File -> Seq(File)] /\ parent \in [File -> File \cup {None}]
  /\ modules \subseteq File /\ Main \in modules
  /\ exports \in [File -> {"null", "initial", "replaced"}]
  /\ evaluating \in Seq(File) /\ throwing \in BOOLEAN
  /\ runs \in [File -> Nat] /\ failed \subseteq File

\* Each module is the child of its parent, there and once.
ChildrenOnce(cached, above, below) ==
  /\ \A p \in File : \A i \in 1..Len(below[p]) :
       below[p][i] \in cached \ {Main} /\ above[below[p][i]] = p
  /\ \A p \in File : \A i, j \in 1..Len(below[p]) : below[p][i] = below[p][j] => i = j
  /\ \A f \in cached \ {Main} : above[f] \in File /\ \E i \in 1..Len(below[above[f]]) : below[above[f]][i] = f

\* Code runs once, and then has exports.
RunsOnce ==
  /\ \A f \in File : runs[f] = IF exports[f] = "null" THEN 0 ELSE 1
  /\ \A i \in 1..Len(evaluating) : exports[evaluating[i]] # "null"
  /\ \A i, j \in 1..Len(evaluating) : evaluating[i] = evaluating[j] => i = j

Runs(f) == \E i \in 1..Len(evaluating) : evaluating[i] = f

\* What was given is final, or was given early.
GivenRight ==
  /\ \A g \in got : /\ g.of \in File /\ exports[g.of] # "null"
                    /\ g.early \/ (g.which = exports[g.of] /\ ~Runs(g.of))
  /\ \A f \in File : runs[f] # 0 => Runs(f) \/ f \in failed \/ \E g \in got : g.of = f /\ ~g.early

ModuleInv ==
  /\ MO!ModuleAssumption
  /\ ModuleType /\ ChildrenOnce(modules, parent, children) /\ RunsOnce /\ GivenRight

\* The module has its own name of what is finite.
LEMMA ModulesCounted ==
  \A S : /\ MO!IsFiniteSet(S) <=> IsFiniteSet(S)
         /\ MO!Cardinality(S) = Cardinality(S)
  BY DEF MO!IsFiniteSet, IsFiniteSet, MO!Cardinality, Cardinality

LEMMA ModuleInit == MO!ModuleAssumption /\ MO!Init => ModuleInv
<1> SUFFICES ASSUME MO!ModuleAssumption, MO!Init PROVE ModuleInv
  OBVIOUS
<1>1. /\ Main \in File /\ modules = {Main} /\ parent = [f \in File |-> None] /\ children = [f \in File |-> <<>>]
      /\ exports = [f \in File |-> "null"] /\ evaluating = <<>> /\ throwing = FALSE
      /\ runs = [f \in File |-> 0] /\ failed = {} /\ got = {}
  BY DEF MO!Init, MO!ModuleAssumption
<1>2. ModuleType
  <2>1. <<>> \in Seq(File)
    OBVIOUS
  <2>2. children \in [File -> Seq(File)] /\ evaluating \in Seq(File)
    BY <1>1, <2>1
  <2> QED BY <1>1, <2>2 DEF ModuleType
<1>3. ChildrenOnce(modules, parent, children) /\ RunsOnce /\ GivenRight
  BY <1>1 DEF ChildrenOnce, RunsOnce, GivenRight, Runs
<1> QED
  BY <1>2, <1>3 DEF ModuleInv

\* A module that is not known becomes the last child of the one that asks.
LEMMA ChildCreated ==
  ASSUME ModuleInv, NEW from \in File, NEW f \in File, MO!createChild(from, f)
  PROVE  /\ children' \in [File -> Seq(File)] /\ parent' \in [File -> File \cup {None}]
         /\ modules' \subseteq File /\ Main \in modules'
         /\ ChildrenOnce(modules', parent', children')
<1>1. ModuleType /\ ChildrenOnce(modules, parent, children)
  BY DEF ModuleInv
<1>2. CASE f \in modules
  BY <1>1, <1>2 DEF MO!createChild, MO!isCached, ModuleType, ChildrenOnce
<1>3. CASE f \notin modules
  <2>1. /\ modules' = modules \cup {f} /\ parent' = [parent EXCEPT ![f] = from]
        /\ children' = [children EXCEPT ![from] = Append(@, f)]
    BY <1>3 DEF MO!createChild, MO!isCached
  <2>2. f # Main
    BY <1>1, <1>3 DEF ModuleType
  <2>3. /\ children' \in [File -> Seq(File)] /\ parent' \in [File -> File \cup {None}]
        /\ modules' \subseteq File /\ Main \in modules'
    BY <1>1, <2>1 DEF ModuleType
  <2>4. /\ \A p \in File : p # from => children'[p] = children[p]
        /\ \A g \in File : g # f => parent'[g] = parent[g]
        /\ parent'[f] = from
        /\ Len(children'[from]) = Len(children[from]) + 1
        /\ \A i \in 1..Len(children[from]) : children'[from][i] = children[from][i]
        /\ children'[from][Len(children[from]) + 1] = f
        /\ \A p \in File : Len(children[p]) \in Nat /\ \A i \in 1..Len(children[p]) : children[p][i] \in File
    BY <1>1, <2>1 DEF ModuleType
  <2>5. \A p \in File : \A i \in 1..Len(children[p]) : children[p][i] # f
    BY <1>1, <1>3 DEF ChildrenOnce
  <2> DEFINE n == Len(children[from]) + 1
  <2>6. ASSUME NEW p \in File, NEW i \in 1..Len(children'[p])
        PROVE  children'[p][i] \in modules' \ {Main} /\ parent'[children'[p][i]] = p
    <3>1. CASE p = from /\ i = n
      BY <2>1, <2>2, <2>4, <3>1
    <3>2. CASE ~(p = from /\ i = n)
      <4>1. i \in 1..Len(children[p]) /\ children'[p][i] = children[p][i]
        BY <2>4, <3>2
      <4> QED BY <1>1, <2>1, <2>4, <2>5, <4>1 DEF ChildrenOnce
    <3> QED BY <3>1, <3>2
  <2>7. ASSUME NEW p \in File, NEW i \in 1..Len(children'[p]), NEW j \in 1..Len(children'[p]),
               children'[p][i] = children'[p][j]
        PROVE  i = j
    <3>1. ASSUME NEW k \in 1..Len(children'[p]), ~(p = from /\ k = n)
          PROVE  k \in 1..Len(children[p]) /\ children'[p][k] = children[p][k]
      BY <2>4, <3>1
    <3>2. CASE p = from /\ (i = n \/ j = n)
      BY <2>4, <2>5, <2>7, <3>1, <3>2
    <3>3. CASE ~(p = from /\ (i = n \/ j = n))
      BY <1>1, <2>7, <3>1, <3>3 DEF ChildrenOnce
    <3> QED BY <3>2, <3>3
  <2>8. ASSUME NEW g \in modules' \ {Main}
        PROVE  parent'[g] \in File /\ \E i \in 1..Len(children'[parent'[g]]) : children'[parent'[g]][i] = g
    <3>1. CASE g = f
      <4>1. n \in 1..Len(children'[from])
        BY <2>4
      <4> QED BY <2>4, <3>1, <4>1
    <3>2. CASE g # f
      <4>1. g \in modules \ {Main} /\ g \in File /\ parent'[g] = parent[g]
        BY <1>1, <2>1, <2>4, <3>2 DEF ModuleType
      <4>2. PICK i \in 1..Len(children[parent[g]]) : children[parent[g]][i] = g
        BY <1>1, <4>1 DEF ChildrenOnce
      <4>3. parent[g] \in File
        BY <1>1, <4>1 DEF ChildrenOnce
      <4>4. i \in 1..Len(children'[parent[g]]) /\ children'[parent[g]][i] = g
        BY <2>4, <4>2, <4>3
      <4> QED BY <4>1, <4>3, <4>4
    <3> QED BY <3>1, <3>2
  <2> QED
    BY <2>3, <2>6, <2>7, <2>8 DEF ChildrenOnce
<1> QED
  BY <1>2, <1>3

LEMMA ModuleStep == ModuleInv /\ [MO!Next]_(MO!vars) => ModuleInv'
<1> SUFFICES ASSUME ModuleInv, [MO!Next]_(MO!vars) PROVE ModuleInv'
  OBVIOUS
<1>1. /\ MO!ModuleAssumption /\ ModuleType /\ ChildrenOnce(modules, parent, children) /\ RunsOnce /\ GivenRight
      /\ Len(evaluating) \in Nat /\ \A i \in 1..Len(evaluating) : evaluating[i] \in File
  BY DEF ModuleInv, ModuleType
<1>2. /\ MO!Running \in File
      /\ evaluating # <<>> => Len(evaluating) >= 1 /\ MO!Running = evaluating[1]
  BY <1>1 DEF MO!Running, ModuleType, MO!ModuleAssumption
<1>3. \A f \in File : MO!Contains(evaluating, f) <=> Runs(f)
  BY DEF MO!Contains, Runs
<1>4. ASSUME NEW f \in File, MO!requireKnown(f) PROVE ModuleInv'
  <2>1. /\ got' = got \cup {[to |-> MO!Running, of |-> f, which |-> exports[f], early |-> MO!Contains(evaluating, f)]}
        /\ exports[f] # "null" /\ MO!createChild(MO!Running, f)
        /\ UNCHANGED <<source, exports, evaluating, throwing, underway, runs, failed>>
    BY <1>4 DEF MO!requireKnown, MO!hasExports, MO!Give
  <2>2. ModuleType' /\ ChildrenOnce(modules', parent', children')
    BY <1>1, <1>2, <2>1, ChildCreated DEF ModuleType
  <2>3. RunsOnce'
    BY <1>1, <2>1 DEF RunsOnce
  <2>4. GivenRight'
    BY <1>1, <1>3, <2>1 DEF GivenRight, Runs
  <2> QED BY <1>1, <2>2, <2>3, <2>4 DEF ModuleInv
<1>5. ASSUME NEW f \in File, MO!requireUnresolved(f) PROVE ModuleInv'
  BY <1>1, <1>5 DEF ModuleInv, MO!requireUnresolved, ModuleType, ChildrenOnce, RunsOnce, GivenRight, Runs
<1>6. ASSUME NEW f \in File, MO!requireBroken(f) PROVE ModuleInv'
  <2>1. /\ MO!createChild(MO!Running, f) /\ throwing' = TRUE
        /\ UNCHANGED <<exports, evaluating, underway, runs, failed, got>>
    BY <1>6 DEF MO!requireBroken
  <2>2. ModuleType' /\ ChildrenOnce(modules', parent', children')
    BY <1>1, <1>2, <2>1, ChildCreated DEF ModuleType
  <2>3. RunsOnce' /\ GivenRight'
    BY <1>1, <2>1 DEF RunsOnce, GivenRight, Runs
  <2> QED BY <1>1, <2>2, <2>3 DEF ModuleInv
<1>7. ASSUME NEW f \in File, MO!compile(f) PROVE ModuleInv'
  <2>1. /\ exports[f] = "null" /\ MO!createChild(MO!Running, f)
        /\ exports' = [exports EXCEPT ![f] = "initial"]
        /\ evaluating' = <<f>> \o evaluating
        /\ runs' = [runs EXCEPT ![f] = @ + 1]
        /\ UNCHANGED <<throwing, underway, failed, got>>
    BY <1>7 DEF MO!compile, MO!hasExports
  <2>2. ModuleType' /\ ChildrenOnce(modules', parent', children')
    <3>1. /\ children' \in [File -> Seq(File)] /\ parent' \in [File -> File \cup {None}]
          /\ modules' \subseteq File /\ Main \in modules' /\ ChildrenOnce(modules', parent', children')
      BY <1>2, <2>1, ChildCreated
    <3>2. /\ exports' \in [File -> {"null", "initial", "replaced"}] /\ evaluating' \in Seq(File)
          /\ runs' \in [File -> Nat]
      BY <1>1, <2>1 DEF ModuleType
    <3> QED BY <1>1, <2>1, <3>1, <3>2 DEF ModuleType
  <2>3. /\ Len(evaluating') = Len(evaluating) + 1 /\ evaluating'[1] = f
        /\ \A i \in 2..Len(evaluating') : i - 1 \in 1..Len(evaluating) /\ evaluating'[i] = evaluating[i - 1]
        /\ \A i \in 1..Len(evaluating) : evaluating'[i + 1] = evaluating[i]
    BY <1>1, <2>1 DEF ModuleType
  <2>4. \A i \in 1..Len(evaluating) : evaluating[i] # f
    BY <1>1, <2>1 DEF RunsOnce
  <2>5. RunsOnce'
    <3>1. \A g \in File : runs'[g] = IF exports'[g] = "null" THEN 0 ELSE 1
      BY <1>1, <2>1 DEF RunsOnce, ModuleType
    <3>2. \A i \in 1..Len(evaluating') : exports'[evaluating'[i]] # "null"
      BY <1>1, <2>1, <2>3 DEF RunsOnce, ModuleType
    <3>3. ASSUME NEW i \in 1..Len(evaluating'), NEW j \in 1..Len(evaluating'), evaluating'[i] = evaluating'[j]
          PROVE  i = j
      <4>1. i = 1 \/ i \in 2..Len(evaluating')
        OBVIOUS
      <4>2. j = 1 \/ j \in 2..Len(evaluating')
        OBVIOUS
      <4>3. CASE i = 1 \/ j = 1
        BY <2>3, <2>4, <3>3, <4>1, <4>2, <4>3
      <4>4. CASE i \in 2..Len(evaluating') /\ j \in 2..Len(evaluating')
        <5>1. i - 1 \in 1..Len(evaluating) /\ j - 1 \in 1..Len(evaluating) /\ evaluating[i - 1] = evaluating[j - 1]
          BY <2>3, <3>3, <4>4
        <5>2. i - 1 = j - 1
          BY <1>1, <5>1 DEF RunsOnce
        <5> QED BY <1>1, <2>3, <5>2
      <4> QED BY <4>1, <4>2, <4>3, <4>4
    <3> QED BY <3>1, <3>2, <3>3 DEF RunsOnce
  <2>6. GivenRight'
    <3>1. \A g \in File : Runs(g)' <=> Runs(g) \/ g = f
      <4>1. 1 \in 1..Len(evaluating')
        BY <1>1, <2>3
      <4>2. \A i \in 1..Len(evaluating') : i = 1 \/ i \in 2..Len(evaluating')
        OBVIOUS
      <4>3. \A i \in 1..Len(evaluating) : i + 1 \in 1..Len(evaluating') /\ evaluating'[i + 1] = evaluating[i]
        BY <1>1, <2>3
      <4>4. \A i \in 1..Len(evaluating') : evaluating'[i] = f \/ \E j \in 1..Len(evaluating) : evaluating'[i] = evaluating[j]
        BY <2>3, <4>2
      <4>5. (\E i \in 1..Len(evaluating') : evaluating'[i] = f)
        BY <2>3, <4>1
      <4> SUFFICES ASSUME NEW g \in File
                   PROVE  (\E i \in 1..Len(evaluating') : evaluating'[i] = g)
                          <=> (\E i \in 1..Len(evaluating) : evaluating[i] = g) \/ g = f
        BY DEF Runs
      <4>6. ASSUME NEW i \in 1..Len(evaluating), evaluating[i] = g PROVE \E j \in 1..Len(evaluating') : evaluating'[j] = g
        BY <4>3, <4>6
      <4> QED BY <4>4, <4>5, <4>6
    <3>2. \A g \in got : g.of # f
      BY <1>1, <2>1 DEF GivenRight
    <3>3. ASSUME NEW g \in got
          PROVE  g.of \in File /\ exports'[g.of] # "null" /\ (g.early \/ (g.which = exports'[g.of] /\ ~Runs(g.of)'))
      BY <1>1, <2>1, <3>1, <3>2 DEF GivenRight, ModuleType
    <3>4. ASSUME NEW g \in File, runs'[g] # 0
          PROVE  Runs(g)' \/ g \in failed' \/ \E x \in got' : x.of = g /\ ~x.early
      <4>1. g # f => runs'[g] = runs[g]
        BY <1>1, <2>1 DEF ModuleType
      <4> QED BY <1>1, <2>1, <3>1, <3>4, <4>1 DEF GivenRight
    <3> QED BY <2>1, <3>3, <3>4 DEF GivenRight
  <2> QED BY <1>1, <2>2, <2>5, <2>6 DEF ModuleInv
<1>8. CASE MO!ReplaceExports
  <2>1. /\ evaluating # <<>> /\ exports[MO!Running] = "initial"
        /\ exports' = [exports EXCEPT ![MO!Running] = "replaced"]
        /\ UNCHANGED <<parent, children, modules, evaluating, throwing, underway, runs, failed, got>>
    BY <1>8 DEF MO!ReplaceExports
  <2>2. ModuleType' /\ ChildrenOnce(modules', parent', children') /\ RunsOnce'
    BY <1>1, <1>2, <2>1 DEF ModuleType, RunsOnce
  <2>3. Runs(MO!Running)
    BY <1>1, <1>2, <2>1 DEF Runs
  <2>4. GivenRight'
    BY <1>1, <1>2, <2>1, <2>3 DEF GivenRight, Runs, ModuleType
  <2> QED BY <1>1, <2>2, <2>4 DEF ModuleInv
<1>9. CASE MO!Throw \/ MO!Catch
  <2>1. throwing' \in BOOLEAN /\ UNCHANGED <<parent, children, modules, exports, evaluating, runs, failed, got>>
    BY <1>9 DEF MO!Throw, MO!Catch
  <2> QED BY <1>1, <2>1 DEF ModuleInv, ModuleType, ChildrenOnce, RunsOnce, GivenRight, Runs
<1>10. CASE MO!Leave
  <2>0. PICK f \in File : f = MO!Running
    BY <1>2
  <2>1. /\ evaluating # <<>> /\ evaluating' = Tail(evaluating) /\ f = evaluating[1] /\ f \in File
        /\ failed' = IF throwing THEN failed \cup {f} ELSE failed
        /\ \E to : got' = IF throwing THEN got
                          ELSE got \cup {[to |-> to, of |-> f, which |-> exports[f], early |-> MO!Contains(evaluating', f)]}
        /\ UNCHANGED <<parent, children, modules, exports, throwing, underway, runs>>
    BY <1>2, <1>10, <2>0 DEF MO!Leave
  <2>2. /\ Len(evaluating') = Len(evaluating) - 1 /\ evaluating' \in Seq(File)
        /\ \A i \in 1..Len(evaluating') : i + 1 \in 2..Len(evaluating) /\ evaluating'[i] = evaluating[i + 1]
        /\ \A i \in 2..Len(evaluating) : i - 1 \in 1..Len(evaluating') /\ evaluating'[i - 1] = evaluating[i]
    BY <1>1, <2>1 DEF ModuleType
  <2>3. ModuleType' /\ ChildrenOnce(modules', parent', children')
    BY <1>1, <2>1, <2>2 DEF ModuleType
  <2>4. RunsOnce'
    <3>1. \A i \in 1..Len(evaluating') : exports'[evaluating'[i]] # "null"
      BY <1>1, <2>1, <2>2 DEF RunsOnce
    <3>2. ASSUME NEW i \in 1..Len(evaluating'), NEW j \in 1..Len(evaluating'), evaluating'[i] = evaluating'[j]
          PROVE  i = j
      <4>1. i + 1 \in 1..Len(evaluating) /\ j + 1 \in 1..Len(evaluating) /\ evaluating[i + 1] = evaluating[j + 1]
        BY <1>1, <2>2, <3>2
      <4>2. i + 1 = j + 1
        BY <1>1, <4>1 DEF RunsOnce
      <4> QED BY <2>2, <4>2
    <3> QED BY <1>1, <2>1, <3>1, <3>2 DEF RunsOnce
  <2>5. ~Runs(f)'
    <3> SUFFICES ASSUME NEW i \in 1..Len(evaluating'), evaluating'[i] = f PROVE FALSE
      BY DEF Runs
    <3>1. i + 1 \in 1..Len(evaluating) /\ 1 \in 1..Len(evaluating) /\ evaluating[i + 1] = evaluating[1] /\ i + 1 # 1
      BY <1>1, <2>1, <2>2
    <3> QED BY <1>1, <3>1 DEF RunsOnce
  <2>6. \A g \in File : g # f => (Runs(g)' <=> Runs(g))
    <3> SUFFICES ASSUME NEW g \in File, g # f PROVE Runs(g)' <=> Runs(g)
      OBVIOUS
    <3>1. ASSUME NEW i \in 1..Len(evaluating), evaluating[i] = g PROVE Runs(g)'
      <4>1. i \in 2..Len(evaluating)
        BY <1>1, <2>1, <3>1
      <4> QED BY <2>2, <3>1, <4>1 DEF Runs
    <3>2. ASSUME NEW i \in 1..Len(evaluating'), evaluating'[i] = g PROVE Runs(g)
      <4>1. i + 1 \in 1..Len(evaluating) /\ evaluating[i + 1] = g
        BY <1>1, <2>2, <3>2
      <4> QED BY <4>1 DEF Runs
    <3> QED BY <3>1, <3>2 DEF Runs
  <2>7. ~MO!Contains(evaluating', f)
    BY <2>5 DEF MO!Contains, Runs
  <2>8. exports[f] # "null"
    BY <1>1, <2>1 DEF RunsOnce
  <2>9. GivenRight'
    <3>1. ASSUME NEW g \in got
          PROVE  g.of \in File /\ exports'[g.of] # "null" /\ (g.early \/ (g.which = exports'[g.of] /\ ~Runs(g.of)'))
      BY <1>1, <2>1, <2>5, <2>6 DEF GivenRight
    <3>2. CASE throwing
      <4>1. got' = got /\ f \in failed' /\ failed \subseteq failed'
        BY <2>1, <3>2
      <4>2. ASSUME NEW g \in File, runs'[g] # 0
            PROVE  Runs(g)' \/ g \in failed' \/ \E x \in got' : x.of = g /\ ~x.early
        BY <1>1, <2>1, <2>6, <4>1, <4>2 DEF GivenRight
      <4> QED BY <3>1, <4>1, <4>2 DEF GivenRight
    <3>3. CASE ~throwing
      <4>1. PICK to : got' = got \cup {[to |-> to, of |-> f, which |-> exports[f], early |-> MO!Contains(evaluating', f)]}
        BY <2>1, <3>3
      <4> DEFINE y == [to |-> to, of |-> f, which |-> exports[f], early |-> MO!Contains(evaluating', f)]
      <4>2. y.of = f /\ y.which = exports'[f] /\ ~y.early /\ got' = got \cup {y} /\ failed' = failed
        BY <2>1, <2>7, <3>3, <4>1
      <4> HIDE DEF y
      <4>3. ASSUME NEW g \in File, runs'[g] # 0
            PROVE  Runs(g)' \/ g \in failed' \/ \E x \in got' : x.of = g /\ ~x.early
        BY <1>1, <2>1, <2>6, <4>2, <4>3 DEF GivenRight
      <4> QED BY <2>1, <2>5, <2>8, <3>1, <4>2, <4>3 DEF GivenRight
    <3> QED BY <3>2, <3>3
  <2> QED BY <1>1, <2>3, <2>4, <2>9 DEF ModuleInv
<1>11. ASSUME NEW f \in File, MO!load(f) \/ MO!onreadystatechange(f) PROVE ModuleInv'
  <2>1. UNCHANGED <<parent, children, modules, exports, evaluating, throwing, runs, failed, got>>
    BY <1>11 DEF MO!load, MO!onreadystatechange
  <2> QED BY <1>1, <2>1 DEF ModuleInv, ModuleType, ChildrenOnce, RunsOnce, GivenRight, Runs
<1>12. CASE UNCHANGED MO!vars
  <2>1. UNCHANGED <<parent, children, modules, exports, evaluating, throwing, runs, failed, got>>
    BY <1>12 DEF MO!vars
  <2> QED BY <1>1, <2>1 DEF ModuleInv, ModuleType, ChildrenOnce, RunsOnce, GivenRight, Runs
<1> QED
  BY <1>4, <1>5, <1>6, <1>7, <1>8, <1>9, <1>10, <1>11, <1>12 DEF MO!Next

\* The places of a child are one.
LEMMA ModuleInvImplies == ModuleInv => MO!OneModulePerFile /\ MO!StaleOnlyInCycles
<1> SUFFICES ASSUME ModuleInv PROVE MO!OneModulePerFile /\ MO!StaleOnlyInCycles
  OBVIOUS
<1>1. /\ MO!ModuleAssumption /\ ModuleType /\ ChildrenOnce(modules, parent, children) /\ RunsOnce /\ GivenRight
  BY DEF ModuleInv
<1>2. ASSUME NEW p \in File PROVE Len(children[p]) \in Nat /\ Len(children[p]) <= Cardinality(File)
  <2>0. PICK c \in Seq(File) : c = children[p]
    BY <1>1 DEF ModuleType
  <2>1. Len(c) \in Nat /\ c \in [1..Len(c) -> File] /\ DOMAIN c = 1..Len(c)
    BY <2>0
  <2>2. \A i, j \in 1..Len(c) : c[i] = c[j] => i = j
    BY <1>1, <2>0 DEF ChildrenOnce
  <2>3. c \in Injection(1..Len(c), File)
    BY <2>1, <2>2 DEF Injection, IsInjective
  <2>4. Cardinality(1..Len(c)) <= Cardinality(File)
    <3>1. IsFiniteSet(File)
      BY <1>1, ModulesCounted DEF MO!ModuleAssumption
    <3> QED BY <2>3, <3>1, FS_Injection
  <2>5. Cardinality(1..Len(c)) = Len(c)
    BY <2>1, FS_Interval
  <2> QED BY <2>0, <2>1, <2>4, <2>5
<1>3. Cardinality(File) \in Nat
  <2>1. IsFiniteSet(File)
    BY <1>1, ModulesCounted DEF MO!ModuleAssumption
  <2> QED BY <2>1, FS_CardinalityType
<1>4. ASSUME NEW f \in File
      PROVE  /\ runs[f] <= 1
             /\ Cardinality({at \in File \X (1..Cardinality(File)) :
                               at[2] <= Len(children[at[1]]) /\ children[at[1]][at[2]] = f})
                  = IF f \in modules \ {Main} THEN 1 ELSE 0
             /\ f \in modules \ {Main} => MO!Contains(children[parent[f]], f)
  <2> DEFINE P == {at \in File \X (1..Cardinality(File)) :
                   at[2] <= Len(children[at[1]]) /\ children[at[1]][at[2]] = f}
  <2>1. CASE f \in modules \ {Main}
    <3>1. PICK i \in 1..Len(children[parent[f]]) : children[parent[f]][i] = f
      BY <1>1, <2>1 DEF ChildrenOnce
    <3>2. parent[f] \in File
      BY <1>1, <2>1 DEF ChildrenOnce
    <3>3. i \in 1..Cardinality(File) /\ i <= Len(children[parent[f]])
      BY <1>2, <1>3, <3>1, <3>2
    <3>4. <<parent[f], i>> \in P
      BY <3>1, <3>2, <3>3
    <3>5. ASSUME NEW x \in P PROVE x = <<parent[f], i>>
      <4>1. PICK p \in File, j \in 1..Cardinality(File) : x = <<p, j>> /\ j <= Len(children[p]) /\ children[p][j] = f
        BY <3>5
      <4>2. j \in 1..Len(children[p])
        BY <1>2, <1>3, <4>1
      <4>3. p = parent[f]
        BY <1>1, <4>1, <4>2 DEF ChildrenOnce
      <4>4. j = i
        BY <1>1, <3>1, <4>1, <4>2, <4>3 DEF ChildrenOnce
      <4> QED BY <4>1, <4>3, <4>4
    <3>6. P = {<<parent[f], i>>}
      <4> HIDE DEF P
      <4> QED BY <3>4, <3>5
    <3>7. Cardinality(P) = 1
      <4> HIDE DEF P
      <4> QED BY <3>6, FS_Singleton
    <3> QED BY <1>1, <2>1, <3>1, <3>7 DEF MO!Contains, RunsOnce
  <2>2. CASE f \notin modules \ {Main}
    <3>1. ASSUME NEW x \in P PROVE FALSE
      <4>1. PICK p \in File, j \in 1..Cardinality(File) : x = <<p, j>> /\ j <= Len(children[p]) /\ children[p][j] = f
        BY <3>1
      <4>2. j \in 1..Len(children[p])
        BY <1>2, <1>3, <4>1
      <4> QED BY <1>1, <2>2, <4>1, <4>2 DEF ChildrenOnce
    <3>2. Cardinality(P) = 0
      <4> HIDE DEF P
      <4>1. P = {}
        BY <3>1
      <4> QED BY <4>1, FS_EmptySet
    <3> QED BY <1>1, <2>2, <3>2 DEF RunsOnce
  <2> QED BY <2>1, <2>2
<1>5. MO!OneModulePerFile
  BY <1>4, ModulesCounted DEF MO!OneModulePerFile
<1>6. MO!StaleOnlyInCycles
  <2>1. \A f \in File : MO!Contains(evaluating, f) <=> Runs(f)
    BY DEF MO!Contains, Runs
  <2> QED BY <1>1, <2>1 DEF MO!StaleOnlyInCycles, GivenRight
<1> QED
  BY <1>5, <1>6

-----------------------------------------------------------------------------
(* The requires and their listeners.                                       *)

FrameSet == [kind : {"resolve", "notify", "callback", "script"}, of : Nat \cup Mod, n : Nat]

\* The calls in progress; a list is resolved once.
Frames(s) == {s[k] : k \in 1..Len(s)}
Resolving(h, r) == h.kind = "resolve" /\ h.of = r
Alone(s) ==
  \A j, k \in 1..Len(s) : s[j].kind = "resolve" /\ s[k].kind = "resolve" /\ s[j].of = s[k].of => j = k

RequireType ==
  /\ provided \subseteq Mod /\ thrown \in BOOLEAN
  /\ dependencies \in Seq(Seq(Mod))
  /\ counted \in Seq(Nat) /\ called \in Seq(Nat) /\ resolved \in Seq(BOOLEAN)
  /\ Len(counted) = Len(dependencies) /\ Len(called) = Len(dependencies) /\ Len(resolved) = Len(dependencies)
  /\ listeners \in [Mod -> Seq(1..Len(dependencies))]
  /\ stack \in Seq(FrameSet)

FramesRight(F, lists, given) ==
  /\ \A h \in F : h.kind = "resolve" => h.of \in 1..Len(lists) /\ h.n \in 1..(Len(lists[h.of]) + 1)
  /\ \A h \in F : h.kind = "notify" => h.of \in given

\* Who waits for a module that is there is in the turns that are left.
Cleared(F, queues, given) ==
  \A m \in given :
    queues[m] = <<>> \/ \E h \in F : h.kind = "notify" /\ h.of = m /\ h.n >= Len(queues[m])

\* Of the first p modules of its list, r was told those in done; of the other
\* ones it waits for, each with a listener of its own.
InTurn(queues, given, list, r, p, done, w) ==
  /\ \A i \in done : list[i] \in given
  /\ \A i \in (1..p) \ done : w[i] \in 1..Len(queues[list[i]]) /\ queues[list[i]][w[i]] = r
  /\ \A i, j \in (1..p) \ done : list[i] = list[j] /\ w[i] = w[j] => i = j
  /\ \A m \in Mod : \A j \in 1..Len(queues[m]) :
       queues[m][j] = r => \E i \in (1..p) \ done : list[i] = m /\ w[i] = j
Served(queues, given, list, c, r, p) ==
  \E done \in SUBSET (1..p) : \E w \in [1..p -> Nat] :
    c = Cardinality(done) /\ InTurn(queues, given, list, r, p, done, w)

Awaits(F, r, p, list, over) ==
  /\ \A h \in F : Resolving(h, r) => h.n = p + 1
  /\ over \/ p = Len(list) \/ \E h \in F : Resolving(h, r)

Listening(F, queues, given, list, c, r, over) ==
  \E p \in 0..Len(list) : Served(queues, given, list, c, r, p) /\ Awaits(F, r, p, list, over)

CalledRight(list, c, n) == n = IF c = Len(list) /\ list # <<>> THEN 1 ELSE 0

RequireInv ==
  /\ RQ!RequireAssumption
  /\ RequireType /\ Alone(stack)
  /\ FramesRight(Frames(stack), dependencies, provided)
  /\ thrown \/ Cleared(Frames(stack), listeners, provided)
  /\ \A r \in 1..Len(dependencies) :
       /\ Listening(Frames(stack), listeners, provided, dependencies[r], counted[r], r, thrown)
       /\ CalledRight(dependencies[r], counted[r], called[r])

\* A call more, a call less, and the calls an exception leaves.
LEMMA PushFrame ==
  ASSUME NEW s \in Seq(FrameSet), NEW f \in FrameSet, NEW t, t = <<f>> \o s
  PROVE  /\ t \in Seq(FrameSet) /\ Frames(t) = {f} \cup Frames(s)
         /\ Alone(s) /\ (f.kind = "resolve" => \A h \in Frames(s) : ~Resolving(h, f.of)) => Alone(t)
<1>1. Len(s) \in Nat
  OBVIOUS
<1>2. /\ t \in Seq(FrameSet) /\ Len(t) = Len(s) + 1 /\ t[1] = f
      /\ \A k \in 1..Len(s) : t[k + 1] = s[k]
  OBVIOUS
<1>3. \A k \in 1..Len(t) : k = 1 \/ (k - 1 \in 1..Len(s) /\ t[k] = s[k - 1])
  <2> SUFFICES ASSUME NEW k \in 1..Len(t), k # 1 PROVE k - 1 \in 1..Len(s) /\ t[k] = s[k - 1]
    OBVIOUS
  <2>1. k - 1 \in 1..Len(s) /\ (k - 1) + 1 = k
    BY <1>1, <1>2
  <2> QED BY <1>2, <2>1
<1>4. Frames(t) = {f} \cup Frames(s)
  <2>1. \A k \in 1..Len(s) : k + 1 \in 1..Len(t)
    BY <1>1, <1>2
  <2>2. 1 \in 1..Len(t)
    BY <1>1, <1>2
  <2> QED BY <1>2, <1>3, <2>1, <2>2 DEF Frames
<1>5. ASSUME Alone(s), f.kind = "resolve" => \A h \in Frames(s) : ~Resolving(h, f.of) PROVE Alone(t)
  <2>1. \A k \in 1..Len(s) : s[k] \in Frames(s)
    BY DEF Frames
  <2> SUFFICES ASSUME NEW j \in 1..Len(t), NEW k \in 1..Len(t),
                      t[j].kind = "resolve", t[k].kind = "resolve", t[j].of = t[k].of
               PROVE  j = k
    BY DEF Alone
  <2>2. CASE j = 1 \/ k = 1
    BY <1>2, <1>3, <1>5, <2>1, <2>2 DEF Resolving
  <2>3. CASE j # 1 /\ k # 1
    <3>1. /\ j - 1 \in 1..Len(s) /\ t[j] = s[j - 1]
          /\ k - 1 \in 1..Len(s) /\ t[k] = s[k - 1]
      BY <1>3, <2>3
    <3>2. j - 1 = k - 1
      BY <1>5, <3>1 DEF Alone
    <3> QED BY <3>2
  <2> QED BY <2>2, <2>3
<1> QED
  BY <1>2, <1>4, <1>5

LEMMA LessFrames ==
  ASSUME NEW s \in Seq(FrameSet), NEW k \in 1..(Len(s) + 1), NEW t, t = SubSeq(s, k, Len(s))
  PROVE  /\ t \in Seq(FrameSet) /\ Frames(t) \subseteq Frames(s)
         /\ Alone(s) => Alone(t)
<1>1. Len(s) \in Nat
  OBVIOUS
<1>2. /\ t \in Seq(FrameSet) /\ Len(t) = Len(s) - k + 1
      /\ \A i \in 1..Len(t) : k + i - 1 \in 1..Len(s) /\ t[i] = s[k + i - 1]
  OBVIOUS
<1>3. Frames(t) \subseteq Frames(s)
  BY <1>2 DEF Frames
<1>4. ASSUME Alone(s) PROVE Alone(t)
  <2> SUFFICES ASSUME NEW i \in 1..Len(t), NEW j \in 1..Len(t),
                      t[i].kind = "resolve", t[j].kind = "resolve", t[i].of = t[j].of
               PROVE  i = j
    BY DEF Alone
  <2>1. k + i - 1 = k + j - 1
    BY <1>2, <1>4 DEF Alone
  <2> QED BY <2>1
<1> QED
  BY <1>2, <1>3, <1>4

LEMMA PopFrame ==
  ASSUME NEW s \in Seq(FrameSet), s # <<>>, NEW t, t = Tail(s)
  PROVE  /\ t \in Seq(FrameSet) /\ Head(s) \in FrameSet /\ Frames(s) = {Head(s)} \cup Frames(t)
         /\ Alone(s) => Alone(t)
         /\ Alone(s) /\ Head(s).kind = "resolve" => \A h \in Frames(t) : ~Resolving(h, Head(s).of)
<1>1. Len(s) \in Nat /\ Len(s) >= 1 /\ Head(s) = s[1] /\ s[1] \in FrameSet
  OBVIOUS
<1>2. /\ t \in Seq(FrameSet) /\ Len(t) = Len(s) - 1
      /\ \A i \in 1..Len(t) : i + 1 \in 2..Len(s) /\ t[i] = s[i + 1]
  OBVIOUS
<1>3. \A i \in 1..Len(s) : i = 1 \/ (i - 1 \in 1..Len(t) /\ s[i] = t[i - 1])
  BY <1>1, <1>2
<1>4. Frames(s) = {Head(s)} \cup Frames(t)
  <2>1. 1 \in 1..Len(s) /\ \A i \in 1..Len(t) : i + 1 \in 1..Len(s)
    BY <1>1, <1>2
  <2>2. \A h \in Frames(s) : h = Head(s) \/ h \in Frames(t)
    BY <1>1, <1>3 DEF Frames
  <2>3. Head(s) \in Frames(s) /\ \A h \in Frames(t) : h \in Frames(s)
    BY <1>1, <1>2, <2>1 DEF Frames
  <2> QED BY <2>2, <2>3
<1>5. ASSUME Alone(s) PROVE Alone(t)
  <2> SUFFICES ASSUME NEW i \in 1..Len(t), NEW j \in 1..Len(t),
                      t[i].kind = "resolve", t[j].kind = "resolve", t[i].of = t[j].of
               PROVE  i = j
    BY DEF Alone
  <2>1. i + 1 \in 1..Len(s) /\ j + 1 \in 1..Len(s)
    BY <1>1, <1>2
  <2>2. i + 1 = j + 1
    BY <1>2, <1>5, <2>1 DEF Alone
  <2> QED BY <2>2
<1>6. ASSUME Alone(s), Head(s).kind = "resolve", NEW h \in Frames(t), Resolving(h, Head(s).of) PROVE FALSE
  <2>1. PICK i \in 1..Len(t) : h = t[i]
    BY DEF Frames
  <2>2. i + 1 \in 1..Len(s) /\ i + 1 # 1 /\ 1 \in 1..Len(s) /\ s[i + 1] = h
    BY <1>1, <1>2, <2>1
  <2> QED BY <1>1, <1>6, <2>2 DEF Alone, Resolving
<1> QED
  BY <1>1, <1>2, <1>4, <1>5, <1>6

\* What a require was told and what it waits for, when more is provided, when
\* a listener is put last in a list, and when the first one has its turn.
LEMMA ServedByMore ==
  ASSUME NEW queues, NEW given, NEW list, NEW c, NEW r, NEW p, NEW more, given \subseteq more,
         Served(queues, given, list, c, r, p)
  PROVE  Served(queues, more, list, c, r, p)
<1>1. PICK done \in SUBSET (1..p), w \in [1..p -> Nat] : c = Cardinality(done) /\ InTurn(queues, given, list, r, p, done, w)
  BY DEF Served
<1>2. InTurn(queues, more, list, r, p, done, w)
  BY <1>1 DEF InTurn
<1> QED
  BY <1>1, <1>2 DEF Served

LEMMA ServedAtFirst ==
  ASSUME NEW queues, NEW given, NEW list, NEW r, \A m \in Mod : \A j \in 1..Len(queues[m]) : queues[m][j] # r
  PROVE  Served(queues, given, list, 0, r, 0)
<1>1. {} \in SUBSET (1..0) /\ 0 = Cardinality({}) /\ [i \in 1..0 |-> 0] \in [1..0 -> Nat]
  BY FS_EmptySet
<1>2. InTurn(queues, given, list, r, 0, {}, [i \in 1..0 |-> 0])
  BY DEF InTurn
<1> QED
  BY <1>1, <1>2 DEF Served

ListenedLast(queues, m, x, longer) == longer = [queues EXCEPT ![m] = Append(@, x)]
Shifted(queues, m, shorter) == shorter = [queues EXCEPT ![m] = Tail(@)]

LEMMA ListenerAdded ==
  ASSUME NEW S, NEW queues \in [Mod -> Seq(S)], NEW given, NEW list \in Seq(Mod), NEW c, NEW r, NEW p \in 0..Len(list),
         Served(queues, given, list, c, r, p), NEW m \in Mod, NEW x \in S,
         NEW longer, ListenedLast(queues, m, x, longer)
  PROVE  /\ x # r => Served(longer, given, list, c, r, p)
         /\ x = r /\ p < Len(list) /\ list[p + 1] = m => Served(longer, given, list, c, r, p + 1)
<1>1. PICK done \in SUBSET (1..p), w \in [1..p -> Nat] : c = Cardinality(done) /\ InTurn(queues, given, list, r, p, done, w)
  BY DEF Served
<1>0. longer = [queues EXCEPT ![m] = Append(@, x)]
  BY DEF ListenedLast
<1> USE <1>0
<1>2. /\ Len(queues[m]) \in Nat /\ Len(longer[m]) = Len(queues[m]) + 1 /\ longer[m][Len(queues[m]) + 1] = x
      /\ \A j \in 1..Len(queues[m]) : longer[m][j] = queues[m][j]
      /\ \A o \in Mod : o # m => longer[o] = queues[o]
  OBVIOUS
<1>3. /\ p \in Nat /\ Len(list) \in Nat /\ p <= Len(list) /\ \A i \in 1..Len(list) : list[i] \in Mod
  OBVIOUS
<1>4. \A o \in Mod : \A j \in 1..Len(queues[o]) : j \in 1..Len(longer[o]) /\ longer[o][j] = queues[o][j]
  <2> SUFFICES ASSUME NEW o \in Mod, NEW j \in 1..Len(queues[o])
               PROVE  j \in 1..Len(longer[o]) /\ longer[o][j] = queues[o][j]
    OBVIOUS
  <2> QED BY <1>2
<1>5. \A o \in Mod : \A j \in 1..Len(longer[o]) :
        \/ j \in 1..Len(queues[o]) /\ longer[o][j] = queues[o][j]
        \/ o = m /\ j = Len(queues[m]) + 1 /\ longer[o][j] = x
  <2> SUFFICES ASSUME NEW o \in Mod, NEW j \in 1..Len(longer[o])
               PROVE  \/ j \in 1..Len(queues[o]) /\ longer[o][j] = queues[o][j]
                      \/ o = m /\ j = Len(queues[m]) + 1 /\ longer[o][j] = x
    OBVIOUS
  <2> QED BY <1>2
<1>6. ASSUME x # r PROVE Served(longer, given, list, c, r, p)
  <2>1. ASSUME NEW i \in (1..p) \ done PROVE w[i] \in 1..Len(longer[list[i]]) /\ longer[list[i]][w[i]] = r
    <3>1. list[i] \in Mod
      BY <1>3
    <3> QED BY <1>1, <1>4, <3>1 DEF InTurn
  <2>2. ASSUME NEW o \in Mod, NEW j \in 1..Len(longer[o]), longer[o][j] = r
        PROVE  \E i \in (1..p) \ done : list[i] = o /\ w[i] = j
    BY <1>1, <1>5, <1>6, <2>2 DEF InTurn
  <2>3. InTurn(longer, given, list, r, p, done, w)
    BY <1>1, <2>1, <2>2 DEF InTurn
  <2> QED BY <1>1, <2>3 DEF Served
<1>7. ASSUME x = r, p < Len(list), list[p + 1] = m PROVE Served(longer, given, list, c, r, p + 1)
  <2> DEFINE at == Len(queues[m]) + 1
             v == [i \in 1..(p + 1) |-> IF i = p + 1 THEN at ELSE w[i]]
  <2>1. /\ v \in [1..(p + 1) -> Nat] /\ v[p + 1] = at /\ \A i \in 1..p : v[i] = w[i]
    BY <1>2, <1>3
  <2>2. done \in SUBSET (1..(p + 1)) /\ p + 1 \notin done
    BY <1>3
  <2>3. \A i \in (1..(p + 1)) \ done : i = p + 1 \/ i \in (1..p) \ done
    BY <1>3
  <2>4. p + 1 \in (1..(p + 1)) \ done /\ (1..p) \ done \subseteq (1..(p + 1)) \ done
    BY <1>3
  <2>5. at \in 1..Len(longer[m]) /\ longer[m][at] = r /\ at \notin 1..Len(queues[m])
    BY <1>2, <1>7
  <2> HIDE DEF v, at
  <2>6. ASSUME NEW i \in (1..p) \ done
        PROVE  /\ list[i] \in Mod /\ w[i] \in 1..Len(queues[list[i]])
               /\ v[i] \in 1..Len(longer[list[i]]) /\ longer[list[i]][v[i]] = r
               /\ list[i] = m => v[i] # at
    <3>1. list[i] \in Mod
      BY <1>3
    <3> QED BY <1>1, <1>4, <2>1, <2>5, <3>1 DEF InTurn
  <2>7. \A i \in (1..(p + 1)) \ done : v[i] \in 1..Len(longer[list[i]]) /\ longer[list[i]][v[i]] = r
    BY <1>7, <2>1, <2>3, <2>5, <2>6
  <2>8. ASSUME NEW i \in (1..(p + 1)) \ done, NEW j \in (1..(p + 1)) \ done, list[i] = list[j], v[i] = v[j]
        PROVE  i = j
    <3>1. CASE i = p + 1 \/ j = p + 1
      BY <1>7, <2>1, <2>3, <2>6, <2>8, <3>1
    <3>2. CASE i # p + 1 /\ j # p + 1
      BY <1>1, <2>1, <2>3, <2>8, <3>2 DEF InTurn
    <3> QED BY <3>1, <3>2
  <2>9. ASSUME NEW o \in Mod, NEW j \in 1..Len(longer[o]), longer[o][j] = r
        PROVE  \E i \in (1..(p + 1)) \ done : list[i] = o /\ v[i] = j
    <3>1. CASE j \in 1..Len(queues[o]) /\ longer[o][j] = queues[o][j]
      <4>1. PICK i \in (1..p) \ done : list[i] = o /\ w[i] = j
        BY <1>1, <2>9, <3>1 DEF InTurn
      <4> QED BY <2>1, <2>4, <4>1
    <3>2. CASE o = m /\ j = at
      BY <1>7, <2>1, <2>4, <3>2
    <3> QED BY <1>5, <3>1, <3>2 DEF at
  <2>10. InTurn(longer, given, list, r, p + 1, done, v)
    BY <1>1, <2>7, <2>8, <2>9 DEF InTurn
  <2> QED BY <1>1, <2>1, <2>2, <2>10 DEF Served
<1> QED
  BY <1>6, <1>7

LEMMA ListenerPut ==
  ASSUME NEW S, NEW queues \in [Mod -> Seq(S)], NEW given, NEW list \in Seq(Mod), NEW c, NEW r \in S, NEW p \in 0..Len(list),
         Served(queues, given, list, c, r, p), p < Len(list), NEW m \in Mod, list[p + 1] = m,
         NEW longer, ListenedLast(queues, m, r, longer)
  PROVE  Served(longer, given, list, c, r, p + 1)
<1>1. PICK next : next = p + 1
  OBVIOUS
<1>2. r = r /\ p < Len(list) /\ list[p + 1] = m => Served(longer, given, list, c, r, p + 1)
  BY ListenerAdded
<1> QED BY <1>2

LEMMA PlaceBefore ==
  ASSUME NEW n \in Nat, NEW k \in 1..n, k # 1
  PROVE  k - 1 \in 1..(n - 1) /\ (k - 1) + 1 = k
  OBVIOUS

LEMMA ListenerShifted ==
  ASSUME NEW S, NEW queues \in [Mod -> Seq(S)], NEW given, NEW list \in Seq(Mod), NEW c \in Nat, NEW r,
         NEW p \in 0..Len(list), Served(queues, given, list, c, r, p),
         NEW m \in Mod, m \in given, queues[m] # <<>>,
         NEW shorter, Shifted(queues, m, shorter)
  PROVE  Served(shorter, given, list, IF Head(queues[m]) = r THEN c + 1 ELSE c, r, p)
<1>1. PICK done \in SUBSET (1..p), w \in [1..p -> Nat] : c = Cardinality(done) /\ InTurn(queues, given, list, r, p, done, w)
  BY DEF Served
<1>0. shorter = [queues EXCEPT ![m] = Tail(@)]
  BY DEF Shifted
<1> USE <1>0
<1>2. /\ Len(queues[m]) \in Nat /\ Len(queues[m]) >= 1 /\ Head(queues[m]) = queues[m][1]
      /\ Len(shorter[m]) = Len(queues[m]) - 1
      /\ \A j \in 1..Len(shorter[m]) : j + 1 \in 2..Len(queues[m]) /\ shorter[m][j] = queues[m][j + 1]
      /\ \A o \in Mod : o # m => shorter[o] = queues[o]
  OBVIOUS
<1>3. /\ p \in Nat /\ Len(list) \in Nat /\ p <= Len(list) /\ \A i \in 1..Len(list) : list[i] \in Mod
  OBVIOUS
<1> DEFINE First(i) == i \in (1..p) \ done /\ list[i] = m /\ w[i] = 1
           told2 == {i \in 1..p : i \in done \/ First(i)}
           v == [i \in 1..p |-> IF i \notin told2 /\ list[i] = m THEN w[i] - 1 ELSE w[i]]
<1>4. ASSUME NEW i \in (1..p) \ done
      PROVE  i \in 1..p /\ list[i] \in Mod /\ w[i] \in 1..Len(queues[list[i]]) /\ queues[list[i]][w[i]] = r
  BY <1>1, <1>3 DEF InTurn
<1>5. \A i, j \in (1..p) \ done : First(i) /\ First(j) => i = j
  BY <1>1 DEF InTurn
<1>6. ASSUME NEW i \in (1..p) \ done, list[i] = m, w[i] # 1
      PROVE  w[i] - 1 \in 1..Len(shorter[m]) /\ shorter[m][w[i] - 1] = r
  <2>1. w[i] - 1 \in 1..Len(shorter[m]) /\ (w[i] - 1) + 1 = w[i]
    <3>a. w[i] \in 1..Len(queues[m]) /\ w[i] # 1 /\ Len(queues[m]) \in Nat
      BY <1>2, <1>4, <1>6
    <3>1. w[i] - 1 \in 1..(Len(queues[m]) - 1) /\ (w[i] - 1) + 1 = w[i]
      BY <3>a, PlaceBefore
    <3> QED BY <1>2, <3>1
  <2> QED BY <1>2, <1>4, <1>6, <2>1
<1>7. v \in [1..p -> Nat]
  <2> SUFFICES ASSUME NEW i \in 1..p PROVE (IF i \notin told2 /\ list[i] = m THEN w[i] - 1 ELSE w[i]) \in Nat
    OBVIOUS
  <2>1. CASE i \notin told2 /\ list[i] = m
    <3>1. i \in (1..p) \ done /\ w[i] # 1
      BY <2>1
    <3> QED BY <1>4, <2>1, <3>1
  <2> QED BY <2>1
<1>8. told2 \in SUBSET (1..p) /\ done \subseteq told2
  OBVIOUS
<1>9. ASSUME NEW i \in (1..p) \ told2
      PROVE  /\ i \in (1..p) \ done /\ list[i] \in Mod
             /\ v[i] = IF list[i] = m THEN w[i] - 1 ELSE w[i]
             /\ list[i] = m => w[i] # 1
             /\ v[i] \in 1..Len(shorter[list[i]]) /\ shorter[list[i]][v[i]] = r
  <2>1. i \in (1..p) \ done /\ (list[i] = m => w[i] # 1)
    BY <1>8
  <2>2. v[i] = IF list[i] = m THEN w[i] - 1 ELSE w[i]
    OBVIOUS
  <2> HIDE DEF v, told2
  <2>3. list[i] \in Mod /\ w[i] \in 1..Len(queues[list[i]]) /\ queues[list[i]][w[i]] = r
    BY <1>4, <2>1
  <2>4. CASE list[i] = m
    BY <1>6, <2>1, <2>2, <2>3, <2>4
  <2>5. CASE list[i] # m
    BY <1>2, <2>1, <2>2, <2>3, <2>5
  <2> QED BY <2>4, <2>5
<1>10. \A i \in (1..p) \ done : ~First(i) => i \in (1..p) \ told2
  OBVIOUS
<1> HIDE DEF v
<1>11. InTurn(shorter, given, list, r, p, told2, v)
  <2>1. \A i \in told2 : list[i] \in given
    BY <1>1 DEF InTurn
  <2> HIDE DEF told2
  <2>2. ASSUME NEW i \in (1..p) \ told2, NEW j \in (1..p) \ told2, list[i] = list[j], v[i] = v[j] PROVE i = j
    <3>1. /\ w[i] \in Nat /\ w[j] \in Nat
          /\ v[i] = IF list[i] = m THEN w[i] - 1 ELSE w[i]
          /\ v[j] = IF list[j] = m THEN w[j] - 1 ELSE w[j]
      BY <1>9
    <3>2. w[i] = w[j]
      <4>1. PICK a \in Nat, e \in Nat : a = w[i] /\ e = w[j]
        BY <3>1
      <4>2. CASE list[i] = m
        <5>1. a - 1 = e - 1
          BY <2>2, <3>1, <4>1, <4>2
        <5> QED BY <4>1, <5>1
      <4>3. CASE list[i] # m
        BY <2>2, <3>1, <4>3
      <4> QED BY <4>2, <4>3
    <3> QED BY <1>1, <1>9, <2>2, <3>2 DEF InTurn
  <2>3. ASSUME NEW o \in Mod, NEW j \in 1..Len(shorter[o]), shorter[o][j] = r
        PROVE  \E i \in (1..p) \ told2 : list[i] = o /\ v[i] = j
    <3>1. CASE o # m
      <4>1. PICK i \in (1..p) \ done : list[i] = o /\ w[i] = j
        BY <1>1, <1>2, <2>3, <3>1 DEF InTurn
      <4> QED BY <1>9, <1>10, <3>1, <4>1
    <3>2. CASE o = m
      <4>1. j + 1 \in 1..Len(queues[m]) /\ queues[m][j + 1] = r /\ j + 1 # 1 /\ (j + 1) - 1 = j
        BY <1>2, <2>3, <3>2
      <4>2. PICK i \in (1..p) \ done : list[i] = m /\ w[i] = j + 1
        BY <1>1, <4>1 DEF InTurn
      <4>3. i \in (1..p) \ told2
        BY <1>10, <4>1, <4>2
      <4>4. v[i] = w[i] - 1
        BY <1>9, <4>2, <4>3
      <4> QED BY <3>2, <4>1, <4>2, <4>3, <4>4
    <3> QED BY <3>1, <3>2
  <2> QED BY <1>9, <2>1, <2>2, <2>3 DEF InTurn
<1>12. IsFiniteSet(done)
  <2>1. IsFiniteSet(1..p)
    BY <1>3, FS_Interval
  <2> QED BY <2>1, FS_Subset
<1>13. CASE Head(queues[m]) = r
  <2>0. 1 \in 1..Len(queues[m]) /\ queues[m][1] = r
    BY <1>2, <1>13
  <2>1. PICK i \in (1..p) \ done : list[i] = m /\ w[i] = 1
    BY <1>1, <2>0 DEF InTurn
  <2>2. told2 = done \cup {i}
    BY <1>5, <2>1
  <2>3. Cardinality(told2) = c + 1
    <3> HIDE DEF told2
    <3> QED BY <1>1, <1>12, <2>1, <2>2, FS_AddElement
  <2> HIDE DEF told2
  <2> QED BY <1>7, <1>8, <1>11, <1>13, <2>3 DEF Served
<1>14. CASE Head(queues[m]) # r
  <2>1. \A i \in (1..p) \ done : ~First(i)
    BY <1>2, <1>4, <1>14
  <2>2. told2 = done
    BY <2>1
  <2> HIDE DEF told2
  <2> QED BY <1>1, <1>7, <1>8, <1>11, <1>14, <2>2 DEF Served
<1> QED
  BY <1>13, <1>14

\* Who was told of all its modules has them, and who has them and waits for
\* none was told of all.
LEMMA ServedBounds ==
  ASSUME NEW queues, NEW given, NEW list \in Seq(Mod), NEW c, NEW r, NEW p \in 0..Len(list),
         Served(queues, given, list, c, r, p)
  PROVE  /\ c \in Nat /\ c <= p
         /\ c = Len(list) => p = Len(list) /\ \A i \in 1..Len(list) : list[i] \in given
<1>1. PICK done \in SUBSET (1..p), w \in [1..p -> Nat] : c = Cardinality(done) /\ InTurn(queues, given, list, r, p, done, w)
  BY DEF Served
<1>2. p \in Nat /\ Len(list) \in Nat /\ p <= Len(list)
  OBVIOUS
<1>3. IsFiniteSet(1..p) /\ Cardinality(1..p) = p
  BY <1>2, FS_Interval
<1>4. c \in Nat /\ c <= p /\ (c = p => done = 1..p)
  <2>1. /\ IsFiniteSet(done) /\ Cardinality(done) <= Cardinality(1..p)
        /\ Cardinality(1..p) = Cardinality(done) => 1..p = done
    BY <1>3, FS_Subset
  <2>2. Cardinality(done) \in Nat
    BY <2>1, FS_CardinalityType
  <2> QED BY <1>1, <1>3, <2>1, <2>2
<1> QED
  BY <1>1, <1>2, <1>4 DEF InTurn

LEMMA ServedAtLast ==
  ASSUME NEW queues, NEW given, NEW list \in Seq(Mod), NEW c, NEW r,
         Served(queues, given, list, c, r, Len(list)),
         \A i \in 1..Len(list) : list[i] \in given, \A m \in given : queues[m] = <<>>
  PROVE  c = Len(list)
<1> DEFINE p == Len(list)
<1>1. PICK done \in SUBSET (1..p), w \in [1..p -> Nat] : c = Cardinality(done) /\ InTurn(queues, given, list, r, p, done, w)
  BY DEF Served
<1>2. p \in Nat
  OBVIOUS
<1> HIDE DEF p
<1>3. ASSUME NEW i \in (1..p) \ done PROVE FALSE
  <2>1. queues[list[i]] = <<>> /\ w[i] \in 1..Len(queues[list[i]])
    BY <1>1 DEF InTurn, p
  <2> QED BY <2>1
<1>4. done = 1..p
  BY <1>3
<1>5. Cardinality(1..p) = p
  BY <1>2, FS_Interval
<1> QED
  BY <1>1, <1>4, <1>5 DEF p

LEMMA FrameType ==
  ASSUME NEW what \in {"resolve", "notify", "callback", "script"}, NEW of \in Nat \cup Mod, NEW n \in Nat
  PROVE  /\ RQ!Frame(what, of, n) \in FrameSet
         /\ RQ!Frame(what, of, n).kind = what /\ RQ!Frame(what, of, n).of = of /\ RQ!Frame(what, of, n).n = n
  BY DEF RQ!Frame, FrameSet

LEMMA AwaitsStill ==
  ASSUME NEW F, NEW others, NEW r, NEW p, NEW list, NEW over \in BOOLEAN,
         \A h \in F \cup others : Resolving(h, r) => h \in F /\ h \in others,
         Awaits(F, r, p, list, over)
  PROVE  Awaits(others, r, p, list, over)
  BY DEF Awaits

LEMMA AwaitsNoMore ==
  ASSUME NEW F, NEW less, less \subseteq F, NEW r, NEW p, NEW list, NEW over, Awaits(F, r, p, list, over)
  PROVE  Awaits(less, r, p, list, TRUE)
  BY DEF Awaits

LEMMA RequireInit == RQ!RequireAssumption /\ RQ!Init => RequireInv
<1> SUFFICES ASSUME RQ!RequireAssumption, RQ!Init PROVE RequireInv
  OBVIOUS
<1>1. /\ provided = {} /\ thrown = FALSE /\ listeners = [m \in Mod |-> <<>>] /\ dependencies = <<>>
      /\ counted = <<>> /\ called = <<>> /\ resolved = <<>> /\ stack = <<>>
  BY DEF RQ!Init
<1>2. RequireType
  <2>1. <<>> \in Seq(1..0) /\ <<>> \in Seq(FrameSet) /\ <<>> \in Seq(Seq(Mod)) /\ <<>> \in Seq(Nat) /\ <<>> \in Seq(BOOLEAN)
    OBVIOUS
  <2>2. Len(dependencies) = 0
    BY <1>1
  <2> QED BY <1>1, <2>1, <2>2 DEF RequireType
<1>3. Frames(stack) = {} /\ Alone(stack)
  BY <1>1 DEF Frames, Alone
<1>4. FramesRight(Frames(stack), dependencies, provided) /\ Cleared(Frames(stack), listeners, provided)
  BY <1>1, <1>3 DEF FramesRight, Cleared
<1> QED
  BY <1>1, <1>2, <1>3, <1>4 DEF RequireInv

\* A call of require.
LEMMA RequireCalls == ASSUME RequireInv, NEW list \in Lists, RQ!Require(list) PROVE RequireInv'
<1>0. PICK n \in Nat : n = Len(dependencies)
  BY DEF RequireInv, RequireType
<1>1. /\ RequireType /\ Alone(stack) /\ FramesRight(Frames(stack), dependencies, provided) /\ RQ!RequireAssumption
      /\ list \in Seq(Mod)
  BY DEF RequireInv, RequireType, RQ!RequireAssumption
<1>2. PICK f \in FrameSet : f = RQ!Frame("resolve", n + 1, 1)
  <2>1. n + 1 \in Nat \cup Mod /\ 1 \in Nat
    OBVIOUS
  <2> QED BY <2>1, FrameType
<1>3. /\ dependencies' = Append(dependencies, list) /\ counted' = Append(counted, 0)
      /\ called' = Append(called, 0) /\ resolved' = Append(resolved, FALSE) /\ stack' = <<f>> \o stack
      /\ UNCHANGED <<provided, listeners, thrown>>
  BY <1>0, <1>2 DEF RQ!Require
<1>4. f.kind = "resolve" /\ f.of = n + 1 /\ f.n = 1
  <2>1. n + 1 \in Nat \cup Mod /\ 1 \in Nat
    OBVIOUS
  <2> QED BY <1>2, <2>1, FrameType
<1>5. \A h \in Frames(stack) : ~Resolving(h, n + 1)
  BY <1>0, <1>1 DEF FramesRight, Resolving
<1>6. /\ stack' \in Seq(FrameSet) /\ Frames(stack') = {f} \cup Frames(stack) /\ Alone(stack')
  <2>1. stack \in Seq(FrameSet) /\ Alone(stack)
    BY <1>1 DEF RequireType
  <2>2. f.kind = "resolve" => \A h \in Frames(stack) : ~Resolving(h, f.of)
    BY <1>4, <1>5
  <2>3. stack' = <<f>> \o stack
    BY <1>3
  <2> QED BY <2>1, <2>2, <2>3, PushFrame
<1>7. /\ Len(dependencies') = n + 1 /\ dependencies'[n + 1] = list /\ counted'[n + 1] = 0 /\ called'[n + 1] = 0
      /\ \A r \in 1..n : dependencies'[r] = dependencies[r] /\ counted'[r] = counted[r] /\ called'[r] = called[r]
  <2>1. /\ dependencies \in Seq(Seq(Mod)) /\ counted \in Seq(Nat) /\ called \in Seq(Nat)
        /\ Len(dependencies) = n /\ Len(counted) = n /\ Len(called) = n
    BY <1>0, <1>1 DEF RequireType
  <2> QED BY <1>1, <1>3, <2>1
<1>8. RequireType'
  <2>1. \A m \in Mod : listeners[m] \in Seq(1..(n + 1))
    <3> SUFFICES ASSUME NEW m \in Mod PROVE listeners[m] \in Seq(1..(n + 1))
      OBVIOUS
    <3>1. listeners[m] \in Seq(1..n)
      BY <1>0, <1>1 DEF RequireType
    <3>2. 1..n \subseteq 1..(n + 1)
      BY <1>1
    <3> QED BY <3>1, <3>2
  <2>2. listeners' \in [Mod -> Seq(1..(n + 1))]
    BY <1>1, <1>3, <2>1 DEF RequireType
  <2>3. /\ dependencies' \in Seq(Seq(Mod)) /\ counted' \in Seq(Nat) /\ called' \in Seq(Nat) /\ resolved' \in Seq(BOOLEAN)
        /\ Len(counted') = n + 1 /\ Len(called') = n + 1 /\ Len(resolved') = n + 1
    <3>1. /\ dependencies \in Seq(Seq(Mod)) /\ counted \in Seq(Nat) /\ called \in Seq(Nat) /\ resolved \in Seq(BOOLEAN)
          /\ Len(dependencies) = n /\ Len(counted) = n /\ Len(called) = n /\ Len(resolved) = n
      BY <1>0, <1>1 DEF RequireType
    <3> QED BY <1>1, <1>3, <3>1
  <2> QED BY <1>1, <1>3, <1>6, <1>7, <2>2, <2>3 DEF RequireType
<1>9. FramesRight(Frames(stack'), dependencies', provided')
  <2>1. \A h \in Frames(stack') : h = f \/ h \in Frames(stack)
    BY <1>6
  <2>2. 1 \in 1..(Len(list) + 1) /\ n + 1 \in 1..(n + 1)
    BY <1>1
  <2>3. ASSUME NEW h \in Frames(stack), h.kind = "resolve"
        PROVE  h.of \in 1..(n + 1) /\ h.n \in 1..(Len(dependencies'[h.of]) + 1)
    <3>1. h.of \in 1..n /\ h.n \in 1..(Len(dependencies[h.of]) + 1)
      BY <1>0, <1>1, <2>3 DEF FramesRight
    <3> QED BY <1>1, <1>7, <3>1
  <2>4. ASSUME NEW h \in Frames(stack'), h.kind = "resolve"
        PROVE  h.of \in 1..Len(dependencies') /\ h.n \in 1..(Len(dependencies'[h.of]) + 1)
    BY <1>4, <1>7, <2>1, <2>2, <2>3, <2>4
  <2>5. ASSUME NEW h \in Frames(stack'), h.kind = "notify" PROVE h.of \in provided'
    BY <1>1, <1>3, <1>4, <2>1, <2>5 DEF FramesRight
  <2> QED BY <2>4, <2>5 DEF FramesRight
<1>10. thrown' \/ Cleared(Frames(stack'), listeners', provided')
  BY <1>3, <1>6 DEF RequireInv, Cleared
<1>11. ASSUME NEW r \in 1..n
       PROVE  /\ Listening(Frames(stack'), listeners', provided', dependencies'[r], counted'[r], r, thrown')
              /\ CalledRight(dependencies'[r], counted'[r], called'[r])
  <2>1. r # n + 1
    BY <1>1
  <2>2. /\ Listening(Frames(stack), listeners, provided, dependencies[r], counted[r], r, thrown)
        /\ CalledRight(dependencies[r], counted[r], called[r])
    BY <1>0 DEF RequireInv
  <2>3. PICK p \in 0..Len(dependencies[r]) :
          Served(listeners, provided, dependencies[r], counted[r], r, p) /\ Awaits(Frames(stack), r, p, dependencies[r], thrown)
    BY <2>2 DEF Listening
  <2>4. ~Resolving(f, r)
    BY <1>4, <2>1 DEF Resolving
  <2>5. Awaits({f} \cup Frames(stack), r, p, dependencies[r], thrown)
    <3>1. thrown \in BOOLEAN
      BY <1>1 DEF RequireType
    <3> QED BY <2>3, <2>4, <3>1, AwaitsStill
  <2> QED BY <1>3, <1>6, <1>7, <2>2, <2>3, <2>5 DEF Listening
<1>12. /\ Listening(Frames(stack'), listeners', provided', list, 0, n + 1, thrown')
       /\ CalledRight(list, 0, 0)
  <2>1. \A m \in Mod : \A j \in 1..Len(listeners[m]) : listeners[m][j] # n + 1
    <3> SUFFICES ASSUME NEW m \in Mod, NEW j \in 1..Len(listeners[m]) PROVE listeners[m][j] # n + 1
      OBVIOUS
    <3>1. listeners[m] \in Seq(1..n)
      BY <1>0, <1>1 DEF RequireType
    <3>2. listeners[m][j] \in 1..n
      BY <3>1
    <3> QED BY <1>1, <3>2
  <2>2. Served(listeners, provided, list, 0, n + 1, 0)
    BY <2>1, ServedAtFirst
  <2>3. Awaits(Frames(stack'), n + 1, 0, list, thrown')
    BY <1>4, <1>5, <1>6 DEF Awaits, Resolving
  <2>4. 0 \in 0..Len(list) /\ (Len(list) = 0 => list = <<>>)
    BY <1>1
  <2> QED BY <1>3, <2>2, <2>3, <2>4 DEF Listening, CalledRight
<1>13. \A r \in 1..(n + 1) : r \in 1..n \/ r = n + 1
  BY <1>1
<1> QED
  BY <1>1, <1>6, <1>7, <1>8, <1>9, <1>10, <1>11, <1>12, <1>13 DEF RequireInv

\* The call that is in progress and those below it.
Top(s, h, t) ==
  /\ h = Head(s) /\ t = Tail(s) /\ Frames(s) = {h} \cup Frames(t) /\ Alone(t)
  /\ h.kind = "resolve" => \A g \in Frames(t) : ~Resolving(g, h.of)

LEMMA TopFrame ==
  ASSUME RequireInv, stack # <<>>
  PROVE  \E h \in FrameSet, t \in Seq(FrameSet) : Top(stack, h, t)
<1>1. stack \in Seq(FrameSet) /\ Alone(stack)
  BY DEF RequireInv, RequireType
<1> QED
  BY <1>1, PopFrame DEF Top

\* A turn of the loop of resolve.
LEMMA RequireTurns == ASSUME RequireInv, RQ!resolveModule PROVE RequireInv'
<1>1. /\ RequireType /\ Alone(stack) /\ FramesRight(Frames(stack), dependencies, provided) /\ RQ!RequireAssumption
      /\ thrown \in BOOLEAN
  BY DEF RequireInv, RequireType
<1>2. PICK h \in FrameSet, t \in Seq(FrameSet) : Top(stack, h, t)
  BY TopFrame DEF RQ!resolveModule
<1>3. /\ h = Head(stack) /\ t = Tail(stack) /\ Frames(stack) = {h} \cup Frames(t) /\ Alone(t)
      /\ h.kind = "resolve" /\ \A g \in Frames(t) : ~Resolving(g, h.of)
  BY <1>2 DEF Top, RQ!resolveModule
<1>4. PICK r \in 1..Len(dependencies), i \in 1..(Len(dependencies[h.of]) + 1) : r = h.of /\ i = h.n
  BY <1>1, <1>3 DEF FramesRight
<1>5. PICK list \in Seq(Mod) : list = dependencies[r]
  <2>1. dependencies \in Seq(Seq(Mod))
    BY <1>1 DEF RequireType
  <2>2. dependencies[r] \in Seq(Mod)
    BY <2>1
  <2> QED BY <2>2
<1>6. i \in 1..(Len(list) + 1) /\ Len(list) \in Nat
  BY <1>4, <1>5
<1>7. UNCHANGED <<provided, dependencies, counted, resolved, called, thrown>>
  BY DEF RQ!resolveModule
<1>8. PICK p \in 0..Len(list) :
        Served(listeners, provided, list, counted[r], r, p) /\ Awaits(Frames(stack), r, p, list, thrown)
  BY <1>5 DEF RequireInv, Listening
<1>9. p = i - 1
  <2>1. h.n = p + 1
    BY <1>3, <1>4, <1>8 DEF Awaits, Resolving
  <2> QED BY <1>4, <1>6, <2>1
<1>10. \A o \in 1..Len(dependencies) :
         /\ Listening(Frames(stack), listeners, provided, dependencies[o], counted[o], o, thrown)
         /\ CalledRight(dependencies[o], counted[o], called[o])
  BY DEF RequireInv
<1>11. CASE i > Len(list)
  <2>1. stack' = t /\ UNCHANGED listeners
    BY <1>3, <1>4, <1>5, <1>11 DEF RQ!resolveModule
  <2>2. Frames(stack') = Frames(t) /\ RequireType' /\ Alone(stack')
    BY <1>1, <1>3, <1>7, <2>1 DEF RequireType
  <2>3. FramesRight(Frames(t), dependencies, provided) /\ (thrown \/ Cleared(Frames(t), listeners, provided))
    BY <1>1, <1>3 DEF RequireInv, FramesRight, Cleared
  <2>4. ASSUME NEW o \in 1..Len(dependencies)
        PROVE  Listening(Frames(t), listeners, provided, dependencies[o], counted[o], o, thrown)
    <3>1. CASE o = r
      <4>1. p = Len(list)
        BY <1>6, <1>9, <1>11
      <4>2. Awaits(Frames(t), r, p, list, thrown)
        BY <1>3, <1>4, <4>1 DEF Awaits
      <4> QED BY <1>5, <1>8, <3>1, <4>2 DEF Listening
    <3>2. CASE o # r
      <4>1. PICK q \in 0..Len(dependencies[o]) :
              /\ Served(listeners, provided, dependencies[o], counted[o], o, q)
              /\ Awaits(Frames(stack), o, q, dependencies[o], thrown)
        BY <1>10 DEF Listening
      <4>2. \A g \in Frames(stack) \cup Frames(t) : Resolving(g, o) => g \in Frames(stack) /\ g \in Frames(t)
        BY <1>3, <1>4, <3>2 DEF Resolving
      <4>3. Awaits(Frames(t), o, q, dependencies[o], thrown)
        BY <1>1, <4>1, <4>2, AwaitsStill
      <4> QED BY <4>1, <4>3 DEF Listening
    <3> QED BY <3>1, <3>2
  <2> QED BY <1>1, <1>7, <1>10, <2>1, <2>2, <2>3, <2>4 DEF RequireInv
<1>12. CASE i <= Len(list)
  <2>1. PICK m \in Mod : m = list[i]
    BY <1>6, <1>12
  <2>2. PICK f \in FrameSet : f = RQ!Frame("resolve", r, i + 1) /\ f.kind = "resolve" /\ f.of = r /\ f.n = i + 1
    <3>1. r \in Nat \cup Mod /\ i + 1 \in Nat
      BY <1>6
    <3>2. RQ!Frame("resolve", r, i + 1) \in FrameSet
      BY <3>1, FrameType
    <3> QED BY <3>2 DEF RQ!Frame
  <2>3. PICK rest \in Seq(FrameSet) : rest = <<f>> \o t /\ Frames(rest) = {f} \cup Frames(t) /\ Alone(rest)
    <3>1. \A g \in Frames(t) : ~Resolving(g, f.of)
      BY <1>3, <1>4, <2>2
    <3> QED BY <1>3, <3>1, PushFrame
  <2>4. /\ listeners' = [listeners EXCEPT ![m] = Append(@, r)]
        /\ m \in provided => stack' = <<RQ!Frame("notify", m, Len(listeners[m]) + 1)>> \o rest
        /\ m \notin provided => stack' = rest \/ stack' = <<RQ!Frame("script", m, 0)>> \o rest
    <3>1. /\ stack # <<>> /\ Head(stack).of = r /\ Head(stack).n = i /\ dependencies[r] = list /\ list[i] = m
          /\ ~(i > Len(list)) /\ rest = <<RQ!Frame("resolve", r, i + 1)>> \o Tail(stack)
      <4>1. stack # <<>> /\ Head(stack).of = r /\ Head(stack).n = i
        BY <1>3, <1>4 DEF RQ!resolveModule
      <4>2. dependencies[r] = list /\ list[i] = m
        BY <1>5, <2>1
      <4>3. ~(i > Len(list))
        BY <1>6, <1>12
      <4>4. rest = <<RQ!Frame("resolve", r, i + 1)>> \o Tail(stack)
        BY <1>3, <2>2, <2>3
      <4> QED BY <4>1, <4>2, <4>3, <4>4
    <3>2. /\ listeners' = [listeners EXCEPT ![m] = Append(@, r)]
          /\ IF RQ!provided(m)
             THEN stack' = <<RQ!Frame("notify", m, Len(listeners[m]) + 1)>> \o rest
             ELSE IF loaded[m] = "undefined" THEN RQ!load(m, rest) ELSE stack' = rest
      BY <3>1 DEF RQ!resolveModule
    <3> QED BY <3>2 DEF RQ!provided, RQ!load
  <2>5. /\ listeners[m] \in Seq(1..Len(dependencies)) /\ Len(listeners[m]) \in Nat
        /\ listeners' \in [Mod -> Seq(1..Len(dependencies))]
        /\ Len(listeners'[m]) = Len(listeners[m]) + 1 /\ \A o \in Mod : o # m => listeners'[o] = listeners[o]
    <3>1. PICK S : S = 1..Len(dependencies)
      OBVIOUS
    <3>2. listeners \in [Mod -> Seq(S)] /\ r \in S
      BY <1>1, <3>1 DEF RequireType
    <3>3. /\ listeners[m] \in Seq(S) /\ Len(listeners[m]) \in Nat
          /\ Append(listeners[m], r) \in Seq(S) /\ Len(Append(listeners[m], r)) = Len(listeners[m]) + 1
      BY <3>2
    <3> QED BY <2>4, <3>1, <3>2, <3>3
  <2>6. /\ stack' \in Seq(FrameSet) /\ Alone(stack') /\ {f} \cup Frames(t) \subseteq Frames(stack')
        /\ \A g \in Frames(stack') : \/ g \in {f} \cup Frames(t)
                                     \/ g.kind = "script" \/ (g.kind = "notify" /\ g.of = m /\ m \in provided)
        /\ m \in provided => \E g \in Frames(stack') : g.kind = "notify" /\ g.of = m /\ g.n >= Len(listeners'[m])
    <3>1. CASE m \in provided
      <4>1. PICK x \in FrameSet : /\ x = RQ!Frame("notify", m, Len(listeners[m]) + 1)
                                  /\ x.kind = "notify" /\ x.of = m /\ x.n = Len(listeners[m]) + 1
        <5>1. m \in Nat \cup Mod /\ Len(listeners[m]) + 1 \in Nat
          BY <2>5
        <5>2. RQ!Frame("notify", m, Len(listeners[m]) + 1) \in FrameSet
          BY <5>1, FrameType
        <5> QED BY <5>2 DEF RQ!Frame
      <4>2. stack' = <<x>> \o rest
        BY <2>4, <3>1, <4>1
      <4>3. stack' \in Seq(FrameSet) /\ Alone(stack') /\ Frames(stack') = {x} \cup Frames(rest)
        <5>1. x.kind = "resolve" => \A g \in Frames(rest) : ~Resolving(g, x.of)
          BY <4>1
        <5> QED BY <2>3, <4>2, <5>1, PushFrame
      <4> QED BY <2>3, <2>5, <3>1, <4>1, <4>3
    <3>2. CASE m \notin provided /\ stack' = rest
      BY <2>3, <3>2
    <3>3. CASE m \notin provided /\ stack' = <<RQ!Frame("script", m, 0)>> \o rest
      <4>1. PICK x \in FrameSet : x = RQ!Frame("script", m, 0) /\ x.kind = "script"
        <5>1. m \in Nat \cup Mod /\ 0 \in Nat
          OBVIOUS
        <5>2. RQ!Frame("script", m, 0) \in FrameSet
          BY <5>1, FrameType
        <5> QED BY <5>2 DEF RQ!Frame
      <4>2. stack' \in Seq(FrameSet) /\ Alone(stack') /\ Frames(stack') = {x} \cup Frames(rest)
        <5>1. x.kind = "resolve" => \A g \in Frames(rest) : ~Resolving(g, x.of)
          BY <4>1
        <5>2. stack' = <<x>> \o rest
          BY <3>3, <4>1
        <5> QED BY <2>3, <5>1, <5>2, PushFrame
      <4> QED BY <2>3, <3>3, <4>1, <4>2
    <3> QED BY <2>4, <3>1, <3>2, <3>3
  <2>7. RequireType'
    BY <1>1, <1>7, <2>5, <2>6 DEF RequireType
  <2>8. FramesRight(Frames(stack'), dependencies, provided)
    <3>1. ASSUME NEW g \in Frames(stack'), g.kind = "resolve"
          PROVE  g.of \in 1..Len(dependencies) /\ g.n \in 1..(Len(dependencies[g.of]) + 1)
      <4>1. g = f \/ g \in Frames(t)
        BY <2>6, <3>1
      <4>2. CASE g = f
        <5>1. i + 1 \in 1..(Len(list) + 1)
          BY <1>6, <1>12
        <5> QED BY <1>5, <2>2, <4>2, <5>1
      <4>3. CASE g \in Frames(t)
        BY <1>1, <1>3, <3>1, <4>3 DEF FramesRight
      <4> QED BY <4>1, <4>2, <4>3
    <3>2. ASSUME NEW g \in Frames(stack'), g.kind = "notify" PROVE g.of \in provided
      BY <1>1, <1>3, <2>2, <2>6, <3>2 DEF FramesRight
    <3> QED BY <3>1, <3>2 DEF FramesRight
  <2>9. thrown \/ Cleared(Frames(stack'), listeners', provided)
    <3> SUFFICES ASSUME ~thrown, NEW o \in provided, listeners'[o] # <<>>
                 PROVE  \E g \in Frames(stack') : g.kind = "notify" /\ g.of = o /\ g.n >= Len(listeners'[o])
      BY DEF Cleared
    <3>1. CASE o = m
      BY <2>6, <3>1
    <3>2. CASE o # m
      <4>1. o \in Mod /\ listeners'[o] = listeners[o]
        BY <1>1, <2>5, <3>2 DEF RequireType
      <4>2. PICK g \in Frames(stack) : g.kind = "notify" /\ g.of = o /\ g.n >= Len(listeners[o])
        BY <4>1 DEF RequireInv, Cleared
      <4>3. g \in Frames(t)
        BY <1>3, <4>2
      <4> QED BY <2>6, <4>1, <4>2, <4>3
    <3> QED BY <3>1, <3>2
  <2>10. ASSUME NEW o \in 1..Len(dependencies)
         PROVE  Listening(Frames(stack'), listeners', provided, dependencies[o], counted[o], o, thrown)
    <3>a. PICK S : S = 1..Len(dependencies)
      OBVIOUS
    <3>0. listeners \in [Mod -> Seq(S)] /\ r \in S /\ dependencies[o] \in Seq(Mod)
      BY <1>1, <3>a DEF RequireType
    <3>1. CASE o = r
      <4>1. p < Len(list) /\ p + 1 = i /\ list[p + 1] = m /\ p + 1 \in 0..Len(list)
        BY <1>6, <1>9, <1>12, <2>1
      <4>2. Served(listeners', provided, list, counted[r], r, p + 1)
        <5>1. p \in 0..Len(list) /\ r \in S /\ m \in Mod /\ list \in Seq(Mod) /\ listeners \in [Mod -> Seq(S)]
          BY <3>0
        <5>2. ListenedLast(listeners, m, r, listeners')
          BY <2>4 DEF ListenedLast
        <5>3. Served(listeners, provided, list, counted[r], r, p)
          BY <1>8
        <5>4. r = r /\ p < Len(list) /\ list[p + 1] = m
          BY <4>1
        <5> QED BY <5>1, <5>2, <5>3, <5>4, ListenerPut
      <4>3. \A g \in Frames(stack') : Resolving(g, r) => g = f
        BY <1>3, <1>4, <2>2, <2>6 DEF Resolving
      <4>4. f \in Frames(stack') /\ Resolving(f, r)
        BY <2>2, <2>6 DEF Resolving
      <4>5. Awaits(Frames(stack'), r, p + 1, list, thrown)
        BY <2>2, <4>1, <4>3, <4>4 DEF Awaits
      <4> QED BY <1>5, <3>1, <4>1, <4>2, <4>5 DEF Listening
    <3>2. CASE o # r
      <4>1. PICK q \in 0..Len(dependencies[o]) :
              /\ Served(listeners, provided, dependencies[o], counted[o], o, q)
              /\ Awaits(Frames(stack), o, q, dependencies[o], thrown)
        BY <1>10 DEF Listening
      <4>2. Served(listeners', provided, dependencies[o], counted[o], o, q)
        <5>1. r # o /\ r \in S /\ m \in Mod /\ listeners \in [Mod -> Seq(S)] /\ dependencies[o] \in Seq(Mod)
          BY <3>0, <3>2
        <5>2. ListenedLast(listeners, m, r, listeners')
          BY <2>4 DEF ListenedLast
        <5> QED BY <4>1, <5>1, <5>2, ListenerAdded
      <4>3. \A g \in Frames(stack) \cup Frames(stack') :
              Resolving(g, o) => g \in Frames(stack) /\ g \in Frames(stack')
        BY <1>3, <1>4, <2>2, <2>6, <3>2 DEF Resolving
      <4>4. Awaits(Frames(stack'), o, q, dependencies[o], thrown)
        BY <1>1, <4>1, <4>3, AwaitsStill
      <4> QED BY <4>1, <4>2, <4>4 DEF Listening
    <3> QED BY <3>1, <3>2
  <2> QED BY <1>1, <1>7, <1>10, <2>6, <2>7, <2>8, <2>9, <2>10 DEF RequireInv
<1> QED
  BY <1>6, <1>11, <1>12

\* The calls of resolve stay as they are.
LEMMA StillListening ==
  ASSUME RequireInv, NEW F, \A g \in F \cup Frames(stack) : g.kind = "resolve" => g \in F /\ g \in Frames(stack),
         NEW o \in 1..Len(dependencies)
  PROVE  Listening(F, listeners, provided, dependencies[o], counted[o], o, thrown)
<1>1. PICK p \in 0..Len(dependencies[o]) :
        /\ Served(listeners, provided, dependencies[o], counted[o], o, p)
        /\ Awaits(Frames(stack), o, p, dependencies[o], thrown)
  BY DEF RequireInv, Listening
<1>2. thrown \in BOOLEAN
  BY DEF RequireInv, RequireType
<1>3. \A g \in Frames(stack) \cup F : Resolving(g, o) => g \in Frames(stack) /\ g \in F
  BY DEF Resolving
<1>4. Awaits(F, o, p, dependencies[o], thrown)
  BY <1>1, <1>2, <1>3, AwaitsStill
<1> QED
  BY <1>1, <1>4 DEF Listening

\* A call of applyEachOnce has had its turns.
LEMMA NotifyEnds ==
  ASSUME RequireInv, stack # <<>>, Head(stack).kind = "notify", Head(stack).n = 0, stack' = Tail(stack),
         UNCHANGED <<provided, listeners, dependencies, counted, resolved, called, thrown>>
  PROVE  RequireInv'
<1>1. /\ RequireType /\ Alone(stack) /\ FramesRight(Frames(stack), dependencies, provided) /\ RQ!RequireAssumption
  BY DEF RequireInv
<1>2. PICK h \in FrameSet, t \in Seq(FrameSet) : Top(stack, h, t)
  BY TopFrame
<1>3. /\ h.kind = "notify" /\ h.n = 0 /\ stack' = t /\ Frames(stack) = {h} \cup Frames(t) /\ Alone(t)
  BY <1>2 DEF Top
<1>4. RequireType' /\ Alone(stack') /\ Frames(stack') = Frames(t)
  BY <1>1, <1>3 DEF RequireType
<1>5. FramesRight(Frames(t), dependencies, provided)
  BY <1>1, <1>3 DEF FramesRight
<1>6. thrown \/ Cleared(Frames(t), listeners, provided)
  <2> SUFFICES ASSUME ~thrown, NEW o \in provided, listeners[o] # <<>>
               PROVE  \E g \in Frames(t) : g.kind = "notify" /\ g.of = o /\ g.n >= Len(listeners[o])
    BY DEF Cleared
  <2>1. PICK g \in Frames(stack) : g.kind = "notify" /\ g.of = o /\ g.n >= Len(listeners[o])
    BY DEF RequireInv, Cleared
  <2>2. listeners[o] \in Seq(1..Len(dependencies))
    BY <1>1 DEF RequireType
  <2>3. Len(listeners[o]) \in Nat /\ Len(listeners[o]) # 0
    BY <2>2
  <2>4. g # h
    BY <1>3, <2>1, <2>3
  <2> QED BY <1>3, <2>1, <2>4
<1>7. \A o \in 1..Len(dependencies) : Listening(Frames(t), listeners, provided, dependencies[o], counted[o], o, thrown)
  <2>1. \A g \in Frames(t) \cup Frames(stack) : g.kind = "resolve" => g \in Frames(t) /\ g \in Frames(stack)
    BY <1>3
  <2> QED BY <2>1, StillListening
<1> QED
  BY <1>1, <1>3, <1>4, <1>5, <1>6, <1>7 DEF RequireInv

\* A TypeError leaves the last calls of the stack, or none.
LEMMA NotifyThrows ==
  ASSUME RequireInv, thrown' = TRUE, stack' = RQ!Unwound,
         UNCHANGED <<provided, listeners, dependencies, counted, resolved, called>>
  PROVE  RequireInv'
<1>1. /\ RequireType /\ Alone(stack) /\ FramesRight(Frames(stack), dependencies, provided) /\ RQ!RequireAssumption
      /\ stack \in Seq(FrameSet)
  BY DEF RequireInv, RequireType
<1>2. \E k \in 1..(Len(stack) + 1) : stack' = SubSeq(stack, k, Len(stack))
  <2> DEFINE scripts == {i \in DOMAIN stack : stack[i].kind = "script"}
  <2>1. CASE scripts = {}
    <3>1. stack' = <<>>
      BY <2>1 DEF RQ!Unwound
    <3>2. Len(stack) + 1 \in 1..(Len(stack) + 1) /\ SubSeq(stack, Len(stack) + 1, Len(stack)) = <<>>
      BY <1>1
    <3> QED BY <3>1, <3>2
  <2>2. CASE scripts # {}
    <3>1. scripts \subseteq Nat /\ scripts \subseteq 1..(Len(stack) + 1)
      BY <1>1
    <3>2. PICK k \in scripts : k = CHOOSE i \in scripts : \A j \in scripts : i <= j
      <4> HIDE DEF scripts
      <4>1. \E i \in scripts : \A j \in scripts : i <= j
        BY <2>2, <3>1, LeastNat
      <4> QED BY <4>1
    <3>3. stack' = SubSeq(stack, k, Len(stack))
      BY <2>2, <3>2 DEF RQ!Unwound
    <3> QED BY <3>1, <3>2, <3>3
  <2> QED BY <2>1, <2>2
<1>3. stack' \in Seq(FrameSet) /\ Frames(stack') \subseteq Frames(stack) /\ Alone(stack')
  BY <1>1, <1>2, LessFrames
<1>4. RequireType' /\ thrown'
  BY <1>1, <1>3 DEF RequireType
<1>5. FramesRight(Frames(stack'), dependencies, provided)
  BY <1>1, <1>3 DEF FramesRight
<1>6. ASSUME NEW o \in 1..Len(dependencies)
      PROVE  Listening(Frames(stack'), listeners, provided, dependencies[o], counted[o], o, TRUE)
  <2>1. PICK p \in 0..Len(dependencies[o]) :
          /\ Served(listeners, provided, dependencies[o], counted[o], o, p)
          /\ Awaits(Frames(stack), o, p, dependencies[o], thrown)
    BY DEF RequireInv, Listening
  <2>2. Awaits(Frames(stack'), o, p, dependencies[o], TRUE)
    BY <1>3, <2>1, AwaitsNoMore
  <2> QED BY <2>1, <2>2 DEF Listening
<1>7. \A o \in 1..Len(dependencies) : CalledRight(dependencies[o], counted[o], called[o])
  BY DEF RequireInv
<1> QED
  BY <1>1, <1>3, <1>4, <1>5, <1>6, <1>7 DEF RequireInv

\* One place of a sequence is put.
Put(s, i, e, t) == t = [s EXCEPT ![i] = e]

LEMMA SequencePut ==
  ASSUME NEW S, NEW s \in Seq(S), NEW i \in 1..Len(s), NEW e \in S, NEW t, Put(s, i, e, t)
  PROVE  /\ t \in Seq(S) /\ Len(t) = Len(s) /\ t[i] = e
         /\ \A j \in 1..Len(s) : j # i => t[j] = s[j]
<1>1. t = [s EXCEPT ![i] = e]
  BY DEF Put
<1>2. t \in Seq(S) /\ Len(t) = Len(s)
  BY <1>1
<1>3. DOMAIN s = 1..Len(s)
  OBVIOUS
<1> QED
  BY <1>1, <1>2, <1>3

\* The first listener has its turn; its require is called back when all its
\* modules were told.
LEMMA NotifyTells ==
  ASSUME RequireInv, RQ!applyEachOnce, Head(stack).n > 0, listeners[Head(stack).of] # <<>>
  PROVE  RequireInv'
<1>1. /\ RequireType /\ Alone(stack) /\ FramesRight(Frames(stack), dependencies, provided) /\ RQ!RequireAssumption
      /\ thrown \in BOOLEAN
  BY DEF RequireInv, RequireType
<1>2. PICK h \in FrameSet, t \in Seq(FrameSet) : Top(stack, h, t)
  BY TopFrame DEF RQ!applyEachOnce
<1>3. /\ h = Head(stack) /\ t = Tail(stack) /\ Frames(stack) = {h} \cup Frames(t) /\ Alone(t) /\ h.kind = "notify"
  BY <1>2 DEF Top, RQ!applyEachOnce
<1>4. PICK m \in Mod : m = h.of /\ m \in provided
  BY <1>1, <1>3 DEF FramesRight, RequireType
<1>5. PICK left \in Nat : left = h.n /\ left > 0
  BY <1>3 DEF FrameSet
<1>6. PICK S : S = 1..Len(dependencies)
  OBVIOUS
<1>7. PICK q \in Seq(S) : q = listeners[m] /\ q # <<>>
  BY <1>1, <1>3, <1>4, <1>6 DEF RequireType
<1>8. PICK r \in S : r = Head(q)
  BY <1>7
<1>9. PICK f \in FrameSet : f = RQ!Frame("notify", m, left - 1) /\ f.kind = "notify" /\ f.of = m /\ f.n = left - 1
  <2>1. m \in Nat \cup Mod /\ left - 1 \in Nat
    BY <1>5
  <2>2. RQ!Frame("notify", m, left - 1) \in FrameSet
    BY <2>1, FrameType
  <2> QED BY <2>2 DEF RQ!Frame
<1>10. PICK x \in FrameSet : x = RQ!Frame("callback", r, 0) /\ x.kind = "callback"
  <2>1. r \in Nat \cup Mod /\ 0 \in Nat
    BY <1>6
  <2>2. RQ!Frame("callback", r, 0) \in FrameSet
    BY <2>1, FrameType
  <2> QED BY <2>2 DEF RQ!Frame
<1>11. PICK rest \in Seq(FrameSet) : rest = <<f>> \o t /\ Frames(rest) = {f} \cup Frames(t) /\ Alone(rest)
  <2>1. f.kind = "resolve" => \A g \in Frames(t) : ~Resolving(g, f.of)
    BY <1>9
  <2> QED BY <1>3, <2>1, PushFrame
<1>12. /\ listeners' = [listeners EXCEPT ![m] = Tail(@)]
       /\ counted' = [counted EXCEPT ![r] = @ + 1]
       /\ resolved' = [resolved EXCEPT ![r] = @ \/ counted[r] + 1 = Len(dependencies[r])]
       /\ called' = [called EXCEPT ![r] = @ + IF counted[r] + 1 = Len(dependencies[r]) THEN 1 ELSE 0]
       /\ stack' = IF counted[r] + 1 = Len(dependencies[r]) THEN <<x>> \o rest ELSE rest
       /\ UNCHANGED <<provided, dependencies, thrown>>
  <2>1. /\ Head(stack).of = m /\ Head(stack).n = left /\ listeners[m] # <<>> /\ Head(listeners[m]) = r
        /\ left # 0 /\ rest = <<RQ!Frame("notify", m, left - 1)>> \o Tail(stack)
    BY <1>3, <1>4, <1>5, <1>7, <1>8, <1>9, <1>11
  <2>2. /\ listeners' = RQ!shift(m)
        /\ counted' = [counted EXCEPT ![r] = @ + 1]
        /\ resolved' = [resolved EXCEPT ![r] = @ \/ counted[r] + 1 = Len(dependencies[r])]
        /\ called' = [called EXCEPT ![r] = @ + IF counted[r] + 1 = Len(dependencies[r]) THEN 1 ELSE 0]
        /\ stack' = IF counted[r] + 1 = Len(dependencies[r]) THEN <<RQ!Frame("callback", r, 0)>> \o rest ELSE rest
        /\ UNCHANGED <<provided, dependencies, thrown>>
    BY <2>1 DEF RQ!applyEachOnce
  <2> QED BY <1>10, <2>2 DEF RQ!shift
<1>13. /\ stack' \in Seq(FrameSet) /\ Alone(stack') /\ f \in Frames(stack') /\ Frames(t) \subseteq Frames(stack')
       /\ \A g \in Frames(stack') : g.kind = "callback" \/ g = f \/ g \in Frames(t)
  <2>1. CASE stack' = rest
    BY <1>11, <2>1
  <2>2. CASE stack' = <<x>> \o rest
    <3>1. x.kind = "resolve" => \A g \in Frames(rest) : ~Resolving(g, x.of)
      BY <1>10
    <3>2. stack' \in Seq(FrameSet) /\ Alone(stack') /\ Frames(stack') = {x} \cup Frames(rest)
      BY <1>11, <2>2, <3>1, PushFrame
    <3> QED BY <1>10, <1>11, <3>2
  <2> QED BY <1>12, <2>1, <2>2
<1>14. /\ listeners' \in [Mod -> Seq(S)] /\ listeners'[m] = Tail(q)
       /\ \A o \in Mod : o # m => listeners'[o] = listeners[o]
  <2>1. listeners \in [Mod -> Seq(S)] /\ Tail(q) \in Seq(S)
    BY <1>1, <1>6, <1>7 DEF RequireType
  <2> QED BY <1>7, <1>12, <2>1
<1>15. /\ counted \in Seq(Nat) /\ called \in Seq(Nat) /\ resolved \in Seq(BOOLEAN)
       /\ r \in 1..Len(counted) /\ r \in 1..Len(called) /\ r \in 1..Len(resolved) /\ S = 1..Len(counted) /\ S = 1..Len(called)
       /\ \A o \in S : counted[o] \in Nat /\ called[o] \in Nat /\ dependencies[o] \in Seq(Mod)
  <2>1. /\ counted \in Seq(Nat) /\ called \in Seq(Nat) /\ resolved \in Seq(BOOLEAN) /\ dependencies \in Seq(Seq(Mod))
        /\ Len(counted) = Len(dependencies) /\ Len(called) = Len(dependencies) /\ Len(resolved) = Len(dependencies)
    BY <1>1 DEF RequireType
  <2>2. S = 1..Len(counted) /\ S = 1..Len(called) /\ S = 1..Len(resolved)
    BY <1>6, <2>1
  <2>3. \A o \in S : counted[o] \in Nat /\ called[o] \in Nat /\ dependencies[o] \in Seq(Mod)
    <3> SUFFICES ASSUME NEW o \in 1..Len(dependencies)
                 PROVE  counted[o] \in Nat /\ called[o] \in Nat /\ dependencies[o] \in Seq(Mod)
      BY <1>6
    <3> QED BY <2>1
  <2> QED BY <2>1, <2>2, <2>3
<1>16. PICK one \in Nat : one = IF counted[r] + 1 = Len(dependencies[r]) THEN 1 ELSE 0
  OBVIOUS
<1>20. PICK y \in BOOLEAN : y = (resolved[r] \/ counted[r] + 1 = Len(dependencies[r]))
  <2>1. resolved[r] \in BOOLEAN
    BY <1>15
  <2>2. CASE counted[r] + 1 = Len(dependencies[r])
    BY <2>2
  <2>3. CASE counted[r] + 1 # Len(dependencies[r])
    BY <2>1, <2>3
  <2> QED BY <2>2, <2>3
<1>21. PICK after \in Nat, answered \in Nat : after = counted[r] + 1 /\ answered = called[r] + one
  <2>1. counted[r] \in Nat /\ called[r] \in Nat
    BY <1>15
  <2>2. counted[r] + 1 \in Nat /\ called[r] + one \in Nat
    BY <2>1
  <2> QED BY <2>2
<1>22. Put(counted, r, after, counted') /\ Put(called, r, answered, called') /\ Put(resolved, r, y, resolved')
  BY <1>12, <1>16, <1>20, <1>21 DEF Put
<1>23. /\ counted' \in Seq(Nat) /\ Len(counted') = Len(counted) /\ counted'[r] = after
       /\ \A o \in S : o # r => counted'[o] = counted[o]
  <2>1. counted \in Seq(Nat) /\ r \in 1..Len(counted) /\ Put(counted, r, after, counted')
    BY <1>15, <1>22
  <2>2. /\ counted' \in Seq(Nat) /\ Len(counted') = Len(counted) /\ counted'[r] = after
        /\ \A o \in 1..Len(counted) : o # r => counted'[o] = counted[o]
    <3>1. counted' = [counted EXCEPT ![r] = after]
      BY <2>1 DEF Put
    <3>2. counted' \in Seq(Nat) /\ Len(counted') = Len(counted)
      BY <2>1, <3>1
    <3>3. counted'[r] = after /\ \A o \in 1..Len(counted) : o # r => counted'[o] = counted[o]
      BY <2>1, <3>1
    <3> QED BY <3>2, <3>3
  <2>3. S = 1..Len(counted)
    BY <1>15
  <2> QED BY <2>2, <2>3
<1>24. /\ called' \in Seq(Nat) /\ Len(called') = Len(called) /\ called'[r] = answered
       /\ \A o \in S : o # r => called'[o] = called[o]
  <2>1. called \in Seq(Nat) /\ r \in 1..Len(called) /\ Put(called, r, answered, called')
    BY <1>15, <1>22
  <2>2. /\ called' \in Seq(Nat) /\ Len(called') = Len(called) /\ called'[r] = answered
        /\ \A o \in 1..Len(called) : o # r => called'[o] = called[o]
    <3>1. called' = [called EXCEPT ![r] = answered]
      BY <2>1 DEF Put
    <3>2. called' \in Seq(Nat) /\ Len(called') = Len(called)
      BY <2>1, <3>1
    <3>3. called'[r] = answered /\ \A o \in 1..Len(called) : o # r => called'[o] = called[o]
      BY <2>1, <3>1
    <3> QED BY <3>2, <3>3
  <2>3. S = 1..Len(called)
    BY <1>15
  <2> QED BY <2>2, <2>3
<1>25. resolved' \in Seq(BOOLEAN) /\ Len(resolved') = Len(resolved)
  <2>1. resolved \in Seq(BOOLEAN) /\ r \in 1..Len(resolved) /\ y \in BOOLEAN /\ Put(resolved, r, y, resolved')
    BY <1>15, <1>22
  <2> QED BY <2>1, SequencePut
<1>26. RequireType'
  BY <1>1, <1>6, <1>12, <1>13, <1>14, <1>23, <1>24, <1>25 DEF RequireType
<1>17. FramesRight(Frames(stack'), dependencies, provided)
  BY <1>1, <1>3, <1>4, <1>9, <1>13 DEF FramesRight
<1>18. thrown \/ Cleared(Frames(stack'), listeners', provided)
  <2> SUFFICES ASSUME ~thrown, NEW o \in provided, listeners'[o] # <<>>
               PROVE  \E g \in Frames(stack') : g.kind = "notify" /\ g.of = o /\ g.n >= Len(listeners'[o])
    BY DEF Cleared
  <2>1. o \in Mod
    BY <1>1 DEF RequireType
  <2>2. CASE o = m
    <3>1. PICK n \in Nat : n = Len(q) /\ n # 0 /\ Len(listeners'[m]) = n - 1
      BY <1>7, <1>14
    <3>2. PICK g \in Frames(stack) : g.kind = "notify" /\ g.of = m /\ g.n >= n
      BY <1>4, <1>7, <3>1 DEF RequireInv, Cleared
    <3>3. CASE g = h
      <4>1. left - 1 >= n - 1
        BY <1>5, <3>1, <3>2, <3>3
      <4> QED BY <1>9, <1>13, <2>2, <3>1, <4>1
    <3>4. CASE g # h
      <4>1. g \in Frames(t) /\ g \in FrameSet
        <5>1. g \in Frames(t)
          BY <1>3, <3>2, <3>4
        <5>2. PICK k \in 1..Len(t) : g = t[k]
          BY <5>1 DEF Frames
        <5> QED BY <5>1, <5>2
      <4>2. g.n \in Nat /\ g.n >= n - 1
        BY <3>1, <3>2, <4>1 DEF FrameSet
      <4> QED BY <1>13, <2>2, <3>1, <3>2, <4>1, <4>2
    <3> QED BY <3>3, <3>4
  <2>3. CASE o # m
    <3>1. listeners'[o] = listeners[o]
      BY <1>14, <2>1, <2>3
    <3>2. PICK g \in Frames(stack) : g.kind = "notify" /\ g.of = o /\ g.n >= Len(listeners[o])
      BY <3>1 DEF RequireInv, Cleared
    <3>3. g \in Frames(t)
      BY <1>3, <1>4, <2>3, <3>2
    <3> QED BY <1>13, <3>1, <3>2, <3>3
  <2> QED BY <2>2, <2>3
<1>19. ASSUME NEW o \in S
       PROVE  /\ Listening(Frames(stack'), listeners', provided, dependencies[o], counted'[o], o, thrown)
              /\ CalledRight(dependencies[o], counted'[o], called'[o])
  <2>1. PICK list \in Seq(Mod), c \in Nat : list = dependencies[o] /\ c = counted[o]
    BY <1>15
  <2>2. PICK p \in 0..Len(list) : Served(listeners, provided, list, c, o, p) /\ Awaits(Frames(stack), o, p, list, thrown)
    BY <1>6, <2>1 DEF RequireInv, Listening
  <2>3. \A g \in Frames(stack) \cup Frames(stack') : Resolving(g, o) => g \in Frames(stack) /\ g \in Frames(stack')
    BY <1>3, <1>9, <1>13 DEF Resolving
  <2>4. Awaits(Frames(stack'), o, p, list, thrown)
    BY <1>1, <2>2, <2>3, AwaitsStill
  <2>5. Served(listeners', provided, list, IF Head(listeners[m]) = o THEN c + 1 ELSE c, o, p)
    <3>1. listeners \in [Mod -> Seq(S)] /\ m \in provided /\ listeners[m] # <<>>
      BY <1>1, <1>4, <1>6, <1>7 DEF RequireType
    <3>2. Shifted(listeners, m, listeners')
      BY <1>12 DEF Shifted
    <3> QED BY <2>2, <3>1, <3>2, ListenerShifted
  <2>6. counted'[o] = IF Head(listeners[m]) = o THEN c + 1 ELSE c
    BY <1>7, <1>8, <1>21, <1>23, <2>1
  <2>7. Listening(Frames(stack'), listeners', provided, dependencies[o], counted'[o], o, thrown)
    BY <2>1, <2>2, <2>4, <2>5, <2>6 DEF Listening
  <2>8. CalledRight(list, c, called[o])
    BY <1>6, <2>1 DEF RequireInv
  <2>9. CASE o = r
    <3>1. counted'[o] = c + 1 /\ called'[o] = called[o] + IF c + 1 = Len(list) THEN 1 ELSE 0
      BY <1>16, <1>21, <1>23, <1>24, <2>1, <2>9
    <3>2. c + 1 <= p
      <4>1. Served(listeners', provided, list, c + 1, o, p)
        BY <2>5, <2>6, <3>1
      <4> QED BY <4>1, ServedBounds
    <3>3. Len(list) \in Nat /\ c # Len(list) /\ list # <<>> /\ called[o] = 0
      <4>1. Len(list) \in Nat /\ p <= Len(list)
        OBVIOUS
      <4>2. c # Len(list) /\ Len(list) # 0
        BY <3>2, <4>1
      <4> QED BY <2>8, <4>1, <4>2 DEF CalledRight
    <3> QED BY <2>1, <2>7, <3>1, <3>3 DEF CalledRight
  <2>10. CASE o # r
    BY <1>23, <1>24, <2>1, <2>7, <2>8, <2>10
  <2> QED BY <2>9, <2>10
<1> QED
  BY <1>1, <1>6, <1>12, <1>13, <1>17, <1>18, <1>19, <1>26 DEF RequireInv

LEMMA RequireApplies == ASSUME RequireInv, RQ!applyEachOnce PROVE RequireInv'
<1>1. stack # <<>> /\ Head(stack).kind = "notify" /\ UNCHANGED <<provided, dependencies>>
  BY DEF RQ!applyEachOnce
<1>2. CASE Head(stack).n = 0
  <2>1. stack' = Tail(stack) /\ UNCHANGED <<listeners, counted, resolved, called, thrown>>
    <3>1. ~(Head(stack).n > 0)
      BY <1>2
    <3> QED BY <3>1 DEF RQ!applyEachOnce
  <2> QED BY <1>1, <1>2, <2>1, NotifyEnds
<1>3. CASE Head(stack).n > 0 /\ listeners[Head(stack).of] = <<>>
  <2>1. thrown' = TRUE /\ stack' = RQ!Unwound /\ UNCHANGED <<listeners, counted, resolved, called>>
    BY <1>3 DEF RQ!applyEachOnce
  <2> QED BY <1>1, <2>1, NotifyThrows
<1>4. CASE Head(stack).n > 0 /\ listeners[Head(stack).of] # <<>>
  BY <1>4, NotifyTells
<1> QED
  BY <1>2, <1>3, <1>4 DEF RQ!applyEachOnce

\* Calls that are not resolve or applyEachOnce begin or end.
LEMMA OthersBeginAndEnd ==
  ASSUME RequireInv, stack' \in Seq(FrameSet), Alone(stack'),
         \A g \in Frames(stack) \cup Frames(stack') :
           g.kind \in {"resolve", "notify"} => g \in Frames(stack) /\ g \in Frames(stack'),
         UNCHANGED <<provided, listeners, dependencies, counted, resolved, called, thrown>>
  PROVE  RequireInv'
<1>1. /\ RequireType /\ FramesRight(Frames(stack), dependencies, provided) /\ RQ!RequireAssumption
  BY DEF RequireInv
<1>2. RequireType'
  BY <1>1 DEF RequireType
<1>3. FramesRight(Frames(stack'), dependencies, provided)
  BY <1>1 DEF FramesRight
<1>4. thrown \/ Cleared(Frames(stack'), listeners, provided)
  BY DEF RequireInv, Cleared
<1>5. \A o \in 1..Len(dependencies) : Listening(Frames(stack'), listeners, provided, dependencies[o], counted[o], o, thrown)
  <2>1. \A g \in Frames(stack') \cup Frames(stack) : g.kind = "resolve" => g \in Frames(stack') /\ g \in Frames(stack)
    OBVIOUS
  <2> QED BY <2>1, StillListening
<1>6. \A o \in 1..Len(dependencies) : CalledRight(dependencies[o], counted[o], called[o])
  BY DEF RequireInv
<1> QED
  BY <1>1, <1>2, <1>3, <1>4, <1>5, <1>6 DEF RequireInv

LEMMA RequireReturns == ASSUME RequireInv, RQ!Return PROVE RequireInv'
<1>1. /\ stack' = Tail(stack) /\ Head(stack).kind \in {"callback", "script"}
      /\ UNCHANGED <<provided, listeners, dependencies, counted, resolved, called, thrown>>
  BY DEF RQ!Return
<1>2. PICK h \in FrameSet, t \in Seq(FrameSet) : Top(stack, h, t)
  BY TopFrame DEF RQ!Return
<1>3. /\ h.kind \in {"callback", "script"} /\ stack' = t /\ Frames(stack) = {h} \cup Frames(t) /\ Alone(t)
  BY <1>1, <1>2 DEF Top
<1> QED
  BY <1>1, <1>3, OthersBeginAndEnd

LEMMA RequireFetched == ASSUME RequireInv, NEW m \in Mod, RQ!Fetched(m) PROVE RequireInv'
<1>1. /\ stack = <<>> /\ (stack' = <<>> \/ stack' = <<RQ!Frame("script", m, 0)>>)
      /\ UNCHANGED <<provided, listeners, dependencies, counted, resolved, called, thrown>>
  BY DEF RQ!Fetched
<1>2. PICK f \in FrameSet : f = RQ!Frame("script", m, 0) /\ f.kind = "script"
  <2>1. m \in Nat \cup Mod /\ 0 \in Nat
    OBVIOUS
  <2>2. RQ!Frame("script", m, 0) \in FrameSet
    BY <2>1, FrameType
  <2> QED BY <2>2 DEF RQ!Frame
<1>3. stack \in Seq(FrameSet) /\ Alone(stack)
  BY DEF RequireInv, RequireType
<1>4. CASE stack' = <<>>
  BY <1>1, <1>3, <1>4, OthersBeginAndEnd
<1>5. CASE stack' = <<RQ!Frame("script", m, 0)>>
  <2>1. stack' = <<f>> \o stack
    BY <1>1, <1>2, <1>5
  <2>2. f.kind = "resolve" => \A h \in Frames(stack) : ~Resolving(h, f.of)
    BY <1>2
  <2>3. stack' \in Seq(FrameSet) /\ Frames(stack') = {f} \cup Frames(stack) /\ Alone(stack')
    BY <1>3, <2>1, <2>2, PushFrame
  <2> QED BY <1>1, <1>2, <2>3, OthersBeginAndEnd
<1> QED
  BY <1>1, <1>4, <1>5

LEMMA RequireProvides == ASSUME RequireInv, NEW m \in Mod, RQ!provide(m) PROVE RequireInv'
<1>1. /\ RequireType /\ Alone(stack) /\ FramesRight(Frames(stack), dependencies, provided) /\ RQ!RequireAssumption
      /\ stack \in Seq(FrameSet) /\ provided \subseteq Mod
  BY DEF RequireInv, RequireType
<1>2. PICK n \in Nat : n = Len(listeners[m])
  <2>1. listeners[m] \in Seq(1..Len(dependencies))
    BY <1>1 DEF RequireType
  <2> QED BY <2>1
<1>3. PICK f \in FrameSet : f = RQ!Frame("notify", m, n) /\ f.kind = "notify" /\ f.of = m /\ f.n = n
  <2>1. RQ!Frame("notify", m, n) \in FrameSet
    BY FrameType
  <2> QED BY <2>1 DEF RQ!Frame
<1>4. /\ provided' = provided \cup {m} /\ stack' = <<f>> \o stack
      /\ UNCHANGED <<listeners, dependencies, counted, resolved, called, thrown>>
  BY <1>2, <1>3 DEF RQ!provide, RQ!onprovide
<1>5. stack' \in Seq(FrameSet) /\ Frames(stack') = {f} \cup Frames(stack) /\ Alone(stack')
  <2>1. f.kind = "resolve" => \A h \in Frames(stack) : ~Resolving(h, f.of)
    BY <1>3
  <2> QED BY <1>1, <1>4, <2>1, PushFrame
<1>6. RequireType'
  BY <1>1, <1>4, <1>5 DEF RequireType
<1>7. FramesRight(Frames(stack'), dependencies, provided')
  BY <1>1, <1>3, <1>4, <1>5 DEF FramesRight
<1>8. thrown \/ Cleared(Frames(stack'), listeners, provided')
  <2> SUFFICES ASSUME ~thrown, NEW o \in provided', listeners[o] # <<>>
               PROVE  \E g \in Frames(stack') : g.kind = "notify" /\ g.of = o /\ g.n >= Len(listeners[o])
    BY DEF Cleared
  <2>1. CASE o = m
    BY <1>2, <1>3, <1>5, <2>1
  <2>2. CASE o # m
    BY <1>4, <1>5, <2>2 DEF RequireInv, Cleared
  <2> QED BY <2>1, <2>2
<1>9. ASSUME NEW o \in 1..Len(dependencies)
      PROVE  Listening(Frames(stack'), listeners, provided', dependencies[o], counted[o], o, thrown)
  <2>1. \A g \in Frames(stack') \cup Frames(stack) : g.kind = "resolve" => g \in Frames(stack') /\ g \in Frames(stack)
    BY <1>3, <1>5
  <2>2. Listening(Frames(stack'), listeners, provided, dependencies[o], counted[o], o, thrown)
    BY <2>1, StillListening
  <2>3. PICK p \in 0..Len(dependencies[o]) :
          /\ Served(listeners, provided, dependencies[o], counted[o], o, p)
          /\ Awaits(Frames(stack'), o, p, dependencies[o], thrown)
    BY <2>2 DEF Listening
  <2>4. Served(listeners, provided', dependencies[o], counted[o], o, p)
    <3>1. provided \subseteq provided'
      BY <1>4
    <3> QED BY <2>3, <3>1, ServedByMore
  <2> QED BY <2>3, <2>4 DEF Listening
<1>10. \A o \in 1..Len(dependencies) : CalledRight(dependencies[o], counted[o], called[o])
  BY DEF RequireInv
<1> QED
  BY <1>1, <1>4, <1>5, <1>6, <1>7, <1>8, <1>9, <1>10 DEF RequireInv

LEMMA RequireStep == RequireInv /\ [RQ!Next]_(RQ!vars) => RequireInv'
<1> SUFFICES ASSUME RequireInv, [RQ!Next]_(RQ!vars) PROVE RequireInv'
  OBVIOUS
<1>1. ASSUME NEW list \in Lists, RQ!Require(list) PROVE RequireInv'
  BY <1>1, RequireCalls
<1>2. ASSUME NEW m \in Mod, RQ!provide(m) PROVE RequireInv'
  BY <1>2, RequireProvides
<1>3. ASSUME NEW m \in Mod, RQ!Fetched(m) PROVE RequireInv'
  BY <1>3, RequireFetched
<1>4. CASE UNCHANGED RQ!vars
  BY <1>4 DEF RQ!vars, RequireInv, RequireType, RQ!RequireAssumption
<1> QED
  BY <1>1, <1>2, <1>3, <1>4, RequireTurns, RequireApplies, RequireReturns DEF RQ!Next

\* What it is for.
LEMMA RequireInvImplies == RequireInv => RQ!CalledOnceComplete /\ RQ!NobodyForgotten
<1> SUFFICES ASSUME RequireInv PROVE RQ!CalledOnceComplete /\ RQ!NobodyForgotten
  OBVIOUS
<1>1. /\ dependencies \in Seq(Seq(Mod)) /\ Len(called) = Len(dependencies)
  BY DEF RequireInv, RequireType
<1>2. RQ!Requires = 1..Len(dependencies)
  BY <1>1 DEF RQ!Requires
<1>3. ASSUME NEW r \in 1..Len(dependencies)
      PROVE  /\ called[r] <= 1
             /\ called[r] = 1 => \A i \in DOMAIN dependencies[r] : dependencies[r][i] \in provided
  <2>1. PICK list \in Seq(Mod) : list = dependencies[r]
    BY <1>1
  <2>2. CalledRight(list, counted[r], called[r])
    BY <2>1 DEF RequireInv
  <2>3. PICK p \in 0..Len(list) : Served(listeners, provided, list, counted[r], r, p)
    BY <2>1 DEF RequireInv, Listening
  <2>4. counted[r] = Len(list) => \A i \in 1..Len(list) : list[i] \in provided
    BY <2>3, ServedBounds
  <2>5. DOMAIN list = 1..Len(list)
    OBVIOUS
  <2> QED BY <2>1, <2>2, <2>4, <2>5 DEF CalledRight
<1>4. ASSUME stack = <<>>, ~thrown, NEW r \in 1..Len(dependencies), dependencies[r] # <<>>,
             \A i \in DOMAIN dependencies[r] : dependencies[r][i] \in provided
      PROVE  called[r] = 1
  <2>1. PICK list \in Seq(Mod) : list = dependencies[r]
    BY <1>1
  <2>2. Frames(stack) = {}
    BY <1>4 DEF Frames
  <2>3. \A m \in provided : listeners[m] = <<>>
    BY <1>4, <2>2 DEF RequireInv, Cleared
  <2>4. Served(listeners, provided, list, counted[r], r, Len(list))
    <3>1. PICK p \in 0..Len(list) : Served(listeners, provided, list, counted[r], r, p) /\ Awaits(Frames(stack), r, p, list, thrown)
      BY <2>1 DEF RequireInv, Listening
    <3>2. p = Len(list)
      BY <1>4, <2>2, <3>1 DEF Awaits
    <3> QED BY <3>1, <3>2
  <2>5. \A i \in 1..Len(list) : list[i] \in provided
    BY <1>4, <2>1
  <2>6. counted[r] = Len(list)
    BY <2>3, <2>4, <2>5, ServedAtLast
  <2>7. CalledRight(list, counted[r], called[r])
    BY <2>1 DEF RequireInv
  <2> QED BY <1>4, <2>1, <2>6, <2>7 DEF CalledRight
<1> QED
  BY <1>2, <1>3, <1>4 DEF RQ!CalledOnceComplete, RQ!NobodyForgotten

\* A callback comes once, with all its modules, and is not forgotten; a file
\* is one module, which runs once, and exports given before they are final
\* were given in a cycle (require.js:68-144, module.js:196-323).
THEOREM ModulesAreLoadedOnce == Spec => []ModulesLoadedOnce
<1> DEFINE Inv == (scene = "require" => RequireInv) /\ (scene = "module" => ModuleInv)
<1>1. Init => Inv
  BY ClientAssumption, RequireInit, ModuleInit DEF Init, ClientAssumption
<1>2. Inv /\ [Next]_clientVars => Inv'
  <2> SUFFICES ASSUME Inv, [Next]_clientVars PROVE Inv'
    OBVIOUS
  <2>1. scene' = scene
    BY DEF Next, clientVars
  <2>2. ASSUME scene = "require" PROVE [RQ!Next]_(RQ!vars)
    BY <2>2 DEF Next, clientVars, requireVars, RQ!vars
  <2>3. ASSUME scene = "module" PROVE [MO!Next]_(MO!vars)
    BY <2>3 DEF Next, clientVars, moduleVars, MO!vars
  <2> QED BY <2>1, <2>2, <2>3, RequireStep, ModuleStep
<1>3. Inv => ModulesLoadedOnce
  BY RequireInvImplies, ModuleInvImplies DEF ModulesLoadedOnce
<1> QED
  BY <1>1, <1>2, <1>3, PTL DEF Spec
=============================================================================
