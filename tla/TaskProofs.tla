----------------------------- MODULE TaskProofs -----------------------------
(***************************************************************************)
(* For any set of tasks, chained, joined, paused, resumed and cancelled in *)
(* any order: those that wait for one another share their fate, and what a *)
(* task has come to is final.                                              *)
(*                                                                         *)
(* Cancelling and pausing follow the links of both directions, previous    *)
(* and nextList, so the argument is about the two agreeing: TaskInv says   *)
(* that a task in a list has the owner of the list before it (LinkedBack),*)
(* and that an open task is in the list of the one before it, which is not *)
(* cancelled, unless that one has settled.  A step that changes no link    *)
(* keeps TaskInv because the set it reaches is closed under the links      *)
(* (QuietInv); one that makes a link does because of what it does to both  *)
(* of its ends (BecomeInv).                                                *)
(*                                                                         *)
(* That nobody is left behind needs more, LostInv: while nothing is        *)
(* knotted no list leads back to its owner (a new link makes a loop only   *)
(* if its owner is after its end, LinkAdded), so that nothing overflows    *)
(* (NoOverflow); and whoever leaves a list is in the queue of setImmediate,*)
(* where only the one who is adopted leaves it (QueueOf), or waits for one *)
(* that was not heard.                                                     *)
(***************************************************************************)
EXTENDS Task, SequenceTheorems, FiniteSetTheorems, WellFoundedInduction, TLAPS

TypeOK ==
  /\ state \in [Tasks -> {"free", "pending", "completed", "failed"}]
  /\ paused \subseteq Tasks /\ cancelled \subseteq Tasks /\ inserted \subseteq Tasks
  /\ previous \in [Tasks -> Tasks \cup {None}]
  /\ nextList \in [Tasks -> Seq(Tasks)]

\* Only tasks that were created are chained, paused or cancelled.
OnlyCreated ==
  /\ cancelled \subseteq Created /\ paused \subseteq Created
  /\ \A t \in Tasks : ToSet(nextList[t]) \subseteq Created
  /\ \A t \in Tasks : previous[t] \in Created \cup {None}
  /\ \A t \in Tasks : state[t] = "free" => previous[t] = None

\* An open task does not wait for a cancelled one, and is known to the one it
\* waits for.
Waiting ==
  \A t \in Open : previous[t] # None =>
    /\ previous[t] \notin cancelled
    /\ t \in ToSet(nextList[previous[t]]) \/ state[previous[t]] \in Settled

\* A task of a list has the owner of the list before it.
LinkedBack ==
  \A p \in Tasks : \A c \in ToSet(nextList[p]) \ inserted : previous[c] = p

TaskInv == TypeOK /\ OnlyCreated /\ Waiting /\ LinkedBack /\ CancelledTogether /\ PausedTogether

-----------------------------------------------------------------------------
(***************************************************************************)
(* Sets that are closed under the links.                                   *)
(***************************************************************************)
Closed(S, able, prev, links) ==
  S \subseteq able /\ \A x \in S : Linked(x, prev, links) \cap able \subseteq S

\* What a propagation reaches is closed, holds those it started from, and
\* nothing that a closed set with these does not hold.
LEMMA SpreadClosed ==
  ASSUME NEW from, NEW able, NEW prev, NEW links
  PROVE  /\ Closed(Spread(from, able, prev, links), able, prev, links)
         /\ from \cap able \subseteq Spread(from, able, prev, links)
         /\ \A S \in SUBSET able :
              Closed(S, able, prev, links) /\ from \cap able \subseteq S
                => Spread(from, able, prev, links) \subseteq S
BY DEF Spread, Closed

\* Nobody is reached who was not created.
LEMMA SpreadCreated ==
  ASSUME NEW from, NEW able \in SUBSET Tasks, NEW prev, NEW links, NEW made \in SUBSET Tasks,
         from \cap able \subseteq made,
         \A t \in made : ToSet(links[t]) \subseteq made /\ prev[t] \in made \cup {None}
  PROVE  Spread(from, able, prev, links) \subseteq made
<1>1. Closed(able \cap made, able, prev, links)
  BY DEF Closed, Linked
<1> QED
  BY <1>1, SpreadClosed

LEMMA ToSetAppend ==
  ASSUME NEW S, NEW s \in Seq(S), NEW c \in S
  PROVE  Append(s, c) \in Seq(S) /\ ToSet(Append(s, c)) = ToSet(s) \cup {c}
<1> DEFINE r == Append(s, c)
<1>1. /\ Len(s) \in Nat /\ DOMAIN s = 1..Len(s)
      /\ r \in Seq(S) /\ Len(r) = Len(s) + 1 /\ DOMAIN r = 1..(Len(s) + 1)
      /\ \A i \in 1..Len(s) : r[i] = s[i]
      /\ r[Len(s) + 1] = c
  BY AppendProperties, LenProperties
<1> HIDE DEF r
<1>2. ToSet(r) \subseteq ToSet(s) \cup {c}
  <2> SUFFICES ASSUME NEW i \in 1..(Len(s) + 1) PROVE r[i] \in ToSet(s) \cup {c}
    BY <1>1 DEF ToSet
  <2>1. i \in 1..Len(s) \/ i = Len(s) + 1
    BY <1>1
  <2> QED BY <1>1, <2>1 DEF ToSet
<1>3. ToSet(s) \cup {c} \subseteq ToSet(r)
  <2>1. \A i \in 1..Len(s) : i \in DOMAIN r
    BY <1>1
  <2>2. Len(s) + 1 \in DOMAIN r
    BY <1>1
  <2> QED BY <1>1, <2>1, <2>2 DEF ToSet
<1> QED BY <1>1, <1>2, <1>3 DEF r

LEMMA ToSetIn ==
  ASSUME NEW s \in Seq(Tasks)
  PROVE  ToSet(s) \subseteq Tasks
BY LenProperties DEF ToSet

\* What Replaced does to the lists: v has the place of t, and t has none.
LEMMA ReplacedLists ==
  ASSUME TypeOK, NEW t \in Tasks, NEW v \in Tasks, v # t
  PROVE  /\ Replaced(t, v) \in [Tasks -> Seq(Tasks)]
         /\ \A u \in Tasks : u # previous[t] => Replaced(t, v)[u] = nextList[u]
         /\ previous[t] \in Tasks =>
              /\ ToSet(Replaced(t, v)[previous[t]]) \subseteq (ToSet(nextList[previous[t]]) \ {t}) \cup {v}
              /\ ToSet(nextList[previous[t]]) \ {t} \subseteq ToSet(Replaced(t, v)[previous[t]])
              /\ t \in ToSet(nextList[previous[t]]) => v \in ToSet(Replaced(t, v)[previous[t]])
<1> DEFINE q == previous[t]
           s == nextList[q]
           r == IF s = << >> THEN <<v>> ELSE [i \in 1..Len(s) |-> IF s[i] = t THEN v ELSE s[i]]
<1>1. CASE q = None
  BY <1>1, TaskAssumption DEF Replaced, TypeOK
<1>2. CASE q # None
  <2>1. q \in Tasks /\ s \in Seq(Tasks)
    BY <1>2 DEF TypeOK
  <2>2. Replaced(t, v) = [nextList EXCEPT ![q] = r]
    BY <1>2 DEF Replaced
  <2>3. /\ r \in Seq(Tasks)
        /\ ToSet(r) \subseteq (ToSet(s) \ {t}) \cup {v}
        /\ ToSet(s) \ {t} \subseteq ToSet(r)
        /\ t \in ToSet(s) => v \in ToSet(r)
    <3>1. CASE s = << >>
      <4>1. r = <<v>> /\ ToSet(s) = {}
        BY <3>1 DEF ToSet
      <4>2. r \in Seq(Tasks) /\ ToSet(r) = {v}
        BY <4>1 DEF ToSet
      <4> QED BY <4>1, <4>2
    <3>2. CASE s # << >>
      <4>0. Len(s) \in Nat /\ s \in [1..Len(s) -> Tasks]
        BY <2>1, LenProperties
      <4>1. r = [i \in 1..Len(s) |-> IF s[i] = t THEN v ELSE s[i]]
        BY <3>2
      <4>2. r \in [1..Len(s) -> Tasks] /\ DOMAIN r = 1..Len(s) /\ DOMAIN s = 1..Len(s)
        <5> HIDE DEF s
        <5> QED BY <4>0, <4>1
      <4>5. r \in Seq(Tasks)
        <5> HIDE DEF r, s
        <5> QED BY <4>0, <4>2, SeqDef
      <4>3. \A i \in 1..Len(s) : r[i] = IF s[i] = t THEN v ELSE s[i]
        BY <4>1
      <4> HIDE DEF r, s
      <4> QED BY <4>2, <4>3, <4>5 DEF ToSet
    <3> QED BY <3>1, <3>2
  <2> HIDE DEF r, s
  <2> QED BY <2>1, <2>2, <2>3 DEF TypeOK, s
<1> QED BY <1>1, <1>2

-----------------------------------------------------------------------------
(***************************************************************************)
(* Steps that change no link.                                              *)
(***************************************************************************)
\* Tasks settle or are created, and a closed set is cancelled, another one
\* paused or resumed.
LEMMA QuietInv ==
  ASSUME TaskInv, UNCHANGED <<previous, nextList, inserted>>,
         state' \in [Tasks -> {"free", "pending", "completed", "failed"}],
         \A t \in Tasks : \/ state'[t] = state[t] \/ state'[t] \in Settled
                          \/ state[t] = "free" /\ state'[t] = "pending",
         NEW C, Closed(C, Unsettled \ cancelled, previous, nextList), C \subseteq Created,
         cancelled' = cancelled \cup C,
         NEW P, \/ /\ Closed(P, Unsettled \ paused, previous, nextList) /\ P \subseteq Created
                   /\ paused' = paused \cup P
                \/ /\ P \subseteq paused /\ \A x \in P : previous[x] \in paused => previous[x] \in P
                   /\ paused' = paused \ P
  PROVE  TaskInv'
<1> USE DEF TaskInv
<1>1. \A t \in Tasks : ToSet(nextList[t]) \subseteq Tasks
  BY ToSetIn DEF TypeOK
<1>2. Created \subseteq Created' /\ Created \subseteq Tasks
  BY DEF Created, Settled
<1>3. TypeOK'
  BY <1>2 DEF TypeOK, Closed, Unsettled
<1>4. OnlyCreated'
  <2>1. \A t \in Tasks : state'[t] = "free" => state[t] = "free"
    BY DEF Settled
  <2> QED BY <1>2, <2>1 DEF OnlyCreated
<1>5. Waiting'
  <2> SUFFICES ASSUME NEW t \in Open', previous[t] # None
               PROVE  /\ previous[t] \notin cancelled'
                      /\ t \in ToSet(nextList[previous[t]]) \/ state'[previous[t]] \in Settled
    BY DEF Waiting
  <2>1. t \in Tasks /\ state'[t] = "pending" /\ t \notin cancelled /\ t \notin C
    BY DEF Open, Pending
  <2>2. t \in Open
    BY <2>1 DEF Open, Pending, OnlyCreated, Settled
  <2>3. /\ previous[t] \in Tasks /\ previous[t] \notin cancelled
        /\ t \in ToSet(nextList[previous[t]]) \/ state[previous[t]] \in Settled
    BY <2>1, <2>2 DEF Waiting, TypeOK
  <2>4. state[previous[t]] \in Settled => state'[previous[t]] \in Settled
    BY <2>3 DEF Settled
  <2>5. previous[t] \notin C
    <3>1. t \in Unsettled \ cancelled
      BY <2>2 DEF Open, Pending, Unsettled, Settled
    <3>2. previous[t] \in C => t \in ToSet(nextList[previous[t]])
      BY <2>3 DEF Closed, Unsettled
    <3> QED BY <2>1, <3>1, <3>2 DEF Closed, Linked
  <2> QED BY <2>3, <2>4, <2>5
<1>6. LinkedBack'
  BY DEF LinkedBack
<1>7. \A t \in Tasks : state[t] \in Settled => state'[t] \in Settled
  BY DEF Settled
<1>8. CancelledTogether'
  <2> SUFFICES ASSUME NEW x \in cancelled \cup C, NEW y \in ToSet(nextList[x])
               PROVE  y \in cancelled \cup C \/ state'[y] \in Settled
    BY DEF CancelledTogether
  <2>1. x \in Tasks /\ y \in Tasks
    BY <1>1 DEF TypeOK, Closed, Unsettled
  <2>2. CASE x \in cancelled
    BY <1>7, <2>1, <2>2 DEF CancelledTogether
  <2>3. CASE x \in C
    BY <1>7, <2>1, <2>3 DEF Closed, Linked, Unsettled
  <2> QED BY <2>2, <2>3
<1>9. PausedTogether'
  <2> SUFFICES ASSUME NEW x \in paused', NEW y \in ToSet(nextList[x]) \ inserted
               PROVE  y \in paused' \/ state'[y] \in Settled
    BY DEF PausedTogether
  <2>1. CASE Closed(P, Unsettled \ paused, previous, nextList) /\ paused' = paused \cup P
    <3>1. x \in Tasks /\ y \in Tasks
      BY <1>1, <2>1 DEF TypeOK, Closed, Unsettled
    <3>2. CASE x \in paused
      BY <1>7, <2>1, <3>1, <3>2 DEF PausedTogether
    <3>3. CASE x \in P
      BY <1>7, <2>1, <3>1, <3>3 DEF Closed, Linked, Unsettled
    <3> QED BY <2>1, <3>2, <3>3
  <2>2. CASE /\ P \subseteq paused /\ \A z \in P : previous[z] \in paused => previous[z] \in P
             /\ paused' = paused \ P
    <3>1. x \in Tasks /\ y \in Tasks /\ x \in paused /\ x \notin P /\ x # None
      BY <1>1, <2>2, TaskAssumption DEF TypeOK
    <3>2. y \in paused \/ state[y] \in Settled
      BY <3>1 DEF PausedTogether
    <3>3. y \notin P
      BY <2>2, <3>1 DEF LinkedBack
    <3> QED BY <1>7, <2>2, <3>1, <3>2, <3>3
  <2> QED BY <2>1, <2>2
<1> QED
  BY <1>3, <1>4, <1>5, <1>6, <1>8, <1>9

-----------------------------------------------------------------------------
(***************************************************************************)
(* Steps that make a link.                                                 *)
(***************************************************************************)
\* prev and links are as TaskInv wants them but for c: it has p before it, and is
\* in no list yet.
Joinable(c, p, prev, links, late) ==
  /\ prev \in [Tasks -> Tasks \cup {None}] /\ links \in [Tasks -> Seq(Tasks)]
  /\ prev[c] = p
  /\ \A t \in Tasks : t # c => prev[t] \in Created \cup {None}
  /\ \A t \in Tasks : t # c /\ state[t] = "free" => prev[t] = None
  /\ \A q \in Tasks : ToSet(links[q]) \subseteq Created
  /\ \A q \in Tasks : \A x \in ToSet(links[q]) \ late : x # c /\ prev[x] = q
  /\ \A t \in Open : t # c /\ prev[t] # None =>
       /\ prev[t] \notin cancelled
       /\ t \in ToSet(links[prev[t]]) \/ state[prev[t]] \in Settled
  /\ \A x \in cancelled : \A y \in ToSet(links[x]) : y \in cancelled \/ state[y] \in Settled
  /\ \A x \in paused : \A y \in ToSet(links[x]) \ late : y \in paused \/ state[y] \in Settled

\* c becomes p over such links.
LEMMA BecomeInv ==
  ASSUME TaskInv, NEW c \in Tasks, NEW p \in Created,
         NEW prev, NEW links, NEW queue,
         Become(c, p, prev, links, queue), previous' = prev,
         \/ c \in Created /\ UNCHANGED state
         \/ state[c] = "free" /\ state' = [state EXCEPT ![c] = "pending"],
         inserted \subseteq inserted', inserted' \subseteq Tasks,
         Joinable(c, p, prev, links, inserted')
  PROVE  TaskInv'
<1> USE DEF Joinable
<1> DEFINE made == Created \cup {c}
           L == Cancelling({c}, prev, links)
           P == Pausing({c}, prev, links)
<1>1. /\ p \in Tasks /\ p # None /\ Created \subseteq Tasks
      /\ paused \subseteq Tasks /\ cancelled \subseteq Tasks /\ c # None
  BY TaskAssumption DEF Created, TaskInv, TypeOK
<1>2. Created' = made /\ state' \in [Tasks -> {"free", "pending", "completed", "failed"}]
  <2>1. CASE c \in Created /\ UNCHANGED state
    BY <2>1 DEF Created, TaskInv, TypeOK
  <2>2. CASE state[c] = "free" /\ state' = [state EXCEPT ![c] = "pending"]
    BY <2>2 DEF Created, TaskInv, TypeOK
  <2> QED BY <2>1, <2>2
<1>3. /\ \A t \in Tasks : state'[t] \in Settled <=> state[t] \in Settled
      /\ \A t \in Tasks : t # c => state'[t] = state[t]
  BY DEF Settled, TaskInv, TypeOK
<1>4. \A t \in made : ToSet(links[t]) \subseteq made /\ prev[t] \in made \cup {None}
  BY <1>1
<1>5. /\ Closed(L, Unsettled \ cancelled, prev, links) /\ L \subseteq made
      /\ c \in Unsettled \ cancelled => c \in L
  <2>1. L \subseteq made
    <3>1. Unsettled \ cancelled \in SUBSET Tasks /\ made \in SUBSET Tasks
      BY <1>1 DEF Unsettled
    <3> HIDE DEF made
    <3>2. {c} \cap (Unsettled \ cancelled) \subseteq made
      BY DEF made
    <3> QED BY <1>4, <3>1, <3>2, SpreadCreated DEF Cancelling
  <2>2. Closed(L, Unsettled \ cancelled, prev, links) /\ {c} \cap (Unsettled \ cancelled) \subseteq L
    BY SpreadClosed DEF Cancelling
  <2> QED BY <2>1, <2>2
<1>6. /\ Closed(P, Unsettled \ paused, prev, links) /\ P \subseteq made
      /\ c \in Unsettled \ paused => c \in P
  <2>1. P \subseteq made
    <3>1. Unsettled \ paused \in SUBSET Tasks /\ made \in SUBSET Tasks
      BY <1>1 DEF Unsettled
    <3> HIDE DEF made
    <3>2. {c} \cap (Unsettled \ paused) \subseteq made
      BY DEF made
    <3> QED BY <1>4, <3>1, <3>2, SpreadCreated DEF Pausing
  <2>2. Closed(P, Unsettled \ paused, prev, links) /\ {c} \cap (Unsettled \ paused) \subseteq P
    BY SpreadClosed DEF Pausing
  <2> QED BY <2>1, <2>2
<1> HIDE DEF L, P
<1>11. /\ \A t \in Tasks : state'[t] = "free" => prev[t] = None
       /\ \A t \in Tasks : prev[t] \in Created' \cup {None}
       /\ \A q \in Tasks : ToSet(links[q]) \subseteq Created'
       /\ cancelled \subseteq Created' /\ paused \subseteq Created' /\ p \in Created' /\ c \in Created'
  <2>1. \A t \in Tasks : state'[t] = "free" => t # c /\ state[t] = "free"
    BY <1>2, <1>3 DEF Created
  <2> QED BY <1>1, <1>2, <2>1 DEF TaskInv, OnlyCreated
<1>7. \A q \in Tasks : ToSet(links[q]) \subseteq Tasks
  BY <1>1
<1>8. CASE /\ p \in cancelled /\ cancelled' = cancelled \cup L /\ nextList' = links /\ UNCHANGED paused
  <2>1. TypeOK' /\ OnlyCreated'
    <3>1. cancelled' \subseteq Tasks /\ cancelled' \subseteq Created'
      BY <1>1, <1>2, <1>5, <1>8, <1>11
    <3>2. TypeOK'
      BY <1>1, <1>2, <1>8, <3>1 DEF TypeOK
    <3>3. OnlyCreated'
      BY <1>8, <1>11, <3>1 DEF OnlyCreated
    <3> QED BY <3>2, <3>3
  <2>2. Waiting'
    <3> SUFFICES ASSUME NEW t \in Open', prev[t] # None
                 PROVE  /\ prev[t] \notin cancelled'
                        /\ t \in ToSet(links[prev[t]]) \/ state'[prev[t]] \in Settled
      BY <1>8 DEF Waiting
    <3>1. t \in Tasks /\ state'[t] = "pending" /\ t \notin cancelled /\ t \notin L
      BY <1>8 DEF Open, Pending
    <3>2. t # c
      <4>1. state'[c] = "pending" => state[c] \notin Settled
        BY <1>3 DEF Settled
      <4> QED BY <1>5, <3>1, <4>1 DEF Unsettled
    <3>3. t \in Open /\ prev[t] \in Tasks
      BY <1>3, <3>1, <3>2 DEF Open, Pending
    <3>4. prev[t] \notin L
      <4>1. prev[t] \in L => t \in ToSet(links[prev[t]])
        BY <1>5, <3>2, <3>3 DEF Closed, Unsettled
      <4>2. t \in Unsettled \ cancelled
        BY <3>3 DEF Open, Pending, Unsettled, Settled
      <4> QED BY <1>5, <3>1, <4>1, <4>2 DEF Closed, Linked
    <3> QED BY <1>3, <1>8, <3>2, <3>3, <3>4
  <2>3. LinkedBack'
    BY <1>8 DEF LinkedBack
  <2>4. CancelledTogether'
    <3> SUFFICES ASSUME NEW x \in cancelled \cup L, NEW y \in ToSet(links[x])
                 PROVE  y \in cancelled \cup L \/ state'[y] \in Settled
      BY <1>8 DEF CancelledTogether
    <3>1. x \in Tasks /\ y \in Tasks
      BY <1>1, <1>5, <1>7 DEF Closed, Unsettled
    <3> QED BY <1>3, <1>5, <3>1 DEF Closed, Linked, Unsettled
  <2>5. PausedTogether'
    <3> SUFFICES ASSUME NEW x \in paused, NEW y \in ToSet(links[x]) \ inserted'
                 PROVE  y \in paused \/ state'[y] \in Settled
      BY <1>8 DEF PausedTogether
    <3> QED BY <1>1, <1>3, <1>7
  <2> QED BY <2>1, <2>2, <2>3, <2>4, <2>5 DEF TaskInv
<1>9. ASSUME nextList' = [links EXCEPT ![p] = Append(@, c)], UNCHANGED cancelled, p \notin cancelled,
             \/ p \in paused /\ paused' = paused \cup P
             \/ p \notin paused /\ UNCHANGED paused
      PROVE  TaskInv'
  <2>1. /\ nextList' \in [Tasks -> Seq(Tasks)]
        /\ ToSet(nextList'[p]) = ToSet(links[p]) \cup {c}
        /\ \A q \in Tasks : q # p => nextList'[q] = links[q]
    BY <1>1, <1>9, ToSetAppend
  <2>2. TypeOK' /\ OnlyCreated'
    <3>1. paused' \subseteq Tasks /\ paused' \subseteq Created'
      BY <1>1, <1>2, <1>6, <1>9, <1>11
    <3>2. TypeOK'
      BY <1>1, <1>2, <1>9, <2>1, <3>1 DEF TypeOK
    <3>3. \A q \in Tasks : ToSet(nextList'[q]) \subseteq Created'
      <4>1. ToSet(nextList'[p]) \subseteq Created'
        BY <1>1, <1>11, <2>1
      <4>2. \A q \in Tasks : q # p => ToSet(nextList'[q]) \subseteq Created'
        BY <1>11, <2>1
      <4> QED BY <4>1, <4>2
    <3>4. OnlyCreated'
      BY <1>9, <1>11, <3>1, <3>3 DEF OnlyCreated
    <3> QED BY <3>2, <3>4
  <2>3. Waiting'
    <3> SUFFICES ASSUME NEW t \in Open', prev[t] # None
                 PROVE  /\ prev[t] \notin cancelled
                        /\ t \in ToSet(nextList'[prev[t]]) \/ state'[prev[t]] \in Settled
      BY <1>9 DEF Waiting
    <3>1. t \in Tasks /\ state'[t] = "pending" /\ t \notin cancelled
      BY <1>9 DEF Open, Pending
    <3>2. CASE t = c
      BY <1>9, <2>1, <3>2
    <3>3. CASE t # c
      <4>1. t \in Open /\ prev[t] \in Tasks
        BY <1>3, <3>1, <3>3 DEF Open, Pending
      <4> QED BY <1>3, <2>1, <3>3, <4>1
    <3> QED BY <3>2, <3>3
  <2>4. LinkedBack'
    <3> SUFFICES ASSUME NEW q \in Tasks, NEW x \in ToSet(nextList'[q]) \ inserted' PROVE prev[x] = q
      BY DEF LinkedBack
    <3>1. CASE q = p
      BY <1>1, <2>1, <3>1
    <3>2. CASE q # p
      BY <2>1, <3>2
    <3> QED BY <3>1, <3>2
  <2>5. CancelledTogether'
    <3> SUFFICES ASSUME NEW x \in cancelled, NEW y \in ToSet(nextList'[x])
                 PROVE  y \in cancelled \/ state'[y] \in Settled
      BY <1>9 DEF CancelledTogether
    <3>1. x \in Tasks /\ x # p
      BY <1>1, <1>9
    <3> QED BY <1>3, <1>7, <2>1, <3>1
  <2>6. PausedTogether'
    <3> SUFFICES ASSUME NEW x \in paused', NEW y \in ToSet(nextList'[x]) \ inserted'
                 PROVE  y \in paused' \/ state'[y] \in Settled
      BY DEF PausedTogether
    <3>1. x \in Tasks
      BY <1>1, <1>6, <1>9 DEF Closed, Unsettled
    <3>2. CASE x = p /\ y = c
      <4>1. p \in paused /\ paused' = paused \cup P
        BY <1>6, <1>9, <3>2 DEF Closed, Unsettled
      <4> QED BY <1>3, <1>6, <3>2, <4>1 DEF Unsettled
    <3>3. CASE y \in ToSet(links[x])
      <4>1. CASE x \in paused
        BY <1>1, <1>3, <1>7, <1>9, <3>1, <3>3, <4>1
      <4>2. CASE x \in P /\ paused' = paused \cup P
        BY <1>3, <1>6, <1>7, <3>1, <3>3, <4>2 DEF Closed, Linked, Unsettled
      <4> QED BY <1>9, <4>1, <4>2
    <3> QED BY <2>1, <3>1, <3>2, <3>3
  <2> QED BY <2>2, <2>3, <2>4, <2>5, <2>6 DEF TaskInv
<1>10. CASE p \notin Unsettled \cup cancelled \cup paused /\ nextList' = links /\ UNCHANGED <<paused, cancelled>>
  <2>1. TypeOK' /\ OnlyCreated'
    <3>1. TypeOK'
      BY <1>1, <1>2, <1>10 DEF TypeOK
    <3>2. OnlyCreated'
      BY <1>10, <1>11 DEF OnlyCreated
    <3> QED BY <3>1, <3>2
  <2>2. Waiting'
    <3> SUFFICES ASSUME NEW t \in Open', prev[t] # None
                 PROVE  /\ prev[t] \notin cancelled
                        /\ t \in ToSet(links[prev[t]]) \/ state'[prev[t]] \in Settled
      BY <1>10 DEF Waiting
    <3>1. t \in Tasks /\ state'[t] = "pending" /\ t \notin cancelled
      BY <1>10 DEF Open, Pending
    <3>2. CASE t = c
      BY <1>1, <1>3, <1>10, <3>2 DEF Unsettled
    <3>3. CASE t # c
      <4>1. t \in Open /\ prev[t] \in Tasks
        BY <1>3, <3>1, <3>3 DEF Open, Pending
      <4> QED BY <1>3, <3>3, <4>1
    <3> QED BY <3>2, <3>3
  <2>3. LinkedBack'
    BY <1>10 DEF LinkedBack
  <2>4. CancelledTogether' /\ PausedTogether'
    BY <1>1, <1>3, <1>7, <1>10 DEF CancelledTogether, PausedTogether
  <2> QED BY <2>1, <2>2, <2>3, <2>4 DEF TaskInv
<1> QED
  BY <1>1, <1>8, <1>9, <1>10 DEF Become, L, P, Pending

\* t is completed with v, which takes its place; t becomes v or has no place.
LEMMA InsertInv ==
  ASSUME TaskInv, NEW t \in Open, NEW v \in Created \ {t}, NEW queue, Insert(t, v, queue)
  PROVE  TaskInv'
<1> DEFINE q == previous[t]
           links == Replaced(t, v)
           given == [previous EXCEPT ![t] = None, ![v] = IF q = None THEN @ ELSE q]
           prev == previous'
<1>1. /\ t \in Created /\ t \in Tasks /\ v \in Created /\ v \in Tasks /\ v # t
      /\ q \in Created \cup {None} /\ None \notin Tasks
      /\ inserted' = inserted \cup {v} /\ UNCHANGED state
      /\ \/ prev = given /\ nextList' = links /\ UNCHANGED <<paused, cancelled>>
         \/ prev = [given EXCEPT ![t] = v] /\ Become(t, v, prev, links, queue)
  BY TaskAssumption DEF Insert, Ignore, Open, Pending, Created, TaskInv, OnlyCreated
<1>2. /\ prev \in [Tasks -> Tasks \cup {None}]
      /\ \/ prev[t] = None /\ nextList' = links /\ UNCHANGED <<paused, cancelled>>
         \/ prev[t] = v /\ Become(t, v, prev, links, queue)
      /\ prev[v] = IF q = None THEN previous[v] ELSE q
      /\ \A u \in Tasks : u # t /\ u # v => prev[u] = previous[u]
  <2>1. /\ given \in [Tasks -> Tasks \cup {None}] /\ given[t] = None
        /\ given[v] = IF q = None THEN previous[v] ELSE q
        /\ \A u \in Tasks : u # t /\ u # v => given[u] = previous[u]
    BY <1>1 DEF TaskInv, TypeOK, Created
  <2> HIDE DEF given, prev, links
  <2> QED
    BY <1>1, <2>1
<1>3. /\ links \in [Tasks -> Seq(Tasks)]
      /\ \A u \in Tasks : u # q => links[u] = nextList[u]
      /\ q \in Tasks =>
           /\ ToSet(links[q]) \subseteq (ToSet(nextList[q]) \ {t}) \cup {v}
           /\ ToSet(nextList[q]) \ {t} \subseteq ToSet(links[q])
           /\ t \in ToSet(nextList[q]) => v \in ToSet(links[q])
  BY <1>1, ReplacedLists DEF TaskInv
<1> HIDE DEF links, prev, given
<1>4. q # None => q \in Tasks /\ q \notin cancelled /\ (t \in ToSet(nextList[q]) \/ state[q] \in Settled)
  BY <1>1 DEF TaskInv, Waiting, Created
<1> DEFINE later == inserted \cup {v}
<1>5. \A u \in Tasks : u # t => prev[u] \in Created \cup {None}
  BY <1>1, <1>2 DEF TaskInv, OnlyCreated
<1>6. \A u \in Tasks : u # t /\ state[u] = "free" => prev[u] = None
  BY <1>1, <1>2 DEF TaskInv, OnlyCreated, Created
<1>7. \A u \in Tasks : ToSet(links[u]) \subseteq Created
  BY <1>1, <1>3 DEF TaskInv, OnlyCreated
<1>8. ASSUME NEW u \in Tasks, NEW x \in ToSet(links[u]) \ later
      PROVE  x # t /\ prev[x] = u
  <2>1. x \in ToSet(nextList[u]) /\ x \notin inserted /\ x # v /\ x \in Tasks
    BY <1>3, <1>7 DEF Created
  <2>2. previous[x] = u
    BY <2>1 DEF TaskInv, LinkedBack
  <2>3. x # t
    BY <1>3, <2>1, <2>2
  <2> QED BY <1>2, <2>1, <2>2, <2>3
<1>9. ASSUME NEW u \in Open, u # t, prev[u] # None
      PROVE  /\ prev[u] \notin cancelled
             /\ u \in ToSet(links[prev[u]]) \/ state[prev[u]] \in Settled
  <2>0. u \in Tasks
    BY DEF Open, Pending
  <2>1. CASE u = v /\ q # None
    BY <1>2, <1>3, <1>4, <2>1
  <2>2. CASE ~(u = v /\ q # None)
    <3>1. prev[u] = previous[u] /\ previous[u] \in Tasks
      BY <1>2, <1>9, <2>0, <2>2
    <3>2. /\ previous[u] \notin cancelled
          /\ u \in ToSet(nextList[previous[u]]) \/ state[previous[u]] \in Settled
      BY <1>9, <3>1 DEF TaskInv, Waiting
    <3> QED BY <1>3, <1>9, <3>1, <3>2
  <2> QED BY <2>1, <2>2
<1>10. ASSUME NEW x \in cancelled, NEW y \in ToSet(links[x])
       PROVE  y \in cancelled \/ state[y] \in Settled
  <2>1. x \in Tasks /\ x # q
    BY <1>1, <1>4 DEF TaskInv, TypeOK
  <2> QED BY <1>3, <2>1 DEF TaskInv, CancelledTogether
<1>11. ASSUME NEW x \in paused, NEW y \in ToSet(links[x]) \ later
       PROVE  y \in paused \/ state[y] \in Settled
  <2>1. x \in Tasks
    BY DEF TaskInv, TypeOK
  <2>2. y \in ToSet(nextList[x]) \ inserted
    BY <1>3, <2>1
  <2> QED BY <2>2 DEF TaskInv, PausedTogether
<1>12. inserted \subseteq inserted' /\ inserted' \subseteq Tasks /\ inserted' = later
  BY <1>1 DEF TaskInv, TypeOK
<1>13. /\ \A u \in Tasks : \A x \in ToSet(links[u]) \ inserted' : x # t /\ prev[x] = u
       /\ \A x \in paused : \A y \in ToSet(links[x]) \ inserted' : y \in paused \/ state[y] \in Settled
  BY <1>8, <1>11, <1>12
<1>14. \A u \in Open : u # t /\ prev[u] # None =>
         /\ prev[u] \notin cancelled
         /\ u \in ToSet(links[prev[u]]) \/ state[prev[u]] \in Settled
  BY <1>9
<1>15. \A x \in cancelled : \A y \in ToSet(links[x]) : y \in cancelled \/ state[y] \in Settled
  BY <1>10
<1>16. CASE prev[t] = None /\ nextList' = links /\ UNCHANGED <<paused, cancelled>>
  <2>0. previous' = prev
    BY DEF prev
  <2>1. Created' = Created /\ Open' = Open /\ previous' = prev
    BY <1>1, <1>16, <2>0 DEF Created, Open, Pending
  <2>2. TypeOK' /\ OnlyCreated'
    <3>1. TypeOK'
      BY <1>1, <1>2, <1>3, <1>12, <1>16, <2>1 DEF TaskInv, TypeOK
    <3>2. OnlyCreated'
      BY <1>1, <1>5, <1>6, <1>7, <1>16, <2>1 DEF TaskInv, OnlyCreated
    <3> QED BY <3>1, <3>2
  <2>3. Waiting'
    BY <1>1, <1>14, <1>16, <2>1 DEF Waiting
  <2>4. LinkedBack'
    BY <1>13, <1>16, <2>1 DEF LinkedBack
  <2>5. CancelledTogether' /\ PausedTogether'
    BY <1>1, <1>13, <1>15, <1>16 DEF CancelledTogether, PausedTogether
  <2> QED BY <2>2, <2>3, <2>4, <2>5 DEF TaskInv
<1>17. CASE prev[t] = v /\ Become(t, v, prev, links, queue)
  <2>1. /\ t \in Tasks /\ v \in Created /\ previous' = prev
        /\ \/ t \in Created /\ UNCHANGED state
           \/ state[t] = "free" /\ state' = [state EXCEPT ![t] = "pending"]
        /\ Become(t, v, prev, links, queue)
        /\ inserted \subseteq inserted' /\ inserted' \subseteq Tasks
    BY <1>1, <1>12, <1>17 DEF prev
  <2>2. Joinable(t, v, prev, links, inserted')
    BY <1>2, <1>3, <1>5, <1>6, <1>7, <1>13, <1>14, <1>15, <1>17 DEF Joinable
  <2> QED
    BY <2>1, <2>2, BecomeInv
<1> QED
  BY <1>2, <1>16, <1>17

-----------------------------------------------------------------------------
(***************************************************************************)
(* The steps.                                                              *)
(***************************************************************************)
LEMMA InitInv == Init => TaskInv
<1> SUFFICES ASSUME Init PROVE TaskInv
  OBVIOUS
<1>1. << >> \in Seq(Tasks) /\ ToSet(<< >>) = {}
  BY DEF ToSet
<1> QED
  BY <1>1, TaskAssumption DEF Init, TaskInv, TypeOK, OnlyCreated, Waiting, LinkedBack,
     CancelledTogether, PausedTogether, Created, Open, Pending

\* Whatever a settled task drags along is closed under the links, and was
\* created.
LEMMA DraggedClosed ==
  ASSUME TaskInv, NEW t \in Tasks
  PROVE  Closed(Dragged(t), Unsettled \ cancelled, previous, nextList) /\ Dragged(t) \subseteq Created
<1>1. CASE t \notin cancelled
  BY <1>1 DEF Dragged, Closed
<1>2. CASE t \in cancelled
  <2> DEFINE able == Unsettled \ cancelled
  <2>1. Dragged(t) = Spread(ToSet(nextList[t]), able, previous, nextList)
    BY <1>2 DEF Dragged, Cancelling
  <2>2. able \in SUBSET Tasks /\ Created \in SUBSET Tasks
    BY DEF Unsettled, Created
  <2>3. \A u \in Created : ToSet(nextList[u]) \subseteq Created /\ previous[u] \in Created \cup {None}
    BY <2>2 DEF TaskInv, OnlyCreated
  <2>4. ToSet(nextList[t]) \cap able \subseteq Created
    BY DEF TaskInv, OnlyCreated
  <2> HIDE DEF able
  <2>5. Dragged(t) \subseteq Created
    BY <2>1, <2>2, <2>3, <2>4, SpreadCreated
  <2>6. Closed(Dragged(t), able, previous, nextList)
    BY <2>1, SpreadClosed
  <2> QED BY <2>5, <2>6 DEF able
<1> QED BY <1>1, <1>2

\* A task settles, whoever let it.
LEMMA SettleInv ==
  ASSUME TaskInv, NEW t \in Tasks, NEW outcome \in Settled, NEW queue,
         Settle(t, outcome, queue), NoLink
  PROVE  TaskInv'
<1>1. /\ state' = [state EXCEPT ![t] = outcome]
      /\ UNCHANGED <<previous, nextList, inserted>> /\ paused' = paused \cup {}
  BY DEF Settle, NoLink
<1>2. /\ state' \in [Tasks -> {"free", "pending", "completed", "failed"}]
      /\ \A u \in Tasks : state'[u] = state[u] \/ state'[u] \in Settled
  BY <1>1 DEF TaskInv, TypeOK, Settled
<1>3. /\ Closed({}, Unsettled \ paused, previous, nextList)
      /\ Closed({}, Unsettled \ cancelled, previous, nextList)
      /\ {} \subseteq Created
  BY DEF Closed
<1> DEFINE C == IF cancelled' = cancelled \cup Dragged(t) THEN Dragged(t) ELSE {}
<1>4. /\ cancelled' = cancelled \cup C
      /\ Closed(C, Unsettled \ cancelled, previous, nextList) /\ C \subseteq Created
  BY <1>3, DraggedClosed DEF Settle
<1> HIDE DEF C
<1> QED BY <1>1, <1>2, <1>3, <1>4, QuietInv

\* Nothing of what TaskInv speaks of changes.
LEMMA StutterInv ==
  ASSUME TaskInv, UNCHANGED <<state, paused, cancelled, previous, nextList, inserted>>
  PROVE  TaskInv'
BY DEF TaskInv, TypeOK, OnlyCreated, Waiting, LinkedBack, CancelledTogether, PausedTogether,
   Created, Open, Pending

LEMMA CompletesInv ==
  ASSUME TaskInv, NEW t \in Open, NEW queue, Completes(t, queue)
  PROVE  TaskInv'
<1>0. t \in Tasks
  BY DEF Open, Pending
<1>1. CASE Settle(t, "completed", queue) /\ NoLink
  BY <1>0, <1>1, SettleInv DEF Settled
<1>2. CASE Settle(t, "failed", queue) /\ NoLink
  BY <1>0, <1>2, SettleInv DEF Settled
<1>3. CASE \E v \in Created \ {t} : Insert(t, v, queue)
  BY <1>3, InsertInv
<1>4. CASE Ignore(queue) /\ NoLink
  BY <1>4, StutterInv DEF Ignore, NoLink
<1> QED BY <1>1, <1>2, <1>3, <1>4 DEF Completes

LEMMA FailsInv ==
  ASSUME TaskInv, NEW t, NEW queue, Fails(t, queue), NoLink
  PROVE  TaskInv'
<1>1. CASE t \in Open /\ Settle(t, "failed", queue)
  BY <1>1, SettleInv DEF Settled, Open, Pending
<1>2. CASE Ignore(queue)
  BY <1>2, StutterInv DEF Ignore, NoLink
<1> QED BY <1>1, <1>2 DEF Fails

LEMMA NewTaskInv == ASSUME TaskInv, NEW t \in Tasks, NewTask(t) PROVE TaskInv'
<1>1. /\ state' \in [Tasks -> {"free", "pending", "completed", "failed"}]
      /\ \A u \in Tasks : \/ state'[u] = state[u] \/ state'[u] \in Settled
                          \/ state[u] = "free" /\ state'[u] = "pending"
      /\ UNCHANGED <<previous, nextList, inserted>>
      /\ cancelled' = cancelled \cup {} /\ paused' = paused \cup {}
  BY DEF NewTask, TaskInv, TypeOK
<1>2. Closed({}, Unsettled \ paused, previous, nextList) /\ Closed({}, Unsettled \ cancelled, previous, nextList)
  BY DEF Closed
<1> QED BY <1>1, <1>2, QuietInv

LEMMA ThenInv ==
  ASSUME TaskInv, NEW p \in Tasks, NEW c \in Tasks, NEW h, Then(p, c, h)
  PROVE  TaskInv'
<1> DEFINE prev == [previous EXCEPT ![c] = p]
<1>1. /\ p \in Created /\ state[c] = "free" /\ c \notin Created /\ p # c
      /\ state' = [state EXCEPT ![c] = "pending"] /\ previous' = prev /\ UNCHANGED inserted
      /\ Become(c, p, prev, nextList, immediates)
  BY DEF Then, Created
<1>2. /\ prev \in [Tasks -> Tasks \cup {None}] /\ nextList \in [Tasks -> Seq(Tasks)]
      /\ prev[c] = p /\ \A u \in Tasks : u # c => prev[u] = previous[u]
      /\ inserted \subseteq inserted' /\ inserted' \subseteq Tasks
  BY <1>1 DEF TaskInv, TypeOK
<1> HIDE DEF prev
<1>3. \A u \in Tasks : u # c => prev[u] \in Created \cup {None}
  BY <1>2 DEF TaskInv, OnlyCreated
<1>4. \A u \in Tasks : u # c /\ state[u] = "free" => prev[u] = None
  BY <1>2 DEF TaskInv, OnlyCreated
<1>5. \A u \in Tasks : ToSet(nextList[u]) \subseteq Created
  BY DEF TaskInv, OnlyCreated
<1>6. \A u \in Tasks : \A x \in ToSet(nextList[u]) \ inserted' : x # c /\ prev[x] = u
  BY <1>1, <1>2, <1>5 DEF TaskInv, LinkedBack, Created
<1>7. \A u \in Open : u # c /\ prev[u] # None =>
        /\ prev[u] \notin cancelled
        /\ u \in ToSet(nextList[prev[u]]) \/ state[prev[u]] \in Settled
  BY <1>2 DEF TaskInv, Waiting, Open, Pending
<1>8. \A x \in cancelled : \A y \in ToSet(nextList[x]) : y \in cancelled \/ state[y] \in Settled
  BY DEF TaskInv, CancelledTogether
<1>9. \A x \in paused : \A y \in ToSet(nextList[x]) \ inserted' : y \in paused \/ state[y] \in Settled
  BY <1>1 DEF TaskInv, PausedTogether
<1> QED
  <2>1. \/ c \in Created /\ UNCHANGED state
        \/ state[c] = "free" /\ state' = [state EXCEPT ![c] = "pending"]
    BY <1>1
  <2>2. Joinable(c, p, prev, nextList, inserted')
    BY <1>2, <1>3, <1>4, <1>5, <1>6, <1>7, <1>8, <1>9 DEF Joinable
  <2> QED
    BY <1>1, <1>2, <2>1, <2>2, BecomeInv

LEMMA ChainInv ==
  ASSUME TaskInv, NEW p \in Tasks, NEW t \in Tasks, Chain(p, t)
  PROVE  TaskInv'
<1> DEFINE prev == [previous EXCEPT ![t] = p]
<1>1. /\ p \in Created /\ t \in Created /\ previous[t] = None
      /\ previous' = prev /\ UNCHANGED <<state, inserted>>
      /\ Become(t, p, prev, nextList, immediates)
  BY DEF Chain
<1>2. /\ prev \in [Tasks -> Tasks \cup {None}] /\ nextList \in [Tasks -> Seq(Tasks)]
      /\ prev[t] = p /\ \A u \in Tasks : u # t => prev[u] = previous[u]
      /\ inserted \subseteq inserted' /\ inserted' \subseteq Tasks
  BY <1>1 DEF TaskInv, TypeOK
<1> HIDE DEF prev
<1>3. \A u \in Tasks : u # t => prev[u] \in Created \cup {None}
  BY <1>2 DEF TaskInv, OnlyCreated
<1>4. \A u \in Tasks : u # t /\ state[u] = "free" => prev[u] = None
  BY <1>2 DEF TaskInv, OnlyCreated
<1>5. \A u \in Tasks : ToSet(nextList[u]) \subseteq Created
  BY DEF TaskInv, OnlyCreated
<1>6. \A u \in Tasks : \A x \in ToSet(nextList[u]) \ inserted' : x # t /\ prev[x] = u
  <2> SUFFICES ASSUME NEW u \in Tasks, NEW x \in ToSet(nextList[u]) \ inserted' PROVE x # t /\ prev[x] = u
    OBVIOUS
  <2>1. x \in Tasks /\ previous[x] = u
    BY <1>1, <1>5 DEF TaskInv, LinkedBack, Created
  <2> QED BY <1>1, <1>2, <2>1, TaskAssumption
<1>7. \A u \in Open : u # t /\ prev[u] # None =>
        /\ prev[u] \notin cancelled
        /\ u \in ToSet(nextList[prev[u]]) \/ state[prev[u]] \in Settled
  BY <1>2 DEF TaskInv, Waiting, Open, Pending
<1>8. \A x \in cancelled : \A y \in ToSet(nextList[x]) : y \in cancelled \/ state[y] \in Settled
  BY DEF TaskInv, CancelledTogether
<1>9. \A x \in paused : \A y \in ToSet(nextList[x]) \ inserted' : y \in paused \/ state[y] \in Settled
  BY <1>1 DEF TaskInv, PausedTogether
<1> QED
  <2>1. Joinable(t, p, prev, nextList, inserted')
    BY <1>2, <1>3, <1>4, <1>5, <1>6, <1>7, <1>8, <1>9 DEF Joinable
  <2> QED
    BY <1>1, <1>2, <2>1, BecomeInv

LEMMA PauseInv == ASSUME TaskInv, NEW t \in Tasks, Pause(t) PROVE TaskInv'
<1> DEFINE able == Unsettled \ paused
           P == Pausing({t}, previous, nextList)
<1>1. /\ able \in SUBSET Tasks /\ Created \in SUBSET Tasks /\ {t} \cap able \subseteq Created
      /\ \A u \in Created : ToSet(nextList[u]) \subseteq Created /\ previous[u] \in Created \cup {None}
  BY DEF Unsettled, Created, TaskInv, OnlyCreated, Pause, Pending
<1>2. P = Spread({t}, able, previous, nextList)
  BY DEF Pausing
<1> HIDE DEF able, P
<1>3. P \subseteq Created /\ Closed(P, able, previous, nextList)
  BY <1>1, <1>2, SpreadCreated, SpreadClosed
<1>4. /\ state' \in [Tasks -> {"free", "pending", "completed", "failed"}]
      /\ UNCHANGED <<state, previous, nextList, inserted>>
      /\ cancelled' = cancelled \cup {} /\ paused' = paused \cup P
  BY DEF Pause, P, TaskInv, TypeOK
<1>5. Closed({}, Unsettled \ cancelled, previous, nextList)
  BY DEF Closed
<1> QED BY <1>3, <1>4, <1>5, QuietInv DEF able

LEMMA CancelInv == ASSUME TaskInv, NEW t \in Tasks, Cancel(t) PROVE TaskInv'
<1> DEFINE able == Unsettled \ cancelled
           C == Cancelling({t}, previous, nextList)
<1>1. /\ able \in SUBSET Tasks /\ Created \in SUBSET Tasks /\ {t} \cap able \subseteq Created
      /\ \A u \in Created : ToSet(nextList[u]) \subseteq Created /\ previous[u] \in Created \cup {None}
  BY DEF Unsettled, Created, TaskInv, OnlyCreated, Cancel, Pending, Open
<1>2. C = Spread({t}, able, previous, nextList)
  BY DEF Cancelling
<1> HIDE DEF able, C
<1>3. C \subseteq Created /\ Closed(C, able, previous, nextList)
  BY <1>1, <1>2, SpreadCreated, SpreadClosed
<1>4. /\ state' \in [Tasks -> {"free", "pending", "completed", "failed"}]
      /\ UNCHANGED <<state, previous, nextList, inserted>>
      /\ cancelled' = cancelled \cup C /\ paused' = paused \cup {}
  BY DEF Cancel, C, TaskInv, TypeOK
<1>5. Closed({}, Unsettled \ paused, previous, nextList)
  BY DEF Closed
<1> QED BY <1>3, <1>4, <1>5, QuietInv DEF able

\* What resume does: `reached' resume, with the task before each, and `heard' of
\* those that had settled are done with; the others are not heard.
ResumeOf(t, reached, heard) ==
  /\ reached \subseteq Resuming({t})
  /\ \A x \in reached : previous[x] \in Resuming({t}) => previous[x] \in reached
  /\ heard \subseteq {u \in reached : state[u] \in Settled}
  /\ paused' = paused \ reached
  /\ CleanLate(heard)
  /\ unheard' = unheard \cup ({u \in reached : state[u] \in Settled} \ heard)

LEMMA ResumeReaches ==
  ASSUME NEW t, Resume(t)
  PROVE  \E reached, heard : ResumeOf(t, reached, heard)
<1> DEFINE all  == Resuming({t})
           late == {u \in all : state[u] \in Settled}
           over == {u \in late : Overflows(u, state[u])}
<1>1. CASE paused' = paused \ all /\ CleanLate(late) /\ UNCHANGED unheard
  <2>1. ResumeOf(t, all, late)
    BY <1>1 DEF ResumeOf
  <2> QED BY <2>1
<1>2. ASSUME NEW reached \in SUBSET all, NEW heard \in SUBSET (late \ over), heard \subseteq reached,
             \A x \in reached : previous[x] \in all => previous[x] \in reached,
             paused' = paused \ reached, CleanLate(heard),
             unheard' = unheard \cup ((late \cap reached) \ heard)
      PROVE  \E r, h : ResumeOf(t, r, h)
  <2>1. late \cap reached = {u \in reached : state[u] \in Settled}
    OBVIOUS
  <2>2. ResumeOf(t, reached, heard)
    BY <1>2, <2>1 DEF ResumeOf
  <2> QED BY <2>2
<1> QED BY <1>1, <1>2 DEF Resume

LEMMA ResumeInv == ASSUME TaskInv, NEW t \in Tasks, Resume(t) PROVE TaskInv'
<1>0. PICK reached, heard : ResumeOf(t, reached, heard)
  BY ResumeReaches
<1> DEFINE P == Resuming({t})
           C == UNION {Dragged(u) : u \in heard}
<1>1. Closed(P, paused, previous, nextList) /\ {t} \cap paused \subseteq P
  BY SpreadClosed DEF Resuming
<1>2. reached \subseteq paused /\ \A x \in reached : previous[x] \in paused => previous[x] \in reached
  <2>1. \A x \in P : previous[x] \in paused => previous[x] \in P
    BY <1>1, TaskAssumption DEF Closed, Linked, TaskInv, TypeOK
  <2>2. reached \subseteq P /\ \A x \in reached : previous[x] \in P => previous[x] \in reached
    BY <1>0 DEF ResumeOf
  <2> HIDE DEF P
  <2> QED BY <1>1, <2>1, <2>2 DEF Closed
<1>3. /\ state' \in [Tasks -> {"free", "pending", "completed", "failed"}]
      /\ UNCHANGED <<state, previous, nextList, inserted>>
      /\ cancelled' = cancelled \cup C /\ paused' = paused \ reached
  BY <1>0 DEF Resume, ResumeOf, CleanLate, TaskInv, TypeOK
<1>6. heard \subseteq Tasks
  BY <1>0, <1>2 DEF ResumeOf, TaskInv, TypeOK
<1>4. \A u \in heard : Closed(Dragged(u), Unsettled \ cancelled, previous, nextList) /\ Dragged(u) \subseteq Created
  BY <1>6, DraggedClosed
<1>5. Closed(C, Unsettled \ cancelled, previous, nextList) /\ C \subseteq Created
  BY <1>4 DEF Closed
<1> HIDE DEF C
<1> QED BY <1>2, <1>3, <1>5, QuietInv

LEMMA AdoptInv == ASSUME TaskInv, AdoptState PROVE TaskInv'
<1> DEFINE c == Head(immediates)[1]
           q == Tail(immediates)
<1>1. CASE AdoptCompletion(c, q)
  <2>1. CASE c \in Open /\ Completes(c, q)
    BY <2>1, CompletesInv
  <2>2. CASE Ignore(q) /\ NoLink
    BY <2>2, StutterInv DEF Ignore, NoLink
  <2> QED BY <1>1, <2>1, <2>2 DEF AdoptCompletion
<1>2. CASE AdoptFailure(c, q)
  BY <1>2, FailsInv DEF AdoptFailure
<1>3. CASE AdoptValue(c, q)
  <2>1. CASE c \in Open /\ Settle(c, "completed", q) /\ NoLink
    BY <2>1, SettleInv DEF Settled, Open, Pending
  <2>2. CASE Ignore(q) /\ NoLink
    BY <2>2, StutterInv DEF Ignore, NoLink
  <2> QED BY <1>3, <2>1, <2>2 DEF AdoptValue
<1> QED BY <1>1, <1>2, <1>3 DEF AdoptState

LEMMA StepInv == TaskInv /\ [Next]_vars => TaskInv'
<1> SUFFICES ASSUME TaskInv, [Next]_vars PROVE TaskInv'
  OBVIOUS
<1>1. CASE \E t \in Tasks : NewTask(t)
  BY <1>1, NewTaskInv
<1>2. CASE \E p, c \in Tasks, h \in Transformers : Then(p, c, h)
  BY <1>2, ThenInv
<1>3. CASE \E p, t \in Tasks : Chain(p, t)
  BY <1>3, ChainInv
<1>4. CASE \E t \in Tasks : Complete(t)
  BY <1>4, CompletesInv DEF Complete
<1>5. CASE \E t \in Tasks : Fail(t)
  BY <1>5, FailsInv DEF Fail
<1>6. CASE \E t \in Tasks : ThenableFulfils(t)
  BY <1>6, SettleInv DEF ThenableFulfils, Settled
<1>7. CASE \E t \in Tasks : ThenableRejects(t)
  BY <1>7, FailsInv DEF ThenableRejects
<1>8. CASE \E t \in Tasks : Pause(t)
  BY <1>8, PauseInv
<1>9. CASE \E t \in Tasks : Resume(t)
  BY <1>9, ResumeInv
<1>10. CASE \E t \in Tasks : Cancel(t)
  BY <1>10, CancelInv
<1>11. CASE AdoptState
  BY <1>11, AdoptInv
<1>12. CASE UNCHANGED vars
  BY <1>12, StutterInv DEF vars
<1> QED
  BY <1>1, <1>2, <1>3, <1>4, <1>5, <1>6, <1>7, <1>8, <1>9, <1>10, <1>11, <1>12 DEF Next, Step

\* Whoever waits for a cancelled or a paused task is so too, however the tasks
\* were chained, joined and completed with one another (cancel, pause, resume,
\* become and insert of task.js).
THEOREM SharedFateHolds == Spec => []SharedFate
<1>1. TaskInv => SharedFate
  BY DEF TaskInv, SharedFate
<1> QED BY <1>1, InitInv, StepInv, PTL DEF Spec

-----------------------------------------------------------------------------
(***************************************************************************)
(* Outcomes.                                                               *)
(***************************************************************************)
\* What a step does to the state of the tasks.
Careful ==
  \A t \in Tasks : state'[t] = state[t] \/ state[t] = "free" \/ t \in Open \/ t \in awaiting

LEMMA SettleCareful ==
  ASSUME TaskInv, NEW t \in Open \cup awaiting, NEW outcome, NEW queue, Settle(t, outcome, queue)
  PROVE  Careful
BY DEF Settle, Careful, TaskInv, TypeOK

LEMMA CompletesCareful ==
  ASSUME TaskInv, NEW t \in Open, NEW queue, Completes(t, queue)
  PROVE  Careful
<1>1. CASE \E outcome : Settle(t, outcome, queue)
  BY <1>1, SettleCareful
<1>2. CASE UNCHANGED state
  BY <1>2 DEF Careful
<1> QED BY <1>1, <1>2 DEF Completes, Insert, Ignore

LEMMA FailsCareful ==
  ASSUME TaskInv, NEW t, NEW queue, Fails(t, queue)
  PROVE  Careful
<1>1. CASE t \in Open /\ Settle(t, "failed", queue)
  BY <1>1, SettleCareful
<1>2. CASE UNCHANGED state
  BY <1>2 DEF Careful
<1> QED BY <1>1, <1>2 DEF Fails, Ignore

LEMMA StepCareful == TaskInv /\ [Next]_vars => Careful
<1> SUFFICES ASSUME TaskInv, [Next]_vars PROVE Careful
  OBVIOUS
<1>1. CASE \E t \in Tasks : NewTask(t)
  BY <1>1 DEF NewTask, Careful, TaskInv, TypeOK
<1>2. CASE \E p, c \in Tasks, h \in Transformers : Then(p, c, h)
  BY <1>2 DEF Then, Careful, TaskInv, TypeOK
<1>3. CASE UNCHANGED state
  BY <1>3 DEF Careful
<1>4. CASE \E t \in Tasks : Complete(t)
  BY <1>4, CompletesCareful DEF Complete
<1>5. CASE \E t \in Tasks : Fail(t)
  BY <1>5, FailsCareful DEF Fail
<1>6. CASE \E t \in Tasks : ThenableFulfils(t)
  BY <1>6, SettleCareful DEF ThenableFulfils
<1>7. CASE \E t \in Tasks : ThenableRejects(t)
  BY <1>7, FailsCareful DEF ThenableRejects
<1>8. CASE AdoptState
  <2> DEFINE c == Head(immediates)[1]
             q == Tail(immediates)
  <2>1. CASE AdoptCompletion(c, q)
    BY <1>3, <2>1, CompletesCareful DEF AdoptCompletion, Ignore
  <2>2. CASE AdoptFailure(c, q)
    BY <2>2, FailsCareful DEF AdoptFailure
  <2>3. CASE AdoptValue(c, q)
    BY <1>3, <2>3, SettleCareful DEF AdoptValue, Ignore
  <2> QED BY <1>8, <2>1, <2>2, <2>3 DEF AdoptState
<1> QED
  BY <1>1, <1>2, <1>3, <1>4, <1>5, <1>6, <1>7, <1>8
     DEF Next, Step, vars, Chain, Pause, Resume, Cancel

\* Neither a cancelled nor a settled task changes, but for what a thenable that
\* was waited for answers late (complete, fail and adoptState of task.js).
THEOREM OutcomesAreFinal == Spec => OutcomesFinal
<1> DEFINE Cancelled == \A t \in cancelled : t \in awaiting \/ state'[t] = state[t]
           Done == \A t \in Tasks : state[t] \in Settled => t \in awaiting \/ state'[t] = state[t]
<1>1. TaskInv /\ [Next]_vars => [Cancelled]_vars
  BY StepCareful DEF Careful, TaskInv, OnlyCreated, Created, Open
<1>2. TaskInv /\ [Next]_vars => [Done]_vars
  BY StepCareful DEF Careful, Open, Pending, Settled
<1>3. Spec => [][Cancelled]_vars /\ [][Done]_vars
  BY <1>1, <1>2, InitInv, StepInv, PTL DEF Spec
<1> QED BY <1>3 DEF OutcomesFinal, CancelledIsFinal, SettledIsFinal

-----------------------------------------------------------------------------
(***************************************************************************)
(* Lists of lists.                                                         *)
(***************************************************************************)
\* A non-empty set of naturals has a least one.
LEMMA LeastNat ==
  ASSUME NEW S \in SUBSET Nat, S # {}
  PROVE  \E x \in S : \A y \in S : x <= y
<1>1. PICK x \in S : \A y \in S : ~ (<<y, x>> \in OpToRel(<, Nat))
  BY NatLessThanWellFounded, WFMin
<1>2. \A y \in S : ~ (y < x)
  BY <1>1 DEF OpToRel
<1> QED
  BY <1>2

\* f joins the first k lists of F, one after another.
Flattens(f, F, k) == \A i \in 1..k : f[i] = IF i = 1 THEN F[i] ELSE f[i - 1] \o F[i]

LEMMA FlattensExists ==
  ASSUME NEW S, NEW F \in Seq(Seq(S)), NEW n \in 1..Len(F)
  PROVE  \E f \in [1..n -> Seq(S)] : Flattens(f, F, n)
<1> DEFINE Has(k) == \E f \in [1..k -> Seq(S)] : Flattens(f, F, k)
           bad == {k \in 1..Len(F) : ~Has(k)}
<1>1. Len(F) \in Nat /\ \A i \in 1..Len(F) : F[i] \in Seq(S)
  BY LenProperties
<1>2. SUFFICES bad = {}
  BY <1>2
<1>3. SUFFICES ASSUME bad # {} PROVE FALSE
  OBVIOUS
<1>4. bad \in SUBSET Nat
  BY <1>1
<1>5. PICK k \in bad : \A y \in bad : k <= y
  <2> HIDE DEF bad
  <2> QED
    BY <1>3, <1>4, LeastNat
<1>6. k \in 1..Len(F) /\ ~Has(k)
  OBVIOUS
<1> HIDE DEF bad
<1>7. CASE k = 1
  <2> DEFINE f == [i \in 1..1 |-> F[1]]
  <2>1. f \in [1..1 -> Seq(S)] /\ Flattens(f, F, 1)
    BY <1>1, <1>6, <1>7 DEF Flattens
  <2> HIDE DEF f
  <2> QED
    BY <1>6, <1>7, <2>1
<1>8. CASE k # 1
  <2>1. k - 1 \in 1..Len(F) /\ k \in Nat
    BY <1>1, <1>6, <1>8
  <2>2. Has(k - 1)
    <3>1. ~(k <= k - 1)
      BY <2>1
    <3>2. k - 1 \notin bad
      BY <1>5, <3>1
    <3> QED
      BY <2>1, <3>2 DEF bad
  <2>3. PICK g \in [1..(k - 1) -> Seq(S)] : Flattens(g, F, k - 1)
    BY <2>2
  <2> DEFINE f == [i \in 1..k |-> IF i = k THEN g[k - 1] \o F[k] ELSE g[i]]
  <2>4. g[k - 1] \in Seq(S) /\ F[k] \in Seq(S)
    BY <1>1, <1>6, <1>8, <2>1
  <2>5. g[k - 1] \o F[k] \in Seq(S)
    BY <2>4, ConcatProperties
  <2>6. f \in [1..k -> Seq(S)]
    BY <2>1, <2>5
  <2>7. Flattens(f, F, k)
    <3> SUFFICES ASSUME NEW i \in 1..k PROVE f[i] = IF i = 1 THEN F[i] ELSE f[i - 1] \o F[i]
      BY DEF Flattens
    <3>1. CASE i = k
      <4>1. k \in 1..k /\ k - 1 \in 1..k /\ k - 1 # k
        BY <2>1
      <4>2. f[k] = g[k - 1] \o F[k] /\ f[k - 1] = g[k - 1]
        BY <4>1
      <4> QED
        BY <1>8, <3>1, <4>1, <4>2
    <3>2. CASE i # k
      <4>1. i \in 1..(k - 1)
        BY <2>1, <3>2
      <4>2. g[i] = IF i = 1 THEN F[i] ELSE g[i - 1] \o F[i]
        BY <2>3, <4>1 DEF Flattens
      <4>3. f[i] = g[i] /\ (i # 1 => f[i - 1] = g[i - 1])
        BY <2>1, <3>2, <4>1
      <4> QED
        BY <4>2, <4>3
    <3> QED
      BY <3>1, <3>2
  <2> HIDE DEF f
  <2> QED
    BY <1>6, <2>6, <2>7
<1> QED
  BY <1>7, <1>8

\* FlattenSeq of the community modules holds what the lists hold.
LEMMA FlattenHolds ==
  ASSUME NEW S, NEW F \in Seq(Seq(S))
  PROVE  /\ FlattenSeq(F) \in Seq(S)
         /\ \A i \in 1..Len(F) : \A j \in 1..Len(F[i]) :
              \E l \in 1..Len(FlattenSeq(F)) : FlattenSeq(F)[l] = F[i][j]
<1>1. Len(F) \in Nat /\ \A i \in 1..Len(F) : F[i] \in Seq(S)
  BY LenProperties
<1>2. CASE Len(F) = 0
  <2>1. FlattenSeq(F) = F /\ F = << >>
    BY <1>2 DEF FlattenSeq
  <2> QED
    BY <1>2, <2>1
<1>3. CASE Len(F) # 0
  <2> DEFINE n == Len(F)
             Def(f) == f = [i \in 1..n |-> IF i = 1 THEN F[i] ELSE f[i - 1] \o F[i]]
             f == CHOOSE f : Def(f)
  <2>1. FlattenSeq(F) = f[n]
    BY <1>3 DEF FlattenSeq
  <2>2. PICK g \in [1..n -> Seq(S)] : Flattens(g, F, n)
    BY <1>1, <1>3, FlattensExists
  <2>3. Def(g)
    BY <2>2 DEF Flattens
  <2>4. Def(f)
    <3> HIDE DEF Def
    <3> QED
      BY <2>3
  <2> HIDE DEF f
  <2>5. /\ \A i \in 1..n : f[i] = IF i = 1 THEN F[i] ELSE f[i - 1] \o F[i]
    BY <2>4
  <2> HIDE DEF Def
  <2> DEFINE Good(k) == /\ f[k] \in Seq(S)
                        /\ \A i \in 1..k : \A j \in 1..Len(F[i]) :
                             \E l \in 1..Len(f[k]) : f[k][l] = F[i][j]
             bad == {k \in 1..n : ~Good(k)}
  <2>6. bad = {}
    <3> SUFFICES ASSUME bad # {} PROVE FALSE
      OBVIOUS
    <3>1. bad \in SUBSET Nat
      BY <1>1
    <3>2. PICK k \in bad : \A y \in bad : k <= y
      <4> HIDE DEF bad
      <4> QED
        BY <3>1, LeastNat
    <3>3. k \in 1..n /\ ~Good(k) /\ k \in Nat
      BY <1>1
    <3>4. CASE k = 1
      <4>1. f[1] = F[1] /\ F[1] \in Seq(S)
        BY <1>1, <2>5, <3>3, <3>4
      <4>2. \A i \in 1..1 : i = 1
        OBVIOUS
      <4>3. Good(1)
        BY <4>1, <4>2
      <4> QED
        BY <3>3, <3>4, <4>3
    <3>5. CASE k # 1
      <4>1. k - 1 \in 1..n
        BY <1>1, <3>3, <3>5
      <4>2. Good(k - 1)
        <5>1. ~(k <= k - 1)
          BY <3>3
        <5>2. k - 1 \notin bad
          BY <3>2, <5>1
        <5> QED
          BY <4>1, <5>2
      <4>3. f[k] = f[k - 1] \o F[k] /\ f[k - 1] \in Seq(S) /\ F[k] \in Seq(S)
        BY <1>1, <2>5, <3>3, <3>5, <4>2
      <4> DEFINE a == f[k - 1]
                 b == F[k]
      <4>4. /\ a \o b \in Seq(S) /\ Len(a \o b) = Len(a) + Len(b)
            /\ \A l \in 1..(Len(a) + Len(b)) : (a \o b)[l] = IF l <= Len(a) THEN a[l] ELSE b[l - Len(a)]
            /\ Len(a) \in Nat /\ Len(b) \in Nat
        BY <4>3, ConcatProperties, LenProperties
      <4>5. ASSUME NEW i \in 1..k, NEW j \in 1..Len(F[i])
            PROVE \E l \in 1..Len(a \o b) : (a \o b)[l] = F[i][j]
        <5>1. CASE i = k
          <6> HIDE DEF a
          <6>1. j + Len(a) \in 1..Len(a \o b) /\ ~(j + Len(a) <= Len(a)) /\ (j + Len(a)) - Len(a) = j
            BY <4>4, <5>1
          <6>2. (a \o b)[j + Len(a)] = b[j]
            BY <4>4, <6>1
          <6> QED
            BY <5>1, <6>1, <6>2
        <5>2. CASE i # k
          <6>1. i \in 1..(k - 1)
            BY <3>3, <5>2
          <6>2. PICK l \in 1..Len(a) : a[l] = F[i][j]
            BY <4>2, <6>1
          <6> HIDE DEF a, b
          <6>3. l \in 1..Len(a \o b) /\ (a \o b)[l] = a[l]
            BY <4>4
          <6> QED
            BY <6>2, <6>3
        <5> QED
          BY <5>1, <5>2
      <4>6. f[k] = a \o b
        BY <4>3
      <4> HIDE DEF a, b
      <4>7. f[k] \in Seq(S)
        BY <4>4, <4>6
      <4>8. ASSUME NEW i \in 1..k, NEW j \in 1..Len(F[i])
            PROVE \E l \in 1..Len(f[k]) : f[k][l] = F[i][j]
        <5>1. PICK l \in 1..Len(a \o b) : (a \o b)[l] = F[i][j]
          BY <4>5
        <5> QED
          BY ONLY <4>6, <5>1
      <4>9. Good(k)
        BY <4>7, <4>8
      <4> QED
        <5> HIDE DEF Good
        <5> QED
          BY <3>3, <4>9
    <3> QED
      BY <3>4, <3>5
  <2>7. Good(n)
    <3>1. n \in 1..n
      BY <1>1, <1>3
    <3> HIDE DEF Good
    <3> QED
      BY <2>6, <3>1
  <2> QED
    BY <2>1, <2>7
<1> QED
  BY <1>2, <1>3

-----------------------------------------------------------------------------
(***************************************************************************)
(* Chains end.                                                             *)
(***************************************************************************)
Acyclic(links) == \A t \in Tasks : t \notin After(t, links)

\* After is the least set that holds the list of t and those of its tasks.
LEMMA AfterBasics ==
  ASSUME NEW links \in [Tasks -> Seq(Tasks)], NEW t \in Tasks
  PROVE  /\ After(t, links) \subseteq Tasks
         /\ ToSet(links[t]) \subseteq After(t, links)
         /\ \A x \in After(t, links) : ToSet(links[x]) \subseteq After(t, links)
         /\ \A S \in SUBSET Tasks :
              ToSet(links[t]) \subseteq S /\ (\A x \in S : ToSet(links[x]) \subseteq S)
                => After(t, links) \subseteq S
<1>1. \A x \in Tasks : ToSet(links[x]) \subseteq Tasks
  BY ToSetIn
<1> QED
  BY <1>1 DEF After

LEMMA AfterTransitive ==
  ASSUME NEW links \in [Tasks -> Seq(Tasks)], NEW t \in Tasks, NEW x \in After(t, links)
  PROVE  After(x, links) \subseteq After(t, links)
<1>1. After(t, links) \in SUBSET Tasks /\ x \in Tasks
  BY AfterBasics
<1> QED
  BY <1>1, AfterBasics

\* A link from p to c makes no loop unless p is after c.
LEMMA LinkAdded ==
  ASSUME NEW links \in [Tasks -> Seq(Tasks)], Acyclic(links),
         NEW p \in Tasks, NEW c \in Tasks, p # c, p \notin After(c, links)
  PROVE  Acyclic([links EXCEPT ![p] = Append(@, c)])
<1> DEFINE new == [links EXCEPT ![p] = Append(@, c)]
<1>1. /\ new \in [Tasks -> Seq(Tasks)]
      /\ ToSet(new[p]) = ToSet(links[p]) \cup {c}
      /\ \A u \in Tasks : u # p => new[u] = links[u]
  BY ToSetAppend
<1> HIDE DEF new
<1>2. SUFFICES ASSUME NEW x \in Tasks, x \in After(x, new) PROVE FALSE
  BY DEF Acyclic, new
<1> DEFINE more == IF p \in After(x, links) \cup {x} THEN {c} \cup After(c, links) ELSE {}
           S == After(x, links) \cup more
<1>3. S \in SUBSET Tasks
  BY AfterBasics
<1>4. ToSet(new[x]) \subseteq S
  BY <1>1, AfterBasics
<1>5. ASSUME NEW y \in S PROVE ToSet(new[y]) \subseteq S
  <2>1. y \in Tasks
    BY <1>3
  <2>2. CASE y \in After(x, links)
    BY <1>1, <2>1, <2>2, AfterBasics
  <2>3. CASE y \in more
    <3>1. y = c \/ y \in After(c, links)
      BY <2>3
    <3>2. y # p
      BY <3>1
    <3>3. ToSet(links[y]) \subseteq After(c, links)
      BY <3>1, AfterBasics
    <3> QED
      BY <1>1, <2>1, <2>3, <3>2, <3>3
  <2> QED
    BY <2>2, <2>3
<1>6. x \in S
  <2> HIDE DEF S
  <2> QED
    BY <1>1, <1>2, <1>3, <1>4, <1>5, AfterBasics
<1>7. p \in After(x, links) \cup {x} /\ x \in {c} \cup After(c, links)
  BY <1>6 DEF Acyclic
<1> QED
  BY <1>7, AfterTransitive

\* Links to v alone make no loop that v is not on.
LEMMA LinksReplaced ==
  ASSUME NEW links \in [Tasks -> Seq(Tasks)], Acyclic(links), NEW v \in Tasks,
         NEW new \in [Tasks -> Seq(Tasks)], v \notin After(v, new),
         \A u \in Tasks : ToSet(new[u]) \subseteq ToSet(links[u]) \cup {v}
  PROVE  Acyclic(new)
<1>1. SUFFICES ASSUME NEW x \in Tasks, x \in After(x, new) PROVE FALSE
  BY DEF Acyclic
<1>2. v \in After(x, new)
  <2> SUFFICES ASSUME v \notin After(x, new) PROVE FALSE
    OBVIOUS
  <2> DEFINE S == After(x, new) \cap After(x, links)
  <2>1. S \in SUBSET Tasks
    BY AfterBasics
  <2>2. ASSUME NEW y \in Tasks, NEW u \in ToSet(new[y]), ToSet(new[y]) \subseteq After(x, new)
        PROVE  u \in ToSet(links[y])
    BY <2>2
  <2>3. ToSet(new[x]) \subseteq S
    <3>1. ToSet(new[x]) \subseteq After(x, new) /\ ToSet(links[x]) \subseteq After(x, links)
      BY AfterBasics
    <3> QED
      BY <2>2, <3>1
  <2>5. ASSUME NEW y \in S PROVE ToSet(new[y]) \subseteq S
    <3>1. /\ y \in Tasks /\ ToSet(new[y]) \subseteq After(x, new)
          /\ ToSet(links[y]) \subseteq After(x, links)
      BY <2>1, AfterBasics
    <3> QED
      BY <2>2, <3>1
  <2>4. After(x, new) \subseteq S
    <3> HIDE DEF S
    <3> QED
      BY <2>1, <2>3, <2>5, AfterBasics
  <2> QED
    BY <1>1, <2>4 DEF Acyclic
<1>3. x \in After(v, new)
  <2> DEFINE S == After(x, links) \cup {v} \cup After(v, new)
  <2>1. S \in SUBSET Tasks
    BY AfterBasics
  <2>2. ToSet(new[x]) \subseteq S
    BY AfterBasics
  <2>3. ASSUME NEW y \in S PROVE ToSet(new[y]) \subseteq S
    <3>1. CASE y \in After(x, links)
      <4>1. y \in Tasks /\ ToSet(links[y]) \subseteq After(x, links)
        BY <2>1, <3>1, AfterBasics
      <4> QED
        BY <4>1
    <3>2. CASE y \in {v} \cup After(v, new)
      BY <3>2, AfterBasics
    <3> QED
      BY <3>1, <3>2
  <2>4. x \in S
    <3> HIDE DEF S
    <3> QED
      BY <1>1, <2>1, <2>2, <2>3, AfterBasics
  <2>5. x # v
    BY <1>1
  <2> QED
    BY <2>4, <2>5 DEF Acyclic
<1>4. v \in After(v, new)
  BY <1>2, <1>3, AfterTransitive
<1> QED
  BY <1>4

-----------------------------------------------------------------------------
(***************************************************************************)
(* Nobody is left behind.                                                  *)
(***************************************************************************)
\* What is in the queue of setImmediate, and the tasks that are there or were
\* never linked.
QueueOK ==
  /\ immediates \in Seq(Tasks \X Tasks)
  /\ IsFiniteSet(Created)
  /\ \A t \in Tasks : state[t] = "free" => nextList[t] = << >>

LostInv == TaskInv /\ QueueOK /\ NoLoop /\ NobodyLeft

\* Without a loop nothing overflows.
LEMMA NoOverflow ==
  ASSUME LostInv, ~knotted, NEW t \in Tasks, NEW outcome
  PROVE  ~Overflows(t, outcome)
<1>1. nextList \in [Tasks -> Seq(Tasks)] /\ \A u \in Tasks : u \notin After(u, nextList)
  BY DEF LostInv, TaskInv, TypeOK, NoLoop
<1>2. After(t, nextList) \subseteq Tasks
  BY <1>1, AfterBasics
<1> QED
  BY <1>1, <1>2 DEF Overflows, Endless

\* The queue while the task t is dealt with.
QueueOf(t, queue) ==
  /\ queue \in Seq(Tasks \X Tasks)
  /\ \A x \in ToSet(immediates) : x[1] = t \/ x \in ToSet(queue)

LEMMA QueueJoins ==
  ASSUME NEW q \in Seq(Tasks \X Tasks), NEW r \in Seq(Tasks \X Tasks)
  PROVE  /\ q \o r \in Seq(Tasks \X Tasks)
         /\ ToSet(q \o r) = ToSet(q) \cup ToSet(r)
<1> DEFINE s == q \o r
<1>1. /\ s \in Seq(Tasks \X Tasks) /\ Len(s) = Len(q) + Len(r)
      /\ \A i \in 1..(Len(q) + Len(r)) : s[i] = IF i <= Len(q) THEN q[i] ELSE r[i - Len(q)]
      /\ Len(q) \in Nat /\ Len(r) \in Nat
      /\ DOMAIN s = 1..Len(s) /\ DOMAIN q = 1..Len(q) /\ DOMAIN r = 1..Len(r)
  BY ConcatProperties, LenProperties
<1> HIDE DEF s
<1>2. ToSet(s) \subseteq ToSet(q) \cup ToSet(r)
  <2> SUFFICES ASSUME NEW i \in 1..Len(s) PROVE s[i] \in ToSet(q) \cup ToSet(r)
    BY <1>1 DEF ToSet
  <2>1. CASE i <= Len(q)
    <3>1. i \in 1..Len(q) /\ s[i] = q[i]
      BY <1>1, <2>1
    <3> QED
      BY <1>1, <3>1 DEF ToSet
  <2>2. CASE ~(i <= Len(q))
    <3>1. i - Len(q) \in 1..Len(r) /\ s[i] = r[i - Len(q)]
      BY <1>1, <2>2
    <3> QED
      BY <1>1, <3>1 DEF ToSet
  <2> QED
    BY <2>1, <2>2
<1>3. ASSUME NEW i \in 1..Len(q) PROVE q[i] \in ToSet(s)
  <2>1. i \in 1..Len(s) /\ s[i] = q[i]
    BY <1>1
  <2> QED
    BY <1>1, <2>1 DEF ToSet
<1>4. ASSUME NEW i \in 1..Len(r) PROVE r[i] \in ToSet(s)
  <2>1. i + Len(q) \in 1..Len(s) /\ ~(i + Len(q) <= Len(q)) /\ (i + Len(q)) - Len(q) = i
    BY <1>1
  <2>2. s[i + Len(q)] = r[i]
    BY <1>1, <2>1
  <2> QED
    BY <1>1, <2>1, <2>2 DEF ToSet
<1> QED
  BY <1>1, <1>2, <1>3, <1>4 DEF s, ToSet

\* Those that become a settled task.
LEMMA BecomingList ==
  ASSUME TypeOK, NEW t \in Tasks
  PROVE  /\ Becoming(t) \in Seq(Tasks \X Tasks)
         /\ t \notin cancelled => \A c \in ToSet(nextList[t]) : <<c, t>> \in ToSet(Becoming(t))
<1> DEFINE s == nextList[t]
           r == [i \in 1..Len(s) |-> <<s[i], t>>]
<1>1. s \in Seq(Tasks) /\ Len(s) \in Nat /\ DOMAIN s = 1..Len(s) /\ \A i \in 1..Len(s) : s[i] \in Tasks
  BY LenProperties DEF TypeOK
<1> HIDE DEF s
<1>2. r \in Seq(Tasks \X Tasks) /\ DOMAIN r = 1..Len(s)
  BY <1>1
<1>3. \A i \in 1..Len(s) : r[i] = <<s[i], t>>
  OBVIOUS
<1>4. Becoming(t) = IF t \in cancelled THEN << >> ELSE r
  BY DEF Becoming, s
<1> HIDE DEF r
<1>5. \A c \in ToSet(s) : <<c, t>> \in ToSet(r)
  BY <1>1, <1>2, <1>3 DEF ToSet
<1> QED
  BY <1>2, <1>4, <1>5 DEF s

\* One task more is as finite.
LEMMA OneMore ==
  ASSUME IsFiniteSet(Created), NEW t, Created' \subseteq Created \cup {t}
  PROVE  IsFiniteSet(Created')
BY FS_AddElement, FS_Subset

\* A task settles: those in its list are told, or waits for it to resume.
LEMMA SettleLost ==
  ASSUME LostInv, NEW t \in Tasks, NEW outcome \in Settled, NEW queue, QueueOf(t, queue),
         Settle(t, outcome, queue), NoLink, awaiting \ {t} \subseteq awaiting'
  PROVE  LostInv'
<1>1. /\ state' = [state EXCEPT ![t] = outcome]
      /\ UNCHANGED <<paused, previous, nextList, inserted, knotted>>
      /\ state'[t] = outcome /\ \A u \in Tasks : u # t => state'[u] = state[u]
      /\ unheard \subseteq unheard' /\ (~knotted => unheard' = unheard)
  BY NoOverflow DEF Settle, NoLink, LostInv, TaskInv, TypeOK, Settled
<1>2. TaskInv'
  BY SettleInv DEF LostInv
<1>3. NoLoop'
  BY <1>1 DEF LostInv, NoLoop, After
<1>4. /\ immediates' \in Seq(Tasks \X Tasks)
      /\ ToSet(queue) \subseteq ToSet(immediates')
      /\ t \notin paused => \/ /\ ToSet(Becoming(t)) \subseteq ToSet(immediates')
                               /\ cancelled' = cancelled \cup Dragged(t)
                            \/ t \in unheard'
      /\ cancelled \subseteq cancelled'
  <2>1. queue \in Seq(Tasks \X Tasks) /\ Becoming(t) \in Seq(Tasks \X Tasks)
    BY BecomingList DEF QueueOf, LostInv, TaskInv
  <2>2. CASE (t \in paused \/ t \in unheard') /\ immediates' = queue /\ UNCHANGED cancelled
    BY <2>1, <2>2
  <2>3. CASE /\ t \notin paused /\ immediates' = queue \o Becoming(t)
             /\ cancelled' = cancelled \cup Dragged(t)
    <3>1. immediates' \in Seq(Tasks \X Tasks) /\ ToSet(immediates') = ToSet(queue) \cup ToSet(Becoming(t))
      BY <2>1, <2>3, QueueJoins
    <3> QED
      BY <2>3, <3>1
  <2> QED
    BY <2>2, <2>3 DEF Settle
<1>5. QueueOK'
  <2>1. Created' \subseteq Created \cup {t}
    BY <1>1 DEF Created
  <2>2. IsFiniteSet(Created')
    BY <2>1, OneMore DEF LostInv, QueueOK
  <2>3. \A u \in Tasks : state'[u] = "free" => nextList'[u] = << >>
    BY <1>1 DEF LostInv, QueueOK, Settled
  <2> QED
    BY <1>4, <2>2, <2>3 DEF QueueOK
<1>6. NobodyLeft'
  <2> SUFFICES ASSUME NEW c \in Open' \ (awaiting' \cup inserted'), previous'[c] # None
               PROVE  \/ /\ c \in ToSet(nextList'[previous'[c]])
                         /\ previous'[c] \in Unsettled' \cup paused'
                      \/ <<c, previous'[c]>> \in ToSet(immediates')
                      \/ previous'[c] \in unheard'
    BY DEF NobodyLeft
  <2>1. c \in Tasks /\ c # t /\ c \notin cancelled' /\ state[c] = "pending"
    BY <1>1 DEF Open, Pending, Settled
  <2>2. c \in Open \ (awaiting \cup inserted) /\ previous[c] # None
    BY <1>1, <1>4, <2>1 DEF Open, Pending
  <2>3. previous[c] \in Tasks
    BY <2>1, <2>2 DEF LostInv, TaskInv, TypeOK
  <2>4. CASE <<c, previous[c]>> \in ToSet(immediates)
    BY <1>1, <1>4, <2>1, <2>4 DEF QueueOf
  <2>5. CASE c \in ToSet(nextList[previous[c]]) /\ previous[c] \in Unsettled \cup paused
    <3>1. CASE previous[c] # t \/ t \in paused
      BY <1>1, <2>3, <2>5, <3>1 DEF Unsettled
    <3>3. CASE previous[c] = t /\ t \in unheard'
      BY <1>1, <3>3
    <3>2. CASE previous[c] = t /\ t \notin paused /\ t \notin unheard'
      <4>1. t \notin cancelled
        <5> SUFFICES ASSUME t \in cancelled PROVE FALSE
          OBVIOUS
        <5>1. Dragged(t) = Spread(ToSet(nextList[t]), Unsettled \ cancelled, previous, nextList)
          BY DEF Dragged, Cancelling
        <5>2. ToSet(nextList[t]) \cap (Unsettled \ cancelled) \subseteq Dragged(t)
          BY <5>1, SpreadClosed
        <5>3. c \in Unsettled \ cancelled
          BY <2>2 DEF Open, Pending, Unsettled, Settled
        <5> QED
          BY <1>4, <2>1, <2>5, <3>2, <5>2, <5>3
      <4>2. <<c, t>> \in ToSet(Becoming(t))
        BY <2>5, <3>2, <4>1, BecomingList DEF LostInv, TaskInv
      <4> QED
        BY <1>1, <1>4, <3>2, <4>2
    <3> QED
      BY <3>1, <3>2, <3>3
  <2>6. CASE previous[c] \in unheard
    BY <1>1, <2>6
  <2> QED
    BY <2>2, <2>4, <2>5, <2>6 DEF LostInv, NobodyLeft
<1> QED
  BY <1>2, <1>3, <1>5, <1>6 DEF LostInv

\* No list changes, and nobody stops waiting.
LEMMA QuietLost ==
  ASSUME LostInv, TaskInv', NEW t, QueueOf(t, immediates'),
         UNCHANGED <<previous, nextList, inserted, knotted>>,
         unheard \subseteq unheard', ~knotted => unheard' = unheard,
         Created' \subseteq Created \cup {t},
         \A u \in Tasks : state'[u] = "free" => state[u] = "free",
         \A u \in Tasks : state[u] \notin Settled => state'[u] \notin Settled,
         \A c \in Open' \ (awaiting' \cup inserted) : previous[c] # None =>
           c \in Open \ awaiting /\ c # t,
         \A c \in Open' \ (awaiting' \cup inserted) :
           c \in ToSet(nextList[previous[c]]) /\ previous[c] \in paused \ paused'
             /\ state[previous[c]] \in Settled
               => <<c, previous[c]>> \in ToSet(immediates') \/ previous[c] \in unheard'
  PROVE  LostInv'
<1>1. NoLoop'
  BY DEF LostInv, NoLoop, After
<1>2. QueueOK'
  <2>1. IsFiniteSet(Created')
    BY OneMore DEF LostInv, QueueOK
  <2>2. \A u \in Tasks : state'[u] = "free" => nextList'[u] = << >>
    BY DEF LostInv, QueueOK
  <2> QED
    BY <2>1, <2>2 DEF QueueOK, QueueOf
<1>3. NobodyLeft'
  <2> SUFFICES ASSUME NEW c \in Open' \ (awaiting' \cup inserted), previous[c] # None
               PROVE  \/ /\ c \in ToSet(nextList[previous[c]])
                         /\ previous[c] \in Unsettled' \cup paused'
                      \/ <<c, previous[c]>> \in ToSet(immediates')
                      \/ previous[c] \in unheard'
    BY DEF NobodyLeft
  <2>1. c \in Open \ (awaiting \cup inserted) /\ c # t /\ c \in Tasks
    BY DEF Open, Pending
  <2>2. previous[c] \in Tasks
    BY <2>1 DEF LostInv, TaskInv, TypeOK
  <2>3. CASE <<c, previous[c]>> \in ToSet(immediates)
    BY <2>1, <2>3 DEF QueueOf
  <2>4. CASE c \in ToSet(nextList[previous[c]]) /\ previous[c] \in Unsettled \cup paused
    BY <2>1, <2>2, <2>4 DEF Unsettled
  <2> QED
    BY <2>1, <2>3, <2>4 DEF LostInv, NobodyLeft
<1> QED
  BY <1>1, <1>2, <1>3 DEF LostInv

\* A task that is chained with another one, or completed with it, is in its list
\* or in the queue.
LEMMA BecomeLost ==
  ASSUME LostInv, TaskInv', NEW c \in Tasks, NEW p \in Created, NEW queue, QueueOf(c, queue),
         NEW prev, NEW links \in [Tasks -> Seq(Tasks)],
         Become(c, p, prev, links, queue), previous' = prev, prev[c] = p,
         UNCHANGED unheard, knotted => knotted',
         ~knotted' => Acyclic(links) /\ p # c /\ p \notin After(c, links),
         \A u \in Tasks : state[u] = "free" => links[u] = << >>,
         \/ c \in Created /\ UNCHANGED state
         \/ state[c] = "free" /\ state' = [state EXCEPT ![c] = "pending"],
         inserted \subseteq inserted', awaiting \subseteq awaiting',
         \A u \in Tasks \ (inserted' \cup {c}) :
           /\ prev[u] = previous[u]
           /\ prev[u] \in Tasks /\ u \in ToSet(nextList[prev[u]]) => u \in ToSet(links[prev[u]])
  PROVE  LostInv'
<1>1. /\ p \in Tasks /\ state[p] # "free"
      /\ state' \in [Tasks -> {"free", "pending", "completed", "failed"}]
      /\ \A u \in Tasks : u # c => state'[u] = state[u]
      /\ \A u \in Tasks : state'[u] = "free" => state[u] = "free" /\ u # p
      /\ \A u \in Tasks : state'[u] \in Settled <=> state[u] \in Settled
      /\ Created' \subseteq Created \cup {c}
  BY DEF LostInv, TaskInv, TypeOK, OnlyCreated, Created, Settled
<1> DEFINE linked == [links EXCEPT ![p] = Append(@, c)]
<1>2. /\ linked \in [Tasks -> Seq(Tasks)] /\ (~knotted' => Acyclic(linked))
      /\ ToSet(linked[p]) = ToSet(links[p]) \cup {c}
      /\ \A u \in Tasks : u # p => linked[u] = links[u]
  <2>1. links[p] \in Seq(Tasks)
    BY <1>1
  <2>2. /\ Append(links[p], c) \in Seq(Tasks)
        /\ ToSet(Append(links[p], c)) = ToSet(links[p]) \cup {c}
    BY <2>1, ToSetAppend
  <2>3. ~knotted' => Acyclic(linked)
    BY <1>1, LinkAdded
  <2> QED
    BY <1>1, <2>2, <2>3
<1> HIDE DEF linked
<1>3. /\ nextList' \in {links, linked}
      /\ immediates' \in Seq(Tasks \X Tasks)
      /\ ToSet(queue) \subseteq ToSet(immediates')
      /\ cancelled \subseteq cancelled' /\ paused \subseteq paused'
      /\ \/ /\ p \in cancelled /\ cancelled' = cancelled \cup Cancelling({c}, prev, links)
         \/ p \in Pending \cup paused /\ nextList' = linked
         \/ <<c, p>> \in ToSet(immediates')
  <2>1. queue \in Seq(Tasks \X Tasks)
    BY DEF QueueOf
  <2>2. CASE immediates' = Append(queue, <<c, p>>) /\ nextList' = links /\ UNCHANGED <<paused, cancelled>>
    <3>1. <<c, p>> \in Tasks \X Tasks
      BY <1>1
    <3>2. /\ Append(queue, <<c, p>>) \in Seq(Tasks \X Tasks)
          /\ ToSet(Append(queue, <<c, p>>)) = ToSet(queue) \cup {<<c, p>>}
      <4> DEFINE Q == Tasks \X Tasks
                 e == <<c, p>>
      <4>1. queue \in Seq(Q) /\ e \in Q
        BY <2>1, <3>1
      <4> HIDE DEF Q, e
      <4>2. Append(queue, e) \in Seq(Q) /\ ToSet(Append(queue, e)) = ToSet(queue) \cup {e}
        BY <4>1, ToSetAppend
      <4> QED
        BY <4>2 DEF Q, e
    <3> QED
      BY <2>2, <3>2
  <2>3. CASE /\ p \in cancelled /\ cancelled' = cancelled \cup Cancelling({c}, prev, links)
             /\ nextList' = links /\ immediates' = queue /\ UNCHANGED paused
    BY <2>1, <2>3
  <2>4. CASE /\ p \in Pending \cup paused /\ nextList' = linked /\ immediates' = queue
             /\ paused \subseteq paused' /\ UNCHANGED cancelled
    BY <2>1, <2>4
  <2> QED
    BY <2>2, <2>3, <2>4 DEF Become, linked
<1>4. NoLoop'
  BY <1>2, <1>3 DEF LostInv, NoLoop, Acyclic, After
<1>5. QueueOK'
  <2>1. IsFiniteSet(Created')
    BY <1>1, OneMore DEF LostInv, QueueOK
  <2>2. \A u \in Tasks : state'[u] = "free" => nextList'[u] = << >>
    BY <1>1, <1>2, <1>3
  <2> QED
    BY <1>3, <2>1, <2>2 DEF QueueOK
<1>6. NobodyLeft'
  <2> SUFFICES ASSUME NEW u \in Open' \ (awaiting' \cup inserted'), prev[u] # None
               PROVE  \/ /\ u \in ToSet(nextList'[prev[u]])
                         /\ prev[u] \in Unsettled' \cup paused'
                      \/ <<u, prev[u]>> \in ToSet(immediates')
                      \/ prev[u] \in unheard
    BY DEF NobodyLeft
  <2>1. u \in Tasks /\ state'[u] = "pending" /\ u \notin cancelled'
    BY DEF Open, Pending
  <2>2. CASE u = c
    <3>1. CASE p \in cancelled /\ cancelled' = cancelled \cup Cancelling({c}, prev, links)
      <4>1. c \in Unsettled \ cancelled
        BY <1>1, <1>3, <2>1, <2>2 DEF Unsettled, Settled
      <4>2. {c} \cap (Unsettled \ cancelled) \subseteq Cancelling({c}, prev, links)
        BY SpreadClosed DEF Cancelling
      <4> QED
        BY <2>1, <2>2, <3>1, <4>1, <4>2
    <3>2. CASE p \in Pending \cup paused /\ nextList' = linked
      <4>1. p \in Unsettled' \cup paused'
        BY <1>1, <1>3, <3>2 DEF Unsettled, Pending, Settled
      <4> QED
        BY <1>2, <2>2, <3>2, <4>1
    <3> QED
      BY <1>3, <2>2, <3>1, <3>2
  <2>3. CASE u # c
    <3>1. u \in Open \ (awaiting \cup inserted) /\ prev[u] = previous[u] /\ previous[u] \in Tasks
      BY <1>1, <1>3, <2>1, <2>3 DEF Open, Pending, LostInv, TaskInv, TypeOK
    <3>2. CASE <<u, previous[u]>> \in ToSet(immediates)
      BY <1>3, <2>3, <3>1, <3>2 DEF QueueOf
    <3>3. CASE u \in ToSet(nextList[previous[u]]) /\ previous[u] \in Unsettled \cup paused
      <4>1. u \in ToSet(links[previous[u]])
        BY <2>1, <2>3, <3>1, <3>3
      <4>2. previous[u] \in Unsettled' \cup paused'
        BY <1>1, <1>3, <3>1, <3>3 DEF Unsettled
      <4>3. u \in ToSet(nextList'[previous[u]])
        BY <1>2, <1>3, <3>1, <4>1
      <4> QED
        BY <3>1, <4>2, <4>3
    <3> QED
      BY <3>1, <3>2, <3>3 DEF LostInv, NobodyLeft
  <2> QED
    BY <2>2, <2>3
<1> QED
  BY <1>4, <1>5, <1>6 DEF LostInv

\* What Init and the steps leave to wait in the queue but for its head.
LEMMA QueueItself ==
  ASSUME QueueOK, NEW t
  PROVE  QueueOf(t, immediates)
BY DEF QueueOK, QueueOf

LEMMA HeadOfQueue ==
  ASSUME QueueOK, immediates # << >>
  PROVE  QueueOf(Head(immediates)[1], Tail(immediates))
<1> DEFINE q == Tail(immediates)
<1>1. /\ immediates \in Seq(Tasks \X Tasks) /\ Len(immediates) \in Nat /\ Len(immediates) # 0
      /\ DOMAIN immediates = 1..Len(immediates)
      /\ Head(immediates) = immediates[1]
  BY LenProperties, EmptySeq, HeadTailProperties DEF QueueOK
<1>2. /\ q \in Seq(Tasks \X Tasks) /\ Len(q) = Len(immediates) - 1
      /\ DOMAIN q = 1..Len(q)
      /\ \A i \in 1..Len(q) : q[i] = immediates[i + 1]
  BY <1>1, HeadTailProperties, LenProperties DEF QueueOK
<1> HIDE DEF q
<1>3. ASSUME NEW i \in 1..Len(immediates), i # 1 PROVE immediates[i] \in ToSet(q)
  <2>1. i - 1 \in 1..Len(q) /\ (i - 1) + 1 = i
    BY <1>1, <1>2, <1>3
  <2>2. q[i - 1] = immediates[i]
    BY <1>2, <2>1
  <2> QED
    BY <1>2, <2>1, <2>2 DEF ToSet
<1>4. \A x \in ToSet(immediates) : x[1] = Head(immediates)[1] \/ x \in ToSet(q)
  BY <1>1, <1>3 DEF ToSet
<1> QED
  BY <1>2, <1>4 DEF QueueOf, q

LEMMA IgnoreLost ==
  ASSUME LostInv, NEW t, NEW queue, QueueOf(t, queue), Ignore(queue), NoLink,
         t \notin Open \/ t \in awaiting', awaiting \ {t} \subseteq awaiting'
  PROVE  LostInv'
<1>1. TaskInv'
  BY StutterInv DEF Ignore, NoLink, LostInv
<1>2. /\ UNCHANGED <<state, cancelled, paused, previous, nextList, inserted, knotted, unheard>>
      /\ immediates' = queue
  BY DEF Ignore, NoLink
<1>3. Open' = Open /\ Created' = Created
  BY <1>2 DEF Open, Pending, Created
<1> QED
  BY <1>1, <1>2, <1>3, QuietLost

LEMMA FailsLost ==
  ASSUME LostInv, NEW t \in Tasks, NEW queue, QueueOf(t, queue), Fails(t, queue), NoLink,
         awaiting \ {t} \subseteq awaiting'
  PROVE  LostInv'
<1>1. CASE t \in Open /\ Settle(t, "failed", queue)
  BY <1>1, SettleLost DEF Settled
<1>2. CASE t \notin Open /\ Ignore(queue)
  BY <1>2, IgnoreLost
<1> QED
  BY <1>1, <1>2 DEF Fails

LEMMA ThenLost ==
  ASSUME LostInv, NEW p \in Tasks, NEW c \in Tasks, NEW h, Then(p, c, h)
  PROVE  LostInv'
<1> DEFINE prev == [previous EXCEPT ![c] = p]
<1>1. /\ p \in Created /\ state[c] = "free" /\ p # c
      /\ state' = [state EXCEPT ![c] = "pending"] /\ previous' = prev
      /\ UNCHANGED <<inserted, awaiting, knotted, unheard>>
      /\ Become(c, p, prev, nextList, immediates)
  BY DEF Then, Created
<1>2. /\ prev[c] = p /\ \A u \in Tasks : u # c => prev[u] = previous[u]
      /\ nextList \in [Tasks -> Seq(Tasks)]
  BY DEF LostInv, TaskInv, TypeOK
<1> HIDE DEF prev
<1>3. nextList[c] = << >>
  BY <1>1 DEF LostInv, QueueOK
<1>4. After(c, nextList) = {}
  <2>1. ToSet(nextList[c]) \subseteq {}
    BY <1>3 DEF ToSet
  <2>2. {} \in SUBSET Tasks
    OBVIOUS
  <2>3. After(c, nextList) \subseteq {}
    BY <1>2, <2>1, <2>2, AfterBasics
  <2> QED
    BY <2>3
<1>5. TaskInv' /\ QueueOf(c, immediates) /\ (~knotted => Acyclic(nextList))
  BY ThenInv, QueueItself DEF LostInv, NoLoop, Acyclic
<1>6. \A u \in Tasks : state[u] = "free" => nextList[u] = << >>
  BY DEF LostInv, QueueOK
<1> QED
  BY <1>1, <1>2, <1>4, <1>5, <1>6, BecomeLost

LEMMA ChainLost ==
  ASSUME LostInv, NEW p \in Tasks, NEW t \in Tasks, Chain(p, t)
  PROVE  LostInv'
<1> DEFINE prev == [previous EXCEPT ![t] = p]
<1>1. /\ p \in Created /\ t \in Created /\ p \notin After(t, nextList)
      /\ previous' = prev /\ UNCHANGED <<state, inserted, awaiting, unheard>>
      /\ knotted' = (knotted \/ p = t)
      /\ Become(t, p, prev, nextList, immediates)
  BY DEF Chain
<1>2. /\ prev[t] = p /\ \A u \in Tasks : u # t => prev[u] = previous[u]
      /\ nextList \in [Tasks -> Seq(Tasks)]
  BY DEF LostInv, TaskInv, TypeOK
<1> HIDE DEF prev
<1>3. TaskInv' /\ QueueOf(t, immediates) /\ (~knotted => Acyclic(nextList))
  BY ChainInv, QueueItself DEF LostInv, NoLoop, Acyclic
<1>4. \A u \in Tasks : state[u] = "free" => nextList[u] = << >>
  BY DEF LostInv, QueueOK
<1> QED
  BY <1>1, <1>2, <1>3, <1>4, BecomeLost

LEMMA InsertLost ==
  ASSUME LostInv, NEW t \in Open, NEW v \in Created \ {t}, NEW queue, QueueOf(t, queue),
         Insert(t, v, queue), UNCHANGED awaiting
  PROVE  LostInv'
<1> DEFINE q == previous[t]
           links == Replaced(t, v)
           given == [previous EXCEPT ![t] = None, ![v] = IF q = None THEN @ ELSE q]
           prev == [given EXCEPT ![t] = v]
           fails == v \in After(t, links) \/ Endless(t, links)
<1>1. /\ t \in Created /\ t \in Tasks /\ v \in Created /\ v \in Tasks /\ v # t
      /\ q \in Created \cup {None} /\ None \notin Tasks
      /\ inserted' = inserted \cup {v} /\ UNCHANGED <<state, unheard>>
      /\ knotted' = (knotted \/ v \in After(v, links))
      /\ \/ fails /\ previous' = given /\ nextList' = links /\ Ignore(queue) /\ UNCHANGED paused
         \/ ~fails /\ previous' = prev /\ Become(t, v, prev, links, queue)
  BY TaskAssumption DEF Insert, Ignore, Open, Pending, Created, LostInv, TaskInv, OnlyCreated
<1>3. /\ given[t] = None /\ prev[t] = v
      /\ \A u \in Tasks : u # t /\ u # v => given[u] = previous[u] /\ prev[u] = previous[u]
  BY <1>1 DEF LostInv, TaskInv, TypeOK
<1>4. /\ links \in [Tasks -> Seq(Tasks)]
      /\ \A u \in Tasks : u # q => links[u] = nextList[u]
      /\ q \in Tasks =>
           /\ ToSet(links[q]) \subseteq (ToSet(nextList[q]) \ {t}) \cup {v}
           /\ ToSet(nextList[q]) \ {t} \subseteq ToSet(links[q])
  BY <1>1, ReplacedLists DEF LostInv, TaskInv
<1>2. ~fails => v \notin After(t, links)
  OBVIOUS
<1> HIDE DEF links, prev, given, fails
<1>5. ~knotted' => Acyclic(links)
  <2> SUFFICES ASSUME ~knotted' PROVE Acyclic(links)
    OBVIOUS
  <2>1. nextList \in [Tasks -> Seq(Tasks)] /\ Acyclic(nextList) /\ v \notin After(v, links)
    BY <1>1 DEF LostInv, TaskInv, TypeOK, NoLoop, Acyclic
  <2>2. \A u \in Tasks : ToSet(links[u]) \subseteq ToSet(nextList[u]) \cup {v}
    BY <1>4
  <2> QED
    BY <1>1, <1>4, <2>1, <2>2, LinksReplaced
<1>6. \A u \in Tasks : state[u] = "free" => links[u] = << >>
  BY <1>1, <1>4 DEF LostInv, QueueOK, Created
<1>7. \A u \in Tasks \ (inserted' \cup {t}) :
        /\ given[u] = previous[u] /\ prev[u] = previous[u]
        /\ previous[u] \in Tasks /\ u \in ToSet(nextList[previous[u]]) => u \in ToSet(links[previous[u]])
  BY <1>1, <1>3, <1>4
<1>8. TaskInv'
  BY InsertInv DEF LostInv
<1>9. inserted \subseteq inserted' /\ awaiting \subseteq awaiting'
  BY <1>1
<1>10. CASE fails /\ previous' = given /\ nextList' = links /\ Ignore(queue) /\ UNCHANGED paused
  <2>1. /\ UNCHANGED <<cancelled, unheard, awaiting>> /\ immediates' = queue /\ (~knotted' => ~knotted)
        /\ Created' = Created /\ Open' = Open /\ Unsettled' = Unsettled
    BY <1>1, <1>10 DEF Ignore, Created, Open, Pending, Unsettled
  <2>2. NoLoop'
    BY <1>5, <1>10, <2>1 DEF LostInv, NoLoop, Acyclic, After
  <2>3. QueueOK'
    BY <1>1, <1>6, <1>10, <2>1 DEF LostInv, QueueOK, QueueOf
  <2>4. NobodyLeft'
    <3> SUFFICES ASSUME NEW u \in Open \ (awaiting \cup inserted'), given[u] # None
                 PROVE  \/ u \in ToSet(links[given[u]]) /\ given[u] \in Unsettled \cup paused
                        \/ <<u, given[u]>> \in ToSet(queue)
                        \/ given[u] \in unheard
      BY <1>10, <2>1 DEF NobodyLeft
    <3>1. u \in Tasks /\ u # t /\ u \in Open \ (awaiting \cup inserted)
      BY <1>3, <1>9 DEF Open, Pending
    <3>2. given[u] = previous[u] /\ previous[u] \in Tasks
      BY <1>7, <3>1 DEF LostInv, TaskInv, TypeOK
    <3>3. \/ u \in ToSet(nextList[previous[u]]) /\ previous[u] \in Unsettled \cup paused
          \/ <<u, previous[u]>> \in ToSet(immediates)
          \/ previous[u] \in unheard
      BY <3>1, <3>2, TaskAssumption DEF LostInv, NobodyLeft
    <3> QED
      BY <1>7, <3>1, <3>2, <3>3 DEF QueueOf
  <2> QED
    BY <1>8, <2>2, <2>3, <2>4 DEF LostInv
<1>11. CASE ~fails /\ previous' = prev /\ Become(t, v, prev, links, queue)
  <2>1. ~knotted' => Acyclic(links) /\ v # t /\ v \notin After(t, links)
    BY <1>1, <1>2, <1>5, <1>11
  <2>2. \A u \in Tasks \ (inserted' \cup {t}) :
          /\ prev[u] = previous[u]
          /\ prev[u] \in Tasks /\ u \in ToSet(nextList[prev[u]]) => u \in ToSet(links[prev[u]])
    BY <1>7
  <2>3. knotted => knotted'
    BY <1>1
  <2> QED
    BY <1>1, <1>3, <1>4, <1>6, <1>8, <1>9, <1>11, <2>1, <2>2, <2>3, BecomeLost
<1> QED
  BY <1>1, <1>10, <1>11

LEMMA CompletesLost ==
  ASSUME LostInv, NEW t \in Open, NEW queue, QueueOf(t, queue), Completes(t, queue)
  PROVE  LostInv'
<1>1. t \in Tasks
  BY DEF Open, Pending
<1>2. CASE Settle(t, "completed", queue) /\ NoLink /\ UNCHANGED awaiting
  BY <1>1, <1>2, SettleLost DEF Settled
<1>3. CASE Settle(t, "failed", queue) /\ NoLink /\ UNCHANGED awaiting
  BY <1>1, <1>3, SettleLost DEF Settled
<1>4. CASE (\E v \in Created \ {t} : Insert(t, v, queue)) /\ UNCHANGED awaiting
  BY <1>4, InsertLost
<1>5. CASE awaiting' = awaiting \cup {t} /\ Ignore(queue) /\ NoLink
  BY <1>5, IgnoreLost
<1> QED
  BY <1>2, <1>3, <1>4, <1>5 DEF Completes

LEMMA AdoptLost == ASSUME LostInv, AdoptState PROVE LostInv'
<1> DEFINE c == Head(immediates)[1]
           q == Tail(immediates)
<1>1. c \in Tasks /\ QueueOf(c, q)
  <2>1. Head(immediates) \in Tasks \X Tasks
    BY HeadTailProperties DEF AdoptState, LostInv, QueueOK
  <2> QED
    BY <2>1, HeadOfQueue DEF AdoptState, LostInv
<1>2. AdoptCompletion(c, q) \/ AdoptFailure(c, q) \/ AdoptValue(c, q)
  BY DEF AdoptState
<1> HIDE DEF c, q
<1>3. CASE AdoptCompletion(c, q)
  BY <1>1, <1>3, CompletesLost, IgnoreLost DEF AdoptCompletion
<1>4. CASE AdoptFailure(c, q)
  BY <1>1, <1>4, FailsLost DEF AdoptFailure
<1>5. CASE AdoptValue(c, q)
  BY <1>1, <1>5, SettleLost, IgnoreLost DEF AdoptValue, Settled
<1> QED
  BY <1>2, <1>3, <1>4, <1>5

LEMMA NewTaskLost == ASSUME LostInv, NEW t \in Tasks, NewTask(t) PROVE LostInv'
<1>1. /\ state[t] = "free" /\ state'[t] = "pending" /\ \A u \in Tasks : u # t => state'[u] = state[u]
      /\ UNCHANGED <<paused, cancelled, previous, nextList, awaiting, inserted, knotted, unheard, immediates>>
  BY DEF NewTask, LostInv, TaskInv, TypeOK
<1>2. TaskInv' /\ QueueOf(t, immediates') /\ previous[t] = None
  BY <1>1, NewTaskInv, QueueItself DEF LostInv, TaskInv, OnlyCreated
<1>3. Created' \subseteq Created \cup {t}
  BY <1>1 DEF Created
<1>4. \A u \in Tasks : state'[u] = "free" => state[u] = "free"
  BY <1>1
<1>5. \A u \in Tasks : state[u] \notin Settled => state'[u] \notin Settled
  BY <1>1 DEF Settled
<1>6. \A u \in Open' : u # t => u \in Open
  BY <1>1 DEF Open, Pending
<1> QED
  BY <1>1, <1>2, <1>3, <1>4, <1>5, <1>6, QuietLost

LEMMA PauseLost == ASSUME LostInv, NEW t \in Tasks, Pause(t) PROVE LostInv'
<1>1. /\ UNCHANGED <<state, cancelled, previous, nextList, awaiting, inserted, knotted, unheard, immediates>>
      /\ paused \subseteq paused'
  BY DEF Pause
<1>2. TaskInv' /\ QueueOf(None, immediates')
  BY <1>1, PauseInv, QueueItself DEF LostInv
<1>3. Created' = Created /\ Open' = Open /\ Open \subseteq Tasks
  BY <1>1 DEF Created, Open, Pending
<1> QED
  BY <1>1, <1>2, <1>3, TaskAssumption, QuietLost

LEMMA CancelLost == ASSUME LostInv, NEW t \in Tasks, Cancel(t) PROVE LostInv'
<1>1. /\ UNCHANGED <<state, paused, previous, nextList, awaiting, inserted, knotted, unheard, immediates>>
      /\ cancelled \subseteq cancelled'
  BY DEF Cancel
<1>2. TaskInv' /\ QueueOf(None, immediates')
  BY <1>1, CancelInv, QueueItself DEF LostInv
<1>3. Created' = Created /\ Open' \subseteq Open /\ Open \subseteq Tasks
  BY <1>1 DEF Created, Open, Pending
<1> QED
  BY <1>1, <1>2, <1>3, TaskAssumption, QuietLost

\* An order of a finite set names all of it.
LEMMA OrderNamesAll ==
  ASSUME NEW S, IsFiniteSet(S), NEW order \in SetToSeqs(S)
  PROVE  /\ order \in Seq(S) /\ Len(order) \in Nat /\ DOMAIN order = 1..Len(order)
         /\ \A x \in S : \E i \in 1..Len(order) : order[i] = x
<1> DEFINE n == Cardinality(S)
<1>1. n \in Nat
  BY FS_CardinalityType
<1>2. order \in [1..n -> S] /\ \A i, j \in 1..n : i # j => order[i] # order[j]
  BY DEF SetToSeqs
<1> HIDE DEF n
<1>3. IsFiniteSet(1..n) /\ Cardinality(1..n) = n
  BY <1>1, FS_Interval
<1>4. order \in Injection(1..n, S)
  BY <1>2 DEF Injection, IsInjective
<1>5. order \in Surjection(1..n, S)
  BY <1>3, <1>4, FS_Injection DEF n
<1>6. \A x \in S : \E i \in 1..n : order[i] = x
  BY <1>5 DEF Surjection
<1>7. order \in Seq(S) /\ Len(order) = n
  BY <1>1, <1>2, SeqDef
<1> QED
  BY <1>1, <1>2, <1>6, <1>7

LEMMA ResumeLost == ASSUME LostInv, NEW t \in Tasks, Resume(t) PROVE LostInv'
<1>0. PICK P, late : ResumeOf(t, P, late)
  BY ResumeReaches
<1>1. PICK order \in SetToSeqs(late) :
        immediates' = immediates \o FlattenSeq([i \in 1..Len(order) |-> Becoming(order[i])])
  BY <1>0 DEF ResumeOf, CleanLate
<1> DEFINE lists == [i \in 1..Len(order) |-> Becoming(order[i])]
<1>2. /\ UNCHANGED <<state, previous, nextList, awaiting, inserted, knotted>>
      /\ paused' = paused \ P /\ cancelled' = cancelled \cup UNION {Dragged(u) : u \in late}
      /\ late \subseteq P /\ (\A u \in P : state[u] \in Settled => u \in late \/ u \in unheard')
      /\ \A u \in late : state[u] \in Settled
      /\ unheard \subseteq unheard'
  BY <1>0 DEF Resume, ResumeOf, CleanLate
<1>3. P \subseteq Tasks /\ Resuming({t}) \subseteq Tasks
  BY <1>0, SpreadClosed DEF ResumeOf, Resuming, Closed, LostInv, TaskInv, TypeOK
<1>16. ~knotted => unheard' = unheard
  BY <1>3, NoOverflow DEF Resume
<1>4. late \subseteq Created /\ late \subseteq Tasks
  BY <1>2, <1>3 DEF Created, Settled
<1>5. IsFiniteSet(late)
  BY <1>4, FS_Subset DEF LostInv, QueueOK
<1>6. /\ order \in Seq(late) /\ Len(order) \in Nat /\ DOMAIN order = 1..Len(order)
      /\ \A u \in late : \E i \in 1..Len(order) : order[i] = u
  BY <1>5, OrderNamesAll
<1>7. \A i \in 1..Len(order) : order[i] \in Tasks
  BY <1>4, <1>6
<1>8. lists \in Seq(Seq(Tasks \X Tasks)) /\ Len(lists) = Len(order)
      /\ \A i \in 1..Len(order) : lists[i] = Becoming(order[i])
  <2>1. \A i \in 1..Len(order) : Becoming(order[i]) \in Seq(Tasks \X Tasks)
    BY <1>7, BecomingList DEF LostInv, TaskInv
  <2> DEFINE Q == Seq(Tasks \X Tasks)
  <2> HIDE DEF Q
  <2>2. lists \in [1..Len(order) -> Q]
    BY <2>1 DEF Q
  <2>3. lists \in Seq(Q) /\ Len(lists) = Len(order)
    BY <1>6, <2>2, SeqDef
  <2> QED
    BY <2>3 DEF Q
<1>9. immediates' = immediates \o FlattenSeq(lists)
  BY <1>1
<1> HIDE DEF lists
<1>10. /\ FlattenSeq(lists) \in Seq(Tasks \X Tasks)
       /\ \A i \in 1..Len(lists) : ToSet(lists[i]) \subseteq ToSet(FlattenSeq(lists))
  <2>1. /\ FlattenSeq(lists) \in Seq(Tasks \X Tasks)
        /\ \A i \in 1..Len(lists) : \A j \in 1..Len(lists[i]) :
             \E l \in 1..Len(FlattenSeq(lists)) : FlattenSeq(lists)[l] = lists[i][j]
    BY <1>8, FlattenHolds
  <2>2. \A i \in 1..Len(lists) : lists[i] \in Seq(Tasks \X Tasks)
    BY <1>7, <1>8, BecomingList DEF LostInv, TaskInv
  <2>3. /\ DOMAIN FlattenSeq(lists) = 1..Len(FlattenSeq(lists))
        /\ \A i \in 1..Len(lists) : DOMAIN lists[i] = 1..Len(lists[i])
    BY <2>1, <2>2, LenProperties
  <2>4. ASSUME NEW i \in 1..Len(lists), NEW x \in ToSet(lists[i])
        PROVE  x \in ToSet(FlattenSeq(lists))
    <3>1. PICK j \in 1..Len(lists[i]) : lists[i][j] = x
      BY <2>3 DEF ToSet
    <3>2. PICK l \in 1..Len(FlattenSeq(lists)) : FlattenSeq(lists)[l] = x
      BY <2>1, <3>1
    <3> QED
      BY <2>3, <3>2 DEF ToSet
  <2> QED
    BY <2>1, <2>4
<1>11. /\ immediates' \in Seq(Tasks \X Tasks)
       /\ ToSet(immediates') = ToSet(immediates) \cup ToSet(FlattenSeq(lists))
  BY <1>9, <1>10, QueueJoins DEF LostInv, QueueOK
<1>12. \A u \in late : ToSet(Becoming(u)) \subseteq ToSet(immediates')
  BY <1>6, <1>8, <1>10, <1>11
<1>13. TaskInv' /\ QueueOf(None, immediates')
  BY <1>11, ResumeInv DEF LostInv, QueueOf
<1>14. ASSUME NEW c \in Open', NEW u \in paused \ paused', state[u] \in Settled,
              previous[c] = u, c \in ToSet(nextList[u])
       PROVE  <<c, u>> \in ToSet(immediates') \/ u \in unheard'
  <2> SUFFICES ASSUME u \notin unheard' PROVE <<c, u>> \in ToSet(immediates')
    OBVIOUS
  <2>1. u \in late /\ u \in Tasks
    BY <1>2, <1>3, <1>14
  <2>2. c \in Unsettled \ cancelled /\ c \notin Dragged(u)
    <3>1. c \in Unsettled /\ c \notin cancelled'
      BY <1>2 DEF Open, Pending, Unsettled, Settled
    <3> QED
      BY <1>2, <2>1, <3>1
  <2>3. u \notin cancelled
    <3> SUFFICES ASSUME u \in cancelled PROVE FALSE
      OBVIOUS
    <3>1. Dragged(u) = Spread(ToSet(nextList[u]), Unsettled \ cancelled, previous, nextList)
      BY DEF Dragged, Cancelling
    <3>2. ToSet(nextList[u]) \cap (Unsettled \ cancelled) \subseteq Dragged(u)
      BY <3>1, SpreadClosed
    <3> QED
      BY <1>14, <2>2, <3>2
  <2>4. <<c, u>> \in ToSet(Becoming(u))
    BY <1>14, <2>1, <2>3, BecomingList DEF LostInv, TaskInv
  <2> QED
    BY <1>12, <2>1, <2>4
<1>15. Created' = Created /\ Open' \subseteq Open /\ Open \subseteq Tasks
  BY <1>2 DEF Created, Open, Pending
<1> QED
  BY <1>2, <1>13, <1>14, <1>15, <1>16, TaskAssumption, QuietLost

LEMMA StepLost == LostInv /\ [Next]_vars => LostInv'
<1> SUFFICES ASSUME LostInv, [Next]_vars PROVE LostInv'
  OBVIOUS
<1>0. \A t : QueueOf(t, immediates)
  BY QueueItself DEF LostInv
<1>1. CASE \E t \in Tasks : NewTask(t)
  BY <1>1, NewTaskLost
<1>2. CASE \E p, c \in Tasks, h \in Transformers : Then(p, c, h)
  BY <1>2, ThenLost
<1>3. CASE \E p, t \in Tasks : Chain(p, t)
  BY <1>3, ChainLost
<1>4. CASE \E t \in Tasks : Complete(t)
  BY <1>0, <1>4, CompletesLost DEF Complete
<1>5. CASE \E t \in Tasks : Fail(t)
  BY <1>0, <1>5, FailsLost DEF Fail
<1>6. CASE \E t \in Tasks : ThenableFulfils(t)
  BY <1>0, <1>6, SettleLost DEF ThenableFulfils, Settled
<1>7. CASE \E t \in Tasks : ThenableRejects(t)
  BY <1>0, <1>7, FailsLost DEF ThenableRejects
<1>8. CASE \E t \in Tasks : Pause(t)
  BY <1>8, PauseLost
<1>9. CASE \E t \in Tasks : Resume(t)
  BY <1>9, ResumeLost
<1>10. CASE \E t \in Tasks : Cancel(t)
  BY <1>10, CancelLost
<1>11. CASE AdoptState
  BY <1>11, AdoptLost
<1>12. CASE UNCHANGED vars
  <2>1. TaskInv'
    BY <1>12, StutterInv DEF vars, LostInv
  <2>2. Created' = Created /\ Open' = Open /\ Unsettled' = Unsettled
    BY <1>12 DEF vars, Created, Open, Pending, Unsettled
  <2>3. QueueOK' /\ NoLoop' /\ NobodyLeft'
    BY <1>12, <2>2 DEF vars, LostInv, QueueOK, NoLoop, After, NobodyLeft
  <2> QED
    BY <2>1, <2>3 DEF LostInv
<1> QED
  BY <1>1, <1>2, <1>3, <1>4, <1>5, <1>6, <1>7, <1>8, <1>9, <1>10, <1>11, <1>12 DEF Next, Step

LEMMA InitLost == Init => LostInv
<1> SUFFICES ASSUME Init PROVE LostInv
  OBVIOUS
<1>1. TaskInv
  BY InitInv
<1>2. Created = {} /\ Open = {} /\ nextList = [t \in Tasks |-> << >>] /\ immediates = << >>
  BY DEF Init, Created, Open, Pending
<1>3. QueueOK
  BY <1>2, FS_EmptySet DEF QueueOK
<1>4. NoLoop
  <2> SUFFICES ASSUME NEW t \in Tasks PROVE t \notin After(t, nextList)
    BY DEF Init, NoLoop
  <2>1. nextList \in [Tasks -> Seq(Tasks)] /\ {} \in SUBSET Tasks
    BY <1>1 DEF TaskInv, TypeOK
  <2>2. ToSet(nextList[t]) \subseteq {}
    BY <1>2 DEF ToSet
  <2>3. After(t, nextList) \subseteq {}
    BY <2>1, <2>2, AfterBasics
  <2> QED
    BY <2>3
<1>5. NobodyLeft
  BY <1>2 DEF NobodyLeft
<1> QED
  BY <1>1, <1>3, <1>4, <1>5 DEF LostInv

\* Whoever waits for a task is in its list or in the queue of setImmediate, unless
\* that task settled in an overflow; and a chain has an end and nothing overflows
\* unless a task was chained with itself or completed with one before it (chain,
\* become, insert, isAfter, progress, clean and resume of task.js).
THEOREM NobodyIsLost == Spec => []NobodyLost
<1>1. LostInv => NobodyLost
  BY DEF LostInv, NobodyLost
<1> QED
  BY <1>1, InitLost, StepLost, PTL DEF Spec
=============================================================================
