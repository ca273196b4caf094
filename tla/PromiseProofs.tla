--------------------------- MODULE PromiseProofs ---------------------------
(***************************************************************************)
(* What is proved about Promise for every set of promises and of values:   *)
(* its types, that no subscriber is left behind by a promise that settles, *)
(* and, in the second half, that it implements PromiseContract.            *)
(***************************************************************************)
EXTENDS Promise, SequenceTheorems, TLAPS

LEMMA EntryType ==
  ASSUME NEW o \in Ops, NEW p \in Promises, NEW q \in Promises
  PROVE  Entry(o, p, q) \in Entries
BY DEF Entry, Entries

LEMMA CleaningSeq ==
  ASSUME TypeOK, NEW p \in Promises, NEW how \in Settled
  PROVE  Cleaning(p, how) \in Seq(Entries)
<1>1. \A i \in 1..Len(pendingList[p]) :
        Entry("adopt", pendingList[p][i], p) \in Entries
  BY EntryType DEF TypeOK, Ops
<1>2. [i \in 1..Len(pendingList[p]) |-> Entry("adopt", pendingList[p][i], p)]
        \in Seq(Entries)
  BY <1>1 DEF TypeOK
<1>3. <<Entry(how, p, p)>> \in Seq(Entries)
  BY EntryType DEF Settled, Ops
<1> QED BY <1>2, <1>3 DEF Cleaning

LEMMA CleaningType ==
  ASSUME TypeOK, NEW p \in Promises, NEW how \in Settled,
         NEW rest \in Seq(Entries)
  PROVE  Cleaning(p, how) \o rest \in Seq(Entries)
BY CleaningSeq

LEMMA WithoutUnhandledType ==
  ASSUME TypeOK, NEW p \in Promises
  PROVE  WithoutUnhandled(p) \in Seq(Entries)
BY DEF TypeOK, WithoutUnhandled, Scheduled

\* The variables that Fulfill, Reject and Ignore determine, and those of
\* NoSubscription and Subscribe, typed.
SettlingOK ==
  /\ state \in [Promises -> {"free", "pending"} \cup Settled]
  /\ value \in [Promises -> Values]
  /\ calls \in Seq(Entries)

SubscribingOK ==
  /\ pendingList \in [Promises -> Seq(Promises)]
  /\ onResolve \in [Promises -> Hooks]
  /\ onReject \in [Promises -> Hooks]
  /\ handled \in [Promises -> BOOLEAN]
  /\ immediates \in Seq(Entries)
  /\ subscribers \in [Promises -> Seq(Promises)]

LEMMA RejectType ==
  ASSUME TypeOK, NEW p \in Promises, NEW v \in Values, NEW rest \in Seq(Entries),
         Reject(p, v, rest)
  PROVE  SettlingOK'
<1>1. Cleaning(p, "rejected") \o rest \in Seq(Entries)
  BY CleaningType DEF Settled
<1> QED BY <1>1 DEF TypeOK, Reject, Ignore, SettlingOK, Settled

LEMMA SubscribeType ==
  ASSUME TypeOK, NEW p \in Promises, NEW c \in Promises, NEW f \in Hooks,
         NEW r \in Hooks, Subscribe(p, c, f, r)
  PROVE  SubscribingOK'
<1>1. Append(WithoutUnhandled(p), Entry("adopt", c, p)) \in Seq(Entries)
  BY WithoutUnhandledType, EntryType DEF Ops
<1>2. /\ onResolve' \in [Promises -> Hooks] /\ onReject' \in [Promises -> Hooks]
      /\ handled' \in [Promises -> BOOLEAN]
  BY DEF TypeOK, Subscribe
<1>3. subscribers' \in [Promises -> Seq(Promises)]
  BY DEF TypeOK, Subscribe
<1>4. pendingList' \in [Promises -> Seq(Promises)]
  <2>1. pendingList[p] \in Seq(Promises) /\ Append(pendingList[p], c) \in Seq(Promises)
    BY DEF TypeOK
  <2> QED BY <2>1 DEF TypeOK, Subscribe
<1>5. immediates' \in Seq(Entries)
  BY <1>1 DEF TypeOK, Subscribe
<1> QED BY <1>2, <1>3, <1>4, <1>5 DEF SubscribingOK

LEMMA ResolvedValueType ==
  ASSUME TypeOK, NEW p \in Promises, NEW v \in Values, NEW flag \in BOOLEAN,
         NEW rest \in Seq(Entries), ResolvedValue(p, v, flag, rest)
  PROVE  /\ SettlingOK' /\ SubscribingOK'
         /\ resolving' \in [Promises -> BOOLEAN] /\ lent' \subseteq Promises
<1>1. CASE v \in Plain /\ Fulfill(p, v, rest) /\ lent' = lent \ {p} /\ NoSubscription
  <2>1. Cleaning(p, "fulfilled") \o rest \in Seq(Entries)
    BY CleaningType DEF Settled
  <2> QED BY <1>1, <2>1 DEF TypeOK, Fulfill, NoSubscription, SettlingOK,
                            SubscribingOK, Settled
<1>2. CASE /\ v = p /\ Reject(p, TypeError, rest) /\ lent' = lent \ {p}
           /\ resolving' = [resolving EXCEPT ![p] = flag] /\ NoSubscription
  <2>1. TypeError \in Values
    BY PromiseAssumption DEF Values
  <2> QED BY <1>2, <2>1, RejectType DEF TypeOK, NoSubscription, SubscribingOK
<1>3. CASE /\ v \in Created \ {p}
           /\ \E c \in Free : /\ Subscribe(v, c, p, p)
                              /\ state' = [state EXCEPT ![c] = "pending"]
           /\ resolving' = [resolving EXCEPT ![p] = flag] /\ lent' = lent \ {p}
           /\ calls' = rest /\ UNCHANGED value
  <2>1. PICK c \in Free : Subscribe(v, c, p, p) /\ state' = [state EXCEPT ![c] = "pending"]
    BY <1>3
  <2>2. v \in Promises /\ c \in Promises /\ p \in Hooks
    BY <1>3 DEF Created, Free, Hooks
  <2>3. SubscribingOK'
    BY <2>1, <2>2, SubscribeType
  <2> QED BY <1>3, <2>1, <2>2, <2>3 DEF TypeOK, SettlingOK
<1>4. CASE /\ v \in Foreign /\ resolving' = [resolving EXCEPT ![p] = flag]
           /\ lent' = lent \cup {p} /\ NoSubscription
           /\ Ignore(<<Entry("calling", p, p)>> \o rest)
  <2>1. <<Entry("calling", p, p)>> \o rest \in Seq(Entries)
    BY EntryType DEF Ops
  <2> QED BY <1>4, <2>1 DEF TypeOK, Ignore, NoSubscription, SettlingOK, SubscribingOK
<1> QED BY <1>1, <1>2, <1>3, <1>4 DEF ResolvedValue

LEMMA ResolveType ==
  ASSUME TypeOK, NEW p \in Promises, NEW v \in Values, NEW rest \in Seq(Entries),
         Resolve(p, v, rest)
  PROVE  /\ SettlingOK' /\ SubscribingOK'
         /\ resolving' \in [Promises -> BOOLEAN] /\ lent' \subseteq Promises
<1>1. CASE ResolvedValue(p, v, TRUE, rest)
  BY <1>1, ResolvedValueType
<1>2. CASE Ignore(rest) /\ NoResolution
  BY <1>2 DEF TypeOK, Ignore, NoResolution, NoSubscription, SettlingOK, SubscribingOK
<1> QED BY <1>1, <1>2 DEF Resolve

LEMMA HeadTail ==
  ASSUME TypeOK, calls # << >>
  PROVE  /\ Head(calls) \in Entries /\ Tail(calls) \in Seq(Entries)
         /\ Head(calls).on \in Promises /\ Head(calls).from \in Promises
         /\ Head(calls).op \in Ops
<1>1. Head(calls) \in Entries /\ Tail(calls) \in Seq(Entries)
  BY HeadTailProperties DEF TypeOK
<1> QED BY <1>1 DEF Entries

\* Every step leads from well-typed states to well-typed states.
LEMMA TypeStep ==
  ASSUME TypeOK, [Next]_vars
  PROVE  TypeOK'
<1> USE DEF TypeOK, SettlingOK, SubscribingOK, NoResolution, NoSubscription, Ignore
<1>v. Plain \subseteq Values /\ Results \subseteq Values /\ Reasons \subseteq Values
  BY PromiseAssumption DEF Values, Thenables
<1>1. ASSUME NEW p \in Promises, New(p)
      PROVE  TypeOK'
  BY <1>1 DEF New
<1>2. ASSUME NEW p \in Promises, NEW v \in Results, CallResolve(p, v)
      PROVE  TypeOK'
  BY <1>2, <1>v, ResolveType DEF CallResolve
<1>3. ASSUME NEW p \in Promises, NEW v \in Reasons, CallReject(p, v)
      PROVE  TypeOK'
  BY <1>3, <1>v, RejectType DEF CallReject
<1>4. ASSUME NEW p \in Promises, NEW c \in Promises, NEW h \in HookPairs,
             CallThen(p, c, h[1], h[2])
      PROVE  TypeOK'
  <2>1. h[1] \in Hooks /\ h[2] \in Hooks
    BY PromiseAssumption DEF Hooks
  <2> QED BY <1>4, <2>1, SubscribeType DEF CallThen
<1>5. ASSUME NEW p \in Promises, NEW v \in Results \ Foreign, ForeignResolve(p, v)
      PROVE  TypeOK'
  BY <1>5, <1>v, ResolvedValueType DEF ForeignResolve
<1>6. ASSUME NEW p \in Promises, NEW v \in Reasons, ForeignReject(p, v)
      PROVE  TypeOK'
  BY <1>6, <1>v, RejectType DEF ForeignReject
<1>7. CASE ForeignReturn
  BY <1>7, HeadTail DEF ForeignReturn
<1>8. ASSUME NEW v \in Results, HandlerReturn(v)
      PROVE  TypeOK'
  BY <1>8, <1>v, HeadTail, ResolveType DEF HandlerReturn
<1>9. ASSUME NEW v \in Reasons, HandlerThrow(v)
      PROVE  TypeOK'
  <2>1. CASE v \notin Falsy
    BY <1>9, <2>1, <1>v, HeadTail, RejectType DEF HandlerThrow
  <2>2. CASE v \in Falsy
    BY <1>9, <2>2, <1>v, HeadTail, ResolveType, PromiseAssumption DEF HandlerThrow
  <2> QED BY <2>1, <2>2
<1>10. CASE AdoptState
  <2> DEFINE c == Head(calls).on
             p == Head(calls).from
             hook == IF state[p] = "fulfilled" THEN onResolve[c] ELSE onReject[c]
             back == <<Entry("reply", c, c)>> \o Tail(calls)
  <2>1. /\ c \in Promises /\ p \in Promises /\ value[p] \in Values
        /\ hook \in Hooks /\ Tail(calls) \in Seq(Entries)
    BY <1>10, HeadTail DEF AdoptState
  <2>2. /\ back \in Seq(Entries)
        /\ <<Entry("handler", c, p)>> \o Tail(calls) \in Seq(Entries)
    BY <2>1, EntryType DEF Ops
  <2>3. told' \in [Promises -> Seq(Promises)] /\ UNCHANGED <<held, emitted>>
    BY <1>10, <2>1 DEF AdoptState
  <2>4. CASE Resolve(c, value[p], Tail(calls))
    BY <2>4, <2>1, <2>3, ResolveType
  <2>5. CASE Reject(c, value[p], Tail(calls)) /\ NoResolution
    BY <2>5, <2>1, <2>3, RejectType
  <2>6. CASE Ignore(<<Entry("handler", c, p)>> \o Tail(calls)) /\ NoResolution
    BY <2>6, <2>2, <2>3
  <2>7. CASE hook \in Promises /\ ResolvedValue(hook, value[p], resolving[hook], back)
    <3>1. resolving[hook] \in BOOLEAN
      BY <2>7
    <3>2. /\ SettlingOK' /\ SubscribingOK'
          /\ resolving' \in [Promises -> BOOLEAN] /\ lent' \subseteq Promises
      <4> HIDE DEF TypeOK, SettlingOK, SubscribingOK, hook, back
      <4> QED BY <2>7, <3>1, <2>1, <2>2, ResolvedValueType
    <3> QED BY <3>2, <2>3
  <2>8. CASE hook \in Promises /\ Reject(hook, value[p], back) /\ NoResolution
    BY <2>8, <2>1, <2>2, <2>3, RejectType
  <2> QED BY <1>10, <2>4, <2>5, <2>6, <2>7, <2>8 DEF AdoptState
<1>11. CASE Reply
  BY <1>11, <1>v, HeadTail, ResolveType, PromiseAssumption DEF Reply
<1>12. CASE Cleaned
  <2> DEFINE p == Head(calls).on
  <2>1. p \in Promises /\ Tail(calls) \in Seq(Entries)
    BY <1>12, HeadTail DEF Cleaned
  <2>2. Append(immediates, Entry("unhandled", p, p)) \in Seq(Entries)
    BY <2>1, EntryType DEF Ops
  <2>3. immediates' \in Seq(Entries)
    BY <1>12, <2>2 DEF Cleaned
  <2>4. pendingList' \in [Promises -> Seq(Promises)]
    BY <1>12, <2>1 DEF Cleaned
  <2> QED BY <1>12, <2>1, <2>3, <2>4 DEF Cleaned
<1>13. CASE RunImmediate
  <2>1. Head(immediates) \in Entries /\ Tail(immediates) \in Seq(Entries)
    BY <1>13, HeadTailProperties DEF RunImmediate
  <2>2. Head(immediates).on \in Promises
    BY <2>1 DEF Entries
  <2>3. calls' \in Seq(Entries)
    <3>1. <<Head(immediates)>> \in Seq(Entries)
      BY <2>1
    <3>2. calls' = <<Head(immediates)>> \/ calls' = calls
      BY <1>13 DEF RunImmediate
    <3> QED BY <3>1, <3>2
  <2>4. emitted' \subseteq Promises
    BY <1>13, <2>2 DEF RunImmediate
  <2> QED BY <1>13, <2>1, <2>3, <2>4 DEF RunImmediate
<1>14. CASE UNCHANGED vars
  BY <1>14 DEF vars
<1> QED BY <1>1, <1>2, <1>3, <1>4, <1>5, <1>6, <1>7, <1>8, <1>9, <1>10, <1>11,
           <1>12, <1>13, <1>14 DEF Next

\* A promise only ever holds well-typed state, whatever the interleaving of
\* handlers, of the event loop and of foreign thenables.
THEOREM TypeCorrect == Spec => []TypeOK
<1>1. Init => TypeOK
  BY PromiseAssumption DEF Init, TypeOK, Values, Hooks
<1>2. TypeOK /\ [Next]_vars => TypeOK'
  BY TypeStep
<1> QED BY <1>1, <1>2, PTL DEF Spec

-----------------------------------------------------------------------------
(***************************************************************************)
(* Both invariants are inductive once the types are known.  The calls that *)
(* settle or subscribe keep them provided that what is left to run, rest,  *)
(* still holds every clean() of the stack.                                 *)
(***************************************************************************)
Keeps(rest) == \A p \in Promises : BeingCleaned(calls, p) => BeingCleaned(rest, p)

LEMMA CleanedAfter ==
  ASSUME NEW a \in Seq(Entries), NEW b \in Seq(Entries), NEW p \in Promises,
         BeingCleaned(b, p)
  PROVE  BeingCleaned(a \o b, p)
<1>1. PICK i \in 1..Len(b) : b[i].op \in Settled /\ b[i].on = p
  BY DEF BeingCleaned
<1>2. /\ Len(a) + i \in 1..Len(a \o b)
      /\ (a \o b)[Len(a) + i] = b[i]
  BY <1>1, ConcatProperties
<1> QED BY <1>1, <1>2 DEF BeingCleaned

LEMMA KeepsAll == Keeps(calls)
BY DEF Keeps

LEMMA KeepsTail ==
  ASSUME TypeOK, calls # << >>, Head(calls).op \notin Settled
  PROVE  Keeps(Tail(calls))
<1> SUFFICES ASSUME NEW p \in Promises, BeingCleaned(calls, p)
             PROVE  BeingCleaned(Tail(calls), p)
  BY DEF Keeps
<1>1. PICK i \in 1..Len(calls) : calls[i].op \in Settled /\ calls[i].on = p
  BY DEF BeingCleaned
<1>2. i # 1
  BY <1>1 DEF TypeOK
<1>3. /\ i - 1 \in 1..Len(Tail(calls))
      /\ Tail(calls)[i - 1] = calls[i]
  BY <1>1, <1>2, HeadTailProperties DEF TypeOK
<1> QED BY <1>1, <1>3 DEF BeingCleaned

LEMMA KeepsUnder ==
  ASSUME NEW e \in Entries, NEW rest \in Seq(Entries), Keeps(rest)
  PROVE  Keeps(<<e>> \o rest)
<1>1. <<e>> \in Seq(Entries)
  OBVIOUS
<1> QED BY <1>1, CleanedAfter DEF Keeps

LEMMA CleanedBefore ==
  ASSUME NEW a \in Seq(Entries), NEW b \in Seq(Entries), NEW p \in Promises,
         BeingCleaned(a, p)
  PROVE  BeingCleaned(a \o b, p)
<1>1. PICK i \in 1..Len(a) : a[i].op \in Settled /\ a[i].on = p
  BY DEF BeingCleaned
<1>2. i \in 1..Len(a \o b) /\ (a \o b)[i] = a[i]
  BY <1>1, ConcatProperties
<1> QED BY <1>1, <1>2 DEF BeingCleaned

LEMMA CleaningIsOn ==
  ASSUME TypeOK, NEW p \in Promises, NEW how \in Settled, NEW rest \in Seq(Entries)
  PROVE  BeingCleaned(Cleaning(p, how) \o rest, p)
<1> DEFINE a == [i \in 1..Len(pendingList[p]) |-> Entry("adopt", pendingList[p][i], p)]
           b == <<Entry(how, p, p)>>
<1>1. \A i \in 1..Len(pendingList[p]) :
        Entry("adopt", pendingList[p][i], p) \in Entries
  BY EntryType DEF TypeOK, Ops
<1>2. a \in Seq(Entries)
  BY <1>1 DEF TypeOK
<1>3. b \in Seq(Entries) /\ BeingCleaned(b, p)
  BY EntryType DEF Settled, Ops, BeingCleaned, Entry
<1>4. BeingCleaned(a \o b, p)
  <2> HIDE DEF a, b
  <2> QED BY <1>2, <1>3, CleanedAfter
<1>5. BeingCleaned(Cleaning(p, how), p)
  BY <1>4 DEF Cleaning
<1> QED BY <1>5, CleaningSeq, CleanedBefore

LEMMA CleaningKeeps ==
  ASSUME TypeOK, NEW p \in Promises, NEW how \in Settled, NEW rest \in Seq(Entries),
         Keeps(rest)
  PROVE  Keeps(Cleaning(p, how) \o rest)
BY CleaningSeq, CleanedAfter DEF Keeps

-----------------------------------------------------------------------------
\* The invariants, but for the types.
Safe == FulfilledWithPlain /\ NobodyLeftBehind

LEMMA RejectSafe ==
  ASSUME TypeOK, Safe, NEW p \in Promises, NEW v \in Values,
         NEW rest \in Seq(Entries), Keeps(rest), Reject(p, v, rest),
         UNCHANGED pendingList
  PROVE  Safe'
<1>1. CASE state[p] # "pending" /\ Ignore(rest)
  BY <1>1 DEF Ignore, Safe, FulfilledWithPlain, NobodyLeftBehind, Keeps
<1>2. CASE /\ state' = [state EXCEPT ![p] = "rejected"]
           /\ value' = [value EXCEPT ![p] = v]
           /\ calls' = Cleaning(p, "rejected") \o rest
  <2>1. Keeps(calls') /\ BeingCleaned(calls', p)
    BY <1>2, CleaningIsOn, CleaningKeeps DEF Settled
  <2>2. FulfilledWithPlain'
    BY <1>2 DEF TypeOK, Safe, FulfilledWithPlain
  <2>3. NobodyLeftBehind'
    BY <1>2, <2>1 DEF TypeOK, Safe, NobodyLeftBehind, Keeps
  <2> QED BY <2>2, <2>3 DEF Safe
<1> QED BY <1>1, <1>2 DEF Reject

LEMMA FulfillSafe ==
  ASSUME TypeOK, Safe, NEW p \in Promises, NEW v \in Plain,
         NEW rest \in Seq(Entries), Keeps(rest), Fulfill(p, v, rest),
         UNCHANGED pendingList
  PROVE  Safe'
<1>1. Keeps(calls') /\ BeingCleaned(calls', p)
  BY CleaningIsOn, CleaningKeeps DEF Settled, Fulfill
<1>2. FulfilledWithPlain'
  BY DEF TypeOK, Safe, FulfilledWithPlain, Fulfill
<1>3. NobodyLeftBehind'
  BY <1>1 DEF TypeOK, Safe, NobodyLeftBehind, Keeps, Fulfill
<1> QED BY <1>2, <1>3 DEF Safe

LEMMA SubscribeSafe ==
  ASSUME TypeOK, Safe, NEW p \in Promises, NEW c \in Free, NEW f, NEW r,
         Subscribe(p, c, f, r), state' = [state EXCEPT ![c] = "pending"],
         UNCHANGED value, Keeps(calls')
  PROVE  Safe'
<1>1. c \in Promises /\ state[c] = "free"
  BY DEF Free, Created
<1>2. FulfilledWithPlain'
  BY <1>1 DEF TypeOK, Safe, FulfilledWithPlain
<1>3. \A q \in Promises : state'[q] \in Settled => state[q] \in Settled
  BY <1>1 DEF TypeOK, Settled
<1>4. \A q \in Promises : state[q] \in Settled => pendingList'[q] = pendingList[q]
  BY DEF TypeOK, Subscribe, Settled
<1>5. NobodyLeftBehind'
  BY <1>3, <1>4 DEF Safe, NobodyLeftBehind, Keeps
<1> QED BY <1>2, <1>5 DEF Safe

LEMMA ResolvedValueSafe ==
  ASSUME TypeOK, Safe, NEW p \in Promises, NEW v \in Values, NEW flag,
         NEW rest \in Seq(Entries), Keeps(rest), ResolvedValue(p, v, flag, rest)
  PROVE  Safe'
<1>1. CASE v \in Plain /\ Fulfill(p, v, rest) /\ NoSubscription
  BY <1>1, FulfillSafe DEF NoSubscription
<1>2. CASE Reject(p, TypeError, rest) /\ NoSubscription
  <2>1. TypeError \in Values
    BY PromiseAssumption DEF Values
  <2> QED BY <1>2, <2>1, RejectSafe DEF NoSubscription
<1>3. CASE /\ v \in Created \ {p}
           /\ \E c \in Free : /\ Subscribe(v, c, p, p)
                              /\ state' = [state EXCEPT ![c] = "pending"]
           /\ calls' = rest /\ UNCHANGED value
  <2>1. PICK c \in Free : Subscribe(v, c, p, p) /\ state' = [state EXCEPT ![c] = "pending"]
    BY <1>3
  <2>2. v \in Promises
    BY <1>3 DEF Created
  <2> QED BY <1>3, <2>1, <2>2, SubscribeSafe
<1>4. CASE NoSubscription /\ Ignore(<<Entry("calling", p, p)>> \o rest)
  <2>1. Keeps(calls')
    BY <1>4, KeepsUnder, EntryType DEF Ignore, Ops
  <2> QED BY <1>4, <2>1 DEF Safe, FulfilledWithPlain, NobodyLeftBehind, Keeps,
                            Ignore, NoSubscription
<1> QED BY <1>1, <1>2, <1>3, <1>4 DEF ResolvedValue

LEMMA ResolveSafe ==
  ASSUME TypeOK, Safe, NEW p \in Promises, NEW v \in Values,
         NEW rest \in Seq(Entries), Keeps(rest), Resolve(p, v, rest)
  PROVE  Safe'
<1>1. CASE ResolvedValue(p, v, TRUE, rest)
  BY <1>1, ResolvedValueSafe
<1>2. CASE Ignore(rest) /\ NoResolution
  BY <1>2 DEF Safe, FulfilledWithPlain, NobodyLeftBehind, Keeps, Ignore,
              NoResolution, NoSubscription
<1> QED BY <1>1, <1>2 DEF Resolve

\* Every step keeps them: one case per action.
LEMMA SafeStep ==
  ASSUME TypeOK, Safe, [Next]_vars
  PROVE  Safe'
<1>v. Plain \subseteq Values /\ Results \subseteq Values /\ Reasons \subseteq Values
  BY PromiseAssumption DEF Values, Thenables
<1>s. calls \in Seq(Entries)
  BY DEF TypeOK
<1>1. ASSUME NEW p \in Promises, New(p)
      PROVE  Safe'
  BY <1>1 DEF New, TypeOK, Safe, FulfilledWithPlain, NobodyLeftBehind, Settled
<1>2. ASSUME NEW p \in Promises, NEW v \in Results, CallResolve(p, v)
      PROVE  Safe'
  BY <1>2, <1>v, <1>s, ResolveSafe, KeepsAll DEF CallResolve
<1>3. ASSUME NEW p \in Promises, NEW v \in Reasons, CallReject(p, v)
      PROVE  Safe'
  BY <1>3, <1>v, <1>s, RejectSafe, KeepsAll DEF CallReject, NoResolution, NoSubscription
<1>4. ASSUME NEW p \in Promises, NEW c \in Promises, NEW h \in HookPairs,
             CallThen(p, c, h[1], h[2])
      PROVE  Safe'
  <2>1. Keeps(calls')
    BY <1>4, KeepsAll DEF CallThen
  <2> QED BY <1>4, <2>1, SubscribeSafe DEF CallThen
<1>5. ASSUME NEW p \in Promises, NEW v \in Results \ Foreign, ForeignResolve(p, v)
      PROVE  Safe'
  BY <1>5, <1>v, <1>s, ResolvedValueSafe, KeepsAll DEF ForeignResolve
<1>6. ASSUME NEW p \in Promises, NEW v \in Reasons, ForeignReject(p, v)
      PROVE  Safe'
  BY <1>6, <1>v, <1>s, RejectSafe, KeepsAll DEF ForeignReject, NoSubscription
<1>7. CASE ForeignReturn
  <2>1. Keeps(Tail(calls))
    BY <1>7, KeepsTail DEF ForeignReturn, Settled
  <2> QED BY <1>7, <2>1 DEF ForeignReturn, Safe, FulfilledWithPlain, NobodyLeftBehind,
                            Keeps, Ignore, NoResolution, NoSubscription
<1>8. ASSUME NEW v \in Results, HandlerReturn(v)
      PROVE  Safe'
  BY <1>8, <1>v, HeadTail, KeepsTail, ResolveSafe DEF HandlerReturn, Settled
<1>9. ASSUME NEW v \in Reasons, HandlerThrow(v)
      PROVE  Safe'
  <2>1. Keeps(Tail(calls))
    BY <1>9, KeepsTail DEF HandlerThrow, Settled
  <2>2. CASE v \notin Falsy
    BY <1>9, <2>1, <2>2, <1>v, HeadTail, RejectSafe
       DEF HandlerThrow, NoResolution, NoSubscription
  <2>3. CASE v \in Falsy
    BY <1>9, <2>1, <2>3, <1>v, HeadTail, ResolveSafe, PromiseAssumption DEF HandlerThrow
  <2> QED BY <2>2, <2>3
<1>10. CASE AdoptState
  <2> DEFINE c == Head(calls).on
             p == Head(calls).from
             hook == IF state[p] = "fulfilled" THEN onResolve[c] ELSE onReject[c]
             back == <<Entry("reply", c, c)>> \o Tail(calls)
             call == <<Entry("handler", c, p)>> \o Tail(calls)
  <2>1. /\ c \in Promises /\ p \in Promises /\ value[p] \in Values
        /\ Tail(calls) \in Seq(Entries)
    BY <1>10, HeadTail DEF AdoptState, TypeOK
  <2>2. Keeps(Tail(calls))
    BY <1>10, KeepsTail DEF AdoptState, Settled
  <2>3. /\ Keeps(back) /\ back \in Seq(Entries)
        /\ Keeps(call) /\ call \in Seq(Entries)
    <3>1. Entry("reply", c, c) \in Entries /\ Entry("handler", c, p) \in Entries
      BY <2>1, EntryType DEF Ops
    <3> DEFINE rest == Tail(calls)
    <3>2. rest \in Seq(Entries) /\ Keeps(rest)
      BY <2>1, <2>2
    <3> HIDE DEF rest
    <3>3. /\ <<Entry("reply", c, c)>> \o rest \in Seq(Entries)
          /\ <<Entry("handler", c, p)>> \o rest \in Seq(Entries)
      BY <3>1, <3>2
    <3>4. Keeps(<<Entry("reply", c, c)>> \o rest)
      BY <3>1, <3>2, KeepsUnder
    <3>5. Keeps(<<Entry("handler", c, p)>> \o rest)
      BY <3>1, <3>2, KeepsUnder
    <3> QED BY <3>3, <3>4, <3>5 DEF rest
  <2> HIDE DEF c, p, hook, back, call
  <2>4. CASE Resolve(c, value[p], Tail(calls))
    BY <2>4, <2>1, <2>2, ResolveSafe
  <2>5. CASE Reject(c, value[p], Tail(calls)) /\ NoResolution
    BY <2>5, <2>1, <2>2, RejectSafe DEF NoResolution, NoSubscription
  <2>6. CASE Ignore(call) /\ NoResolution
    BY <2>6, <2>3 DEF Safe, FulfilledWithPlain, NobodyLeftBehind, Keeps, Ignore,
                      NoResolution, NoSubscription
  <2>7. CASE hook \in Promises /\ ResolvedValue(hook, value[p], resolving[hook], back)
    BY <2>7, <2>1, <2>3, ResolvedValueSafe
  <2>8. CASE hook \in Promises /\ Reject(hook, value[p], back) /\ NoResolution
    BY <2>8, <2>1, <2>3, RejectSafe DEF NoResolution, NoSubscription
  <2> QED BY <1>10, <2>4, <2>5, <2>6, <2>7, <2>8 DEF AdoptState, c, p, hook, back, call
<1>11. CASE Reply
  BY <1>11, <1>v, HeadTail, KeepsTail, ResolveSafe, PromiseAssumption DEF Reply, Settled
<1>12. CASE Cleaned
  <2> DEFINE p == Head(calls).on
  <2>1. p \in Promises /\ UNCHANGED <<state, value>> /\ calls' = Tail(calls)
    BY <1>12, HeadTail DEF Cleaned
  <2>2. FulfilledWithPlain'
    BY <2>1 DEF Safe, FulfilledWithPlain
  <2>3. ASSUME NEW q \in Promises, q # p, BeingCleaned(calls, q)
        PROVE  BeingCleaned(Tail(calls), q)
    <3>1. PICK i \in 1..Len(calls) : calls[i].op \in Settled /\ calls[i].on = q
      BY <2>3 DEF BeingCleaned
    <3>2. i # 1
      BY <3>1, <2>3 DEF TypeOK
    <3>3. i - 1 \in 1..Len(Tail(calls)) /\ Tail(calls)[i - 1] = calls[i]
      BY <3>1, <3>2, <1>12, HeadTailProperties DEF TypeOK, Cleaned
    <3> QED BY <3>1, <3>3 DEF BeingCleaned
  <2>4. pendingList' = [pendingList EXCEPT ![p] = << >>]
    BY <1>12 DEF Cleaned
  <2>5. NobodyLeftBehind'
    <3> HIDE DEF p
    <3> QED BY <2>1, <2>3, <2>4 DEF Safe, NobodyLeftBehind, TypeOK
  <2> QED BY <2>2, <2>5 DEF Safe
<1>13. CASE RunImmediate
  <2>1. Keeps(calls')
    BY <1>13 DEF RunImmediate, Keeps, BeingCleaned
  <2> QED BY <1>13, <2>1 DEF RunImmediate, Safe, FulfilledWithPlain, NobodyLeftBehind, Keeps
<1>14. CASE UNCHANGED vars
  BY <1>14 DEF vars, Safe, FulfilledWithPlain, NobodyLeftBehind
<1> QED BY <1>1, <1>2, <1>3, <1>4, <1>5, <1>6, <1>7, <1>8, <1>9, <1>10, <1>11,
           <1>12, <1>13, <1>14 DEF Next

LEMMA AlwaysSafe == Spec => []Safe
<1>1. Init => Safe
  BY DEF Init, Safe, FulfilledWithPlain, NobodyLeftBehind, Settled
<1>2. TypeOK /\ Safe /\ [Next]_vars => Safe'
  BY SafeStep
<1> QED BY <1>1, <1>2, TypeCorrect, PTL DEF Spec

\* However many promises and foreign thenables a value goes through, a promise
\* is never fulfilled with something that still has a then().
THEOREM FulfilledWithPlainValues == Spec => []FulfilledWithPlain
<1>1. Safe => FulfilledWithPlain
  BY DEF Safe
<1> QED BY <1>1, AlwaysSafe, PTL

\* No subscriber is forgotten in the list of a promise that is settled and
\* cleaned, whatever the subscribers of the same promise did meanwhile.
THEOREM NobodyIsLeftBehind == Spec => []NobodyLeftBehind
<1>1. Safe => NobodyLeftBehind
  BY DEF Safe
<1> QED BY <1>1, AlwaysSafe, PTL

-----------------------------------------------------------------------------
(***************************************************************************)
(* For any promises and values, and clients that do not reject what they   *)
(* have resolved, the promise of the code implements PromiseContract.      *)
(*                                                                         *)
(* Two things are to be shown.  That subscribers are told once and in the  *)
(* order they came: `Line' says that those who are not told yet are, in    *)
(* order, on the stack, in the queue of setImmediate or in the pending     *)
(* list.  And that an outcome is final although the code does not test it  *)
(* everywhere: `Core' says that whoever will settle a promise is alone.    *)
(* This is the owner of its resolver, or what it does in its turn as a     *)
(* subscriber, or one foreign thenable, or one subscription to another     *)
(* promise.                                                                *)
(*                                                                         *)
(* A call settles a promise, or subscribes it, and goes on with `rest':    *)
(* the operators take the stack, what is lent and what was told as         *)
(* parameters, so that lemmas can speak of what holds under that call.     *)
(***************************************************************************)

-----------------------------------------------------------------------------
(***************************************************************************)
(* The invariant.                                                          *)
(***************************************************************************)

\* c has subscribed and was not told; it runs the function it was given, or a
\* resolver for another promise.
Work == {"handler", "reply"}
Awaits(c, tl) ==
  \E p \in Promises : \E k \in 1..Len(subscribers[p]) :
    k > Len(tl[p]) /\ subscribers[p][k] = c
Works(c, cs) == \E i \in 1..Len(cs) : cs[i].op \in Work /\ cs[i].on = c

\* A promise subscribes once.
Distinct ==
  \A p, q \in Promises : \A k \in 1..Len(subscribers[p]), l \in 1..Len(subscribers[q]) :
    subscribers[p][k] = subscribers[q][l] => p = q /\ k = l
Known ==
  \A p \in Promises : \A k \in 1..Len(subscribers[p]) : state[subscribers[p][k]] # "free"

\* It has one thing to do at a time...
WorkOnce(cs) ==
  \A i, j \in 1..Len(cs) :
    cs[i].op \in Work /\ cs[j].op \in Work /\ cs[i].on = cs[j].on => i = j
OneDuty(cs, tl) == \A c \in Promises : Works(c, cs) => ~Awaits(c, tl)

\* ... and nobody else settles it.
Owing(cs, ln, tl) ==
  \A c \in Promises : Awaits(c, tl) \/ Works(c, cs) =>
    state[c] = "pending" /\ ~resolving[c] /\ c \notin held /\ c \notin ln
Fresh == \A p \in Promises : state[p] = "free" => ~resolving[p] /\ p \notin held
Lent(ln) == \A p \in ln : state[p] = "pending" /\ resolving[p]

\* A promise that awaits another one does so once, and is not lent.
Proxy(c) == onResolve[c] \in Promises \/ onReject[c] \in Promises
Proxies(ln, tl) ==
  \A c \in Promises : Awaits(c, tl) /\ Proxy(c) =>
    /\ onResolve[c] = onReject[c]
    /\ state[onResolve[c]] = "pending" /\ resolving[onResolve[c]] /\ onResolve[c] \notin ln
    /\ \A d \in Promises : Awaits(d, tl) /\ onResolve[d] = onResolve[c] => c = d

Core(cs, ln, tl) ==
  /\ Distinct /\ Known /\ Fresh
  /\ WorkOnce(cs) /\ OneDuty(cs, tl) /\ Owing(cs, ln, tl)
  /\ Lent(ln) /\ Proxies(ln, tl)

\* The subscribers of a pending promise are those of its list.
NotYet(tl) ==
  \A p \in Promises : state[p] \notin Settled =>
    tl[p] = << >> /\ pendingList[p] = subscribers[p]
Shorter(tl) == \A p \in Promises : Len(tl[p]) <= Len(subscribers[p])

\* Whoever is in the line of a settled promise has not been told, and who came
\* first is in front; nobody is missing.
Queued(s, tl) ==
  \A i \in 1..Len(s) : s[i].op = "adopt" =>
    /\ state[s[i].from] \in Settled
    /\ \E k \in 1..Len(subscribers[s[i].from]) :
         k > Len(tl[s[i].from]) /\ subscribers[s[i].from][k] = s[i].on
Before(d, e, subs) ==
  d.op = "adopt" /\ e.op = "adopt" /\ d.from = e.from =>
    \A k, l \in 1..Len(subs[d.from]) :
      subs[d.from][k] = d.on /\ subs[d.from][l] = e.on => k < l
Ordered(s) == \A i, j \in 1..Len(s) : i < j => Before(s[i], s[j], subscribers)
Ahead(cs) ==
  \A i \in 1..Len(cs), j \in 1..Len(immediates) : Before(cs[i], immediates[j], subscribers)
In(s, p, c) == \E i \in 1..Len(s) : s[i] = Entry("adopt", c, p)
NoneMissing(cs, tl) ==
  \A p \in Promises : state[p] \in Settled =>
    \A k \in 1..Len(subscribers[p]) : k > Len(tl[p]) =>
      In(cs, p, subscribers[p][k]) \/ In(immediates, p, subscribers[p][k])

Line(cs, tl) ==
  /\ NotYet(tl) /\ Shorter(tl)
  /\ Queued(cs, tl) /\ Queued(immediates, tl)
  /\ Ordered(cs) /\ Ordered(immediates) /\ Ahead(cs)
  /\ NoneMissing(cs, tl)

\* What is left to report was rejected, and a promise that somebody subscribed
\* to knows it.
Cleans(cs) == \A i \in 1..Len(cs) : cs[i].op \in Settled => state[cs[i].on] = cs[i].op
Unhandled ==
  \A i \in 1..Len(immediates) :
    immediates[i].op = "unhandled" => state[immediates[i].on] = "rejected"
Handled == \A p \in Promises : ~handled[p] => subscribers[p] = << >>

Reports(cs) == Cleans(cs) /\ Unhandled /\ Handled

Good == Core(calls, lent, told) /\ Line(calls, told) /\ Reports(calls)
Inv == TypeOK /\ Good

\* A call leaves rest to run, when tl was told.
Under(rest, tl) ==
  /\ TypeOK /\ rest \in Seq(Entries) /\ tl \in [Promises -> Seq(Promises)]
  /\ Core(rest, lent, tl) /\ Line(rest, tl) /\ Reports(rest)

\* What a step does to the outcomes and to the subscribers: it settles at most
\* one promise, adds at most one subscriber, which is new, and tells at most one,
\* the next.
Final(q) ==
  /\ state'[q] \in Settled <=> state[q] \in Settled
  /\ state[q] \in Settled => state'[q] = state[q] /\ value'[q] = value[q]
Outcomes ==
  \/ \A q \in Promises : Final(q)
  \/ \E p \in Promises : state[p] \notin Settled /\ \A q \in Promises \ {p} : Final(q)
Subscribing ==
  \/ UNCHANGED subscribers
  \/ \E p, c \in Promises :
       /\ \A q \in Promises : \A k \in 1..Len(subscribers[q]) : subscribers[q][k] # c
       /\ subscribers' = [subscribers EXCEPT ![p] = Append(@, c)]
Telling ==
  \/ UNCHANGED told
  \/ \E p \in Promises :
       /\ state[p] \in Settled /\ Len(told[p]) < Len(subscribers[p])
       /\ told' = [told EXCEPT ![p] = Append(@, subscribers[p][Len(@) + 1])]

-----------------------------------------------------------------------------
(***************************************************************************)
(* Where the entries of a sequence are after it has changed.               *)
(***************************************************************************)
LEMMA ConcatAt ==
  ASSUME NEW a \in Seq(Entries), NEW b \in Seq(Entries), NEW c, c = a \o b
  PROVE  /\ c \in Seq(Entries) /\ Len(a) \in Nat /\ Len(b) \in Nat
         /\ Len(c) = Len(a) + Len(b)
         /\ \A i \in 1..Len(a) : c[i] = a[i]
         /\ \A i \in 1..Len(b) : c[Len(a) + i] = b[i]
BY ConcatProperties

LEMMA TailAt ==
  ASSUME NEW s \in Seq(Entries), s # << >>
  PROVE  /\ Len(s) \in Nat /\ Len(s) >= 1 /\ Len(Tail(s)) = Len(s) - 1
         /\ Tail(s) \in Seq(Entries) /\ Head(s) = s[1] /\ Head(s) \in Entries
         /\ \A i \in 1..Len(Tail(s)) : i + 1 \in 1..Len(s) /\ Tail(s)[i] = s[i + 1]
         /\ \A j \in 1..Len(s) : j # 1 => j - 1 \in 1..Len(Tail(s)) /\ Tail(s)[j - 1] = s[j]
BY HeadTailProperties

LEMMA PushAt ==
  ASSUME NEW e \in Entries, NEW s \in Seq(Entries)
  PROVE  /\ <<e>> \o s \in Seq(Entries) /\ Len(s) \in Nat
         /\ Len(<<e>> \o s) = Len(s) + 1 /\ (<<e>> \o s)[1] = e
         /\ \A i \in 1..Len(s) : i + 1 \in 1..Len(<<e>> \o s) /\ (<<e>> \o s)[i + 1] = s[i]
         /\ \A j \in 1..Len(<<e>> \o s) : j # 1 => j - 1 \in 1..Len(s) /\ (<<e>> \o s)[j] = s[j - 1]
<1>1. <<e>> \in Seq(Entries) /\ Len(<<e>>) = 1 /\ <<e>>[1] = e
  OBVIOUS
<1>2. /\ <<e>> \o s \in Seq(Entries) /\ Len(<<e>> \o s) = Len(<<e>>) + Len(s)
      /\ \A i \in 1..(Len(<<e>>) + Len(s)) :
           (<<e>> \o s)[i] = IF i <= Len(<<e>>) THEN <<e>>[i] ELSE s[i - Len(<<e>>)]
  BY <1>1, ConcatProperties
<1> DEFINE t == <<e>> \o s
           u == <<e>>
<1> HIDE DEF t, u
<1>3. Len(s) \in Nat
  OBVIOUS
<1>4. /\ t \in Seq(Entries) /\ Len(t) = 1 + Len(s)
      /\ \A i \in 1..(1 + Len(s)) : t[i] = IF i <= 1 THEN u[i] ELSE s[i - 1]
      /\ u[1] = e
  BY <1>1, <1>2 DEF t, u
<1>5. /\ t \in Seq(Entries) /\ Len(t) = Len(s) + 1 /\ t[1] = e
      /\ \A i \in 1..Len(s) : i + 1 \in 1..Len(t) /\ t[i + 1] = s[i]
      /\ \A j \in 1..Len(t) : j # 1 => j - 1 \in 1..Len(s) /\ t[j] = s[j - 1]
  BY <1>3, <1>4
<1> QED BY <1>3, <1>5 DEF t

LEMMA AppendAt ==
  ASSUME NEW s \in Seq(Entries), NEW e \in Entries
  PROVE  /\ Append(s, e) \in Seq(Entries) /\ Len(s) \in Nat
         /\ Len(Append(s, e)) = Len(s) + 1 /\ Append(s, e)[Len(s) + 1] = e
         /\ \A i \in 1..Len(s) : Append(s, e)[i] = s[i]
BY AppendProperties

\* s has the subscribers of p first, then the end of clean(), then the rest.
IsCleaning(s, n, p, how, rest) ==
  /\ n = Len(pendingList[p]) /\ n \in Nat /\ Len(rest) \in Nat
  /\ s \in Seq(Entries) /\ Len(s) = n + 1 + Len(rest)
  /\ \A i \in 1..n : s[i] = Entry("adopt", pendingList[p][i], p)
  /\ s[n + 1] = Entry(how, p, p)
  /\ \A i \in 1..Len(rest) : s[n + 1 + i] = rest[i]

LEMMA CleaningAt ==
  ASSUME TypeOK, NEW p \in Promises, NEW how \in Settled, NEW rest \in Seq(Entries)
  PROVE  IsCleaning(Cleaning(p, how) \o rest, Len(pendingList[p]), p, how, rest)
<1> PICK n : n = Len(pendingList[p])
  OBVIOUS
<1> PICK s : s = Cleaning(p, how) \o rest
  OBVIOUS
<1> DEFINE a == [i \in 1..n |-> Entry("adopt", pendingList[p][i], p)]
           b == <<Entry(how, p, p)>>
<1>1. n \in Nat /\ \A i \in 1..n : Entry("adopt", pendingList[p][i], p) \in Entries
  BY EntryType DEF TypeOK, Ops
<1>2. a \in Seq(Entries) /\ Len(a) = n /\ \A i \in 1..n : a[i] = Entry("adopt", pendingList[p][i], p)
  BY <1>1
<1>3. b \in Seq(Entries) /\ Len(b) = 1 /\ b[1] = Entry(how, p, p)
  BY EntryType DEF Settled, Ops
<1>4. s = (a \o b) \o rest
  BY DEF Cleaning
<1> HIDE DEF a, b
<1> DEFINE e == Entry(how, p, p)
<1>5. e \in Entries
  BY EntryType DEF Settled, Ops
<1>6. PICK c : c = Append(a, e)
  OBVIOUS
<1>7. c \in Seq(Entries) /\ Len(c) = n + 1 /\ c[n + 1] = e /\ \A i \in 1..n : c[i] = a[i]
  <2> HIDE DEF e
  <2> QED BY <1>2, <1>5, <1>6, AppendAt
<1>8. s = c \o rest
  BY <1>2, <1>4, <1>5, <1>6, AppendIsConcat DEF b
<1>9. /\ s \in Seq(Entries) /\ Len(rest) \in Nat /\ Len(s) = Len(c) + Len(rest)
      /\ \A i \in 1..Len(c) : s[i] = c[i]
      /\ \A i \in 1..Len(rest) : s[Len(c) + i] = rest[i]
  <2>1. c \in Seq(Entries)
    BY <1>7
  <2> QED BY <1>8, <2>1, ConcatAt
<1>10. /\ \A i \in 1..n : s[i] = c[i]
       /\ s[n + 1] = c[n + 1]
       /\ \A i \in 1..Len(rest) : s[n + 1 + i] = rest[i]
  <2>1. \A i \in 1..n : i \in 1..(n + 1)
    BY <1>1
  <2>2. n + 1 \in 1..(n + 1)
    BY <1>1
  <2> QED BY <1>7, <1>9, <2>1, <2>2
<1>11. /\ n \in Nat /\ Len(rest) \in Nat
       /\ s \in Seq(Entries) /\ Len(s) = n + 1 + Len(rest)
       /\ \A i \in 1..n : s[i] = Entry("adopt", pendingList[p][i], p)
       /\ s[n + 1] = Entry(how, p, p)
       /\ \A i \in 1..Len(rest) : s[n + 1 + i] = rest[i]
  BY <1>1, <1>2, <1>7, <1>9, <1>10
<1>12. IsCleaning(s, n, p, how, rest)
  BY <1>11 DEF IsCleaning
<1> QED BY <1>12

\* clearImmediate takes no subscriber out of the queue.
LEMMA WithoutAt ==
  ASSUME TypeOK, NEW p \in Promises
  PROVE  \E w \in Seq(Entries) :
           /\ w = WithoutUnhandled(p)
           /\ \E f \in [1..Len(w) -> 1..Len(immediates)] :
                /\ \A i \in 1..Len(w) : w[i] = immediates[f[i]]
                /\ \A i, j \in 1..Len(w) : i < j => f[i] < f[j]
           /\ \A j \in 1..Len(immediates) :
                immediates[j].op = "adopt" => \E i \in 1..Len(w) : w[i] = immediates[j]
<1>w. PICK w : w = WithoutUnhandled(p)
  OBVIOUS
<1>1. immediates \in Seq(Entries) /\ Len(immediates) \in Nat
  BY DEF TypeOK
<1>2. CASE Scheduled(p) = {}
  <2>1. w = immediates
    BY <1>2, <1>w DEF WithoutUnhandled
  <2> DEFINE f == [i \in 1..Len(w) |-> i]
  <2>2. f \in [1..Len(w) -> 1..Len(immediates)]
    BY <2>1, <1>1
  <2> QED BY <2>1, <2>2, <1>1, <1>w
<1>3. CASE Scheduled(p) # {}
  <2> DEFINE i == CHOOSE i \in Scheduled(p) : TRUE
  <2>1. i \in 1..Len(immediates) /\ immediates[i] = Entry("unhandled", p, p)
    BY <1>3 DEF Scheduled
  <2>2. w = SubSeq(immediates, 1, i - 1) \o SubSeq(immediates, i + 1, Len(immediates))
    BY <1>3, <1>w DEF WithoutUnhandled
  <2> HIDE DEF i
  <2> DEFINE a == SubSeq(immediates, 1, i - 1)
             b == SubSeq(immediates, i + 1, Len(immediates))
             m == Len(immediates)
  <2>3. a \in Seq(Entries) /\ Len(a) = i - 1 /\ \A j \in 1..(i - 1) : a[j] = immediates[j]
    BY <1>1, <2>1, SubSeqProperties
  <2>4. /\ b \in Seq(Entries) /\ Len(b) = m - i
        /\ \A j \in 1..(m - i) : b[j] = immediates[i + j]
    BY <1>1, <2>1, SubSeqProperties
  <2> HIDE DEF a, b
  <2>5. /\ w \in Seq(Entries) /\ Len(w) = Len(a) + Len(b)
        /\ \A j \in 1..(Len(a) + Len(b)) : w[j] = IF j <= Len(a) THEN a[j] ELSE b[j - Len(a)]
    <3>1. w = a \o b
      BY <2>2 DEF a, b
    <3>2. a \in Seq(Entries) /\ b \in Seq(Entries)
      BY <2>3, <2>4
    <3> QED BY <3>1, <3>2, ConcatProperties
  <2>6. m \in Nat /\ i \in 1..m
    BY <1>1, <2>1
  <2> HIDE DEF m
  <2>7. /\ Len(w) = m - 1
        /\ \A j \in 1..(m - 1) : w[j] = IF j < i THEN immediates[j] ELSE immediates[j + 1]
    <3>1. Len(w) = m - 1
      BY <2>3, <2>4, <2>5, <2>6
    <3>2. ASSUME NEW j \in 1..(m - 1) PROVE w[j] = IF j < i THEN immediates[j] ELSE immediates[j + 1]
      <4>1. CASE j < i
        BY <4>1, <2>3, <2>4, <2>5, <2>6
      <4>2. CASE ~(j < i)
        <5>1. j - Len(a) \in 1..(m - i) /\ i + (j - Len(a)) = j + 1 /\ ~(j <= Len(a))
          BY <4>2, <2>3, <2>6
        <5> QED BY <4>2, <5>1, <2>3, <2>4, <2>5, <2>6
      <4> QED BY <4>1, <4>2
    <3> QED BY <3>1, <3>2
  <2> DEFINE f == [j \in 1..Len(w) |-> IF j < i THEN j ELSE j + 1]
  <2>8. f \in [1..Len(w) -> 1..m]
    BY <2>6, <2>7
  <2>9. \A j \in 1..Len(w) : w[j] = immediates[f[j]]
    BY <2>6, <2>7
  <2>10. \A j, k \in 1..Len(w) : j < k => f[j] < f[k]
    BY <2>6, <2>7
  <2>11. ASSUME NEW j \in 1..m, immediates[j].op = "adopt"
         PROVE  \E k \in 1..Len(w) : w[k] = immediates[j]
    <3>1. j # i
      BY <2>1, <2>11 DEF Entry
    <3>2. CASE j < i
      BY <3>2, <2>6, <2>7
    <3>3. CASE j > i
      <4>1. j - 1 \in 1..(m - 1) /\ ~(j - 1 < i) /\ (j - 1) + 1 = j
        BY <3>3, <2>6
      <4> QED BY <4>1, <2>7
    <3> QED BY <3>1, <3>2, <3>3, <2>6
  <2> HIDE DEF f
  <2> QED BY <1>w, <2>5, <2>8, <2>9, <2>10, <2>11 DEF m
<1> QED BY <1>2, <1>3

-----------------------------------------------------------------------------
(***************************************************************************)
(* The line.                                                               *)
(***************************************************************************)
LEMMA EntryAt ==
  ASSUME NEW s \in Seq(Entries), NEW i \in 1..Len(s)
  PROVE  s[i] \in Entries /\ s[i].op \in Ops /\ s[i].on \in Promises /\ s[i].from \in Promises
<1>1. s[i] \in Entries
  OBVIOUS
<1> QED BY <1>1 DEF Entries

LEMMA LowerPlace ==
  ASSUME NEW d, NEW e, Before(d, e, subscribers), d.op = "adopt", e.op = "adopt",
         NEW p, d.from = p, e.from = p
  PROVE  \A k, l \in 1..Len(subscribers[p]) :
           subscribers[p][k] = d.on /\ subscribers[p][l] = e.on => k < l
BY DEF Before

LEMMA LineIgnore ==
  ASSUME NEW rest, NEW tl, Line(rest, tl), calls' = rest, told' = tl,
         UNCHANGED <<state, pendingList, subscribers, immediates>>
  PROVE  Line(calls, told)'
BY DEF Line, NotYet, Shorter, Queued, Ordered, Ahead, NoneMissing, In

\* An entry that is no subscriber may come and go on the stack.
LEMMA LinePush ==
  ASSUME TypeOK, NEW e \in Entries, e.op # "adopt", NEW rest \in Seq(Entries), NEW tl,
         Line(rest, tl)
  PROVE  Line(<<e>> \o rest, tl)
<1> DEFINE s == <<e>> \o rest
<1>1. /\ s[1] = e /\ Len(rest) \in Nat /\ Len(s) = Len(rest) + 1
      /\ \A i \in 1..Len(rest) : i + 1 \in 1..Len(s) /\ s[i + 1] = rest[i]
      /\ \A j \in 1..Len(s) : j # 1 => j - 1 \in 1..Len(rest) /\ s[j] = rest[j - 1]
  BY PushAt
<1> HIDE DEF s
<1>2. Queued(s, tl)
  <2>1. Queued(rest, tl)
    BY DEF Line
  <2> SUFFICES ASSUME NEW i \in 1..Len(s), s[i].op = "adopt"
               PROVE  /\ state[s[i].from] \in Settled
                      /\ \E k \in 1..Len(subscribers[s[i].from]) :
                           k > Len(tl[s[i].from]) /\ subscribers[s[i].from][k] = s[i].on
    BY DEF Queued
  <2>2. i - 1 \in 1..Len(rest) /\ s[i] = rest[i - 1]
    BY <1>1
  <2> QED BY <2>1, <2>2 DEF Queued
<1>3. Ordered(s)
  <2> SUFFICES ASSUME NEW i \in 1..Len(s), NEW j \in 1..Len(s), i < j
               PROVE  Before(s[i], s[j], subscribers)
    BY DEF Ordered
  <2>1. CASE i = 1
    BY <1>1, <2>1 DEF Before
  <2>2. CASE i # 1
    <3>1. j # 1 /\ i - 1 < j - 1
      BY <2>2
    <3> QED BY <1>1, <2>2, <3>1 DEF Line, Ordered
  <2> QED BY <2>1, <2>2
<1>4. Ahead(s)
  <2> SUFFICES ASSUME NEW i \in 1..Len(s), NEW j \in 1..Len(immediates)
               PROVE  Before(s[i], immediates[j], subscribers)
    BY DEF Ahead
  <2>1. CASE i = 1
    BY <1>1, <2>1 DEF Before
  <2>2. CASE i # 1
    BY <1>1, <2>2 DEF Line, Ahead
  <2> QED BY <2>1, <2>2
<1>5. NoneMissing(s, tl)
  <2> SUFFICES ASSUME NEW p \in Promises, NEW c, In(rest, p, c)
               PROVE  In(s, p, c)
    BY DEF Line, NoneMissing
  <2> QED BY <1>1 DEF In
<1> QED BY <1>2, <1>3, <1>4, <1>5 DEF Line, s

LEMMA LinePop ==
  ASSUME TypeOK, calls # << >>, Head(calls).op # "adopt", Line(calls, told)
  PROVE  Line(Tail(calls), told)
<1> DEFINE s == Tail(calls)
<1>1. /\ Head(calls) = calls[1] /\ Len(calls) \in Nat /\ Len(s) = Len(calls) - 1
      /\ \A i \in 1..Len(s) : i + 1 \in 1..Len(calls) /\ s[i] = calls[i + 1]
      /\ \A j \in 1..Len(calls) : j # 1 => j - 1 \in 1..Len(s) /\ s[j - 1] = calls[j]
  BY TailAt DEF TypeOK
<1> HIDE DEF s
<1>2. Queued(s, told)
  <2>1. Queued(calls, told)
    BY DEF Line
  <2> SUFFICES ASSUME NEW i \in 1..Len(s), s[i].op = "adopt"
               PROVE  /\ state[s[i].from] \in Settled
                      /\ \E k \in 1..Len(subscribers[s[i].from]) :
                           k > Len(told[s[i].from]) /\ subscribers[s[i].from][k] = s[i].on
    BY DEF Queued
  <2>2. i + 1 \in 1..Len(calls) /\ s[i] = calls[i + 1]
    BY <1>1
  <2> QED BY <2>1, <2>2 DEF Queued
<1>3. Ordered(s)
  BY <1>1 DEF Line, Ordered
<1>4. Ahead(s)
  BY <1>1 DEF Line, Ahead
<1>5. NoneMissing(s, told)
  <2> SUFFICES ASSUME NEW p \in Promises, NEW c, In(calls, p, c)
               PROVE  In(s, p, c)
    BY DEF Line, NoneMissing
  <2>1. PICK i \in 1..Len(calls) : calls[i] = Entry("adopt", c, p)
    BY DEF In
  <2>2. i # 1
    BY <1>1, <2>1 DEF Entry
  <2>3. i - 1 \in 1..Len(s) /\ s[i - 1] = Entry("adopt", c, p)
    BY <1>1, <2>1, <2>2
  <2> QED BY <2>3 DEF In
<1> QED BY <1>2, <1>3, <1>4, <1>5 DEF Line, s

\* The subscriber at the head is the next one, and has been told once it is gone.
LEMMA LineTell ==
  ASSUME TypeOK, Distinct, calls # << >>, Head(calls).op = "adopt", Line(calls, told),
         NEW p, p = Head(calls).from, NEW c, c = Head(calls).on,
         NEW n, n = Len(told[p]) + 1
  PROVE  /\ p \in Promises /\ state[p] \in Settled
         /\ n \in 1..Len(subscribers[p]) /\ subscribers[p][n] = c
         /\ Line(Tail(calls), [told EXCEPT ![p] = Append(@, c)])
<1> DEFINE s == Tail(calls)
           tl == [told EXCEPT ![p] = Append(@, c)]
<1>1. /\ Head(calls) = calls[1] /\ Len(calls) \in Nat /\ Len(calls) >= 1
      /\ Len(s) = Len(calls) - 1
      /\ \A i \in 1..Len(s) : i + 1 \in 1..Len(calls) /\ s[i] = calls[i + 1]
      /\ \A j \in 1..Len(calls) : j # 1 => j - 1 \in 1..Len(s) /\ s[j - 1] = calls[j]
  BY TailAt DEF TypeOK
<1>2. p \in Promises /\ c \in Promises
  BY HeadTail
<1>3. /\ told \in [Promises -> Seq(Promises)]
      /\ subscribers \in [Promises -> Seq(Promises)]
  BY DEF TypeOK
<1>4. n \in Nat /\ n >= 1 /\ Len(told[p]) = n - 1
  BY <1>2, <1>3
<1>5. tl \in [Promises -> Seq(Promises)] /\ Len(tl[p]) = n /\ \A q \in Promises : q # p => tl[q] = told[q]
  BY <1>2, <1>3, <1>4, AppendProperties
<1> HIDE DEF s, tl
<1>6. PICK k \in 1..Len(subscribers[p]) : k > Len(told[p]) /\ subscribers[p][k] = c
  BY <1>1 DEF Line, Queued
<1>7. state[p] \in Settled
  BY <1>1 DEF Line, Queued
<1>8. n \in 1..Len(subscribers[p])
  BY <1>2, <1>3, <1>4, <1>6
<1>9. subscribers[p][n] = c
  <2>1. In(calls, p, subscribers[p][n]) \/ In(immediates, p, subscribers[p][n])
    BY <1>2, <1>4, <1>7, <1>8 DEF Line, NoneMissing
  <2>2. CASE In(calls, p, subscribers[p][n])
    <3>1. PICK j \in 1..Len(calls) : calls[j] = Entry("adopt", subscribers[p][n], p)
      BY <2>2 DEF In
    <3>2. CASE j = 1
      BY <1>1, <3>1, <3>2 DEF Entry
    <3>3. CASE j # 1
      <4>1. Before(calls[1], calls[j], subscribers)
        BY <1>1, <3>3 DEF Line, Ordered
      <4>2. /\ calls[1].op = "adopt" /\ calls[1].from = p /\ calls[1].on = c
            /\ calls[j].op = "adopt" /\ calls[j].from = p /\ calls[j].on = subscribers[p][n]
        BY <1>1, <3>1 DEF Entry
      <4>3. \A k1, n1 \in 1..Len(subscribers[p]) :
              subscribers[p][k1] = calls[1].on /\ subscribers[p][n1] = calls[j].on => k1 < n1
        BY <4>1, <4>2, LowerPlace
      <4>4. k < n
        BY <1>6, <1>8, <4>2, <4>3
      <4>5. k \in Nat /\ k > n - 1 /\ n \in Nat
        BY <1>3, <1>2, <1>4, <1>6
      <4> QED BY ONLY <4>4, <4>5
    <3> QED BY <3>2, <3>3
  <2>3. CASE In(immediates, p, subscribers[p][n])
    <3>1. PICK j \in 1..Len(immediates) : immediates[j] = Entry("adopt", subscribers[p][n], p)
      BY <2>3 DEF In
    <3>2. Before(calls[1], immediates[j], subscribers)
      BY <1>1 DEF Line, Ahead
    <3>3. /\ calls[1].op = "adopt" /\ calls[1].from = p /\ calls[1].on = c
          /\ immediates[j].op = "adopt" /\ immediates[j].from = p
          /\ immediates[j].on = subscribers[p][n]
      BY <1>1, <3>1 DEF Entry
    <3>4. \A k1, n1 \in 1..Len(subscribers[p]) :
            subscribers[p][k1] = calls[1].on /\ subscribers[p][n1] = immediates[j].on => k1 < n1
      BY <3>2, <3>3, LowerPlace
    <3>5. k < n
      BY <1>6, <1>8, <3>3, <3>4
    <3>6. k \in Nat /\ k > n - 1 /\ n \in Nat
      BY <1>3, <1>2, <1>4, <1>6
    <3> QED BY ONLY <3>5, <3>6
  <2> QED BY <2>1, <2>2, <2>3
<1>10. NotYet(tl) /\ Shorter(tl)
  <2>1. NotYet(told) /\ Shorter(told)
    BY DEF Line
  <2>2. NotYet(tl)
    BY <1>5, <1>7, <2>1 DEF NotYet
  <2>3. Shorter(tl)
    <3> SUFFICES ASSUME NEW q \in Promises PROVE Len(tl[q]) <= Len(subscribers[q])
      BY DEF Shorter
    <3>1. CASE q = p
      <4>1. Len(subscribers[p]) \in Nat
        BY <1>2, <1>3
      <4> QED BY <1>4, <1>5, <1>8, <3>1, <4>1
    <3>2. CASE q # p
      BY <1>5, <2>1, <3>2 DEF Shorter
    <3> QED BY <3>1, <3>2
  <2> QED BY <2>2, <2>3
\* Who comes behind the head has a higher place.
<1>11. ASSUME NEW d, Before(calls[1], d, subscribers), d.op = "adopt", state[d.from] \in Settled,
              d.from \in Promises,
              \E l \in 1..Len(subscribers[d.from]) :
                l > Len(told[d.from]) /\ subscribers[d.from][l] = d.on
       PROVE  \E l \in 1..Len(subscribers[d.from]) :
                l > Len(tl[d.from]) /\ subscribers[d.from][l] = d.on
  <2>1. PICK l \in 1..Len(subscribers[d.from]) : l > Len(told[d.from]) /\ subscribers[d.from][l] = d.on
    BY <1>11
  <2>2. CASE d.from # p
    BY <1>5, <1>11, <2>1, <2>2
  <2>3. CASE d.from = p
    <3>1. calls[1].op = "adopt" /\ calls[1].from = p /\ calls[1].on = c
      BY <1>1
    <3>2. l \in 1..Len(subscribers[p]) /\ subscribers[p][l] = d.on
      BY <2>1, <2>3
    <3>3. \A k1, l1 \in 1..Len(subscribers[p]) :
            subscribers[p][k1] = calls[1].on /\ subscribers[p][l1] = d.on => k1 < l1
      BY <1>11, <2>3, <3>1, LowerPlace, SMTT(30)
    <3>4. n < l
      BY <1>8, <1>9, <3>1, <3>2, <3>3
    <3> QED BY <1>5, <2>1, <2>3, <3>4
  <2> QED BY <2>2, <2>3
<1>12. \A i \in 1..Len(calls) : calls[i] \in Entries /\ calls[i].from \in Promises
  BY EntryAt DEF TypeOK
<1>13. \A i \in 1..Len(immediates) : immediates[i] \in Entries /\ immediates[i].from \in Promises
  BY EntryAt DEF TypeOK
<1>14. Queued(s, tl)
  <2> SUFFICES ASSUME NEW i \in 1..Len(s), s[i].op = "adopt"
               PROVE  /\ state[s[i].from] \in Settled
                      /\ \E l \in 1..Len(subscribers[s[i].from]) :
                           l > Len(tl[s[i].from]) /\ subscribers[s[i].from][l] = s[i].on
    BY DEF Queued
  <2>1. i + 1 \in 1..Len(calls) /\ s[i] = calls[i + 1] /\ 1 < i + 1 /\ 1 \in 1..Len(calls)
    BY <1>1
  <2>2. Before(calls[1], s[i], subscribers)
    BY <2>1 DEF Line, Ordered
  <2>3. /\ state[s[i].from] \in Settled /\ s[i].from \in Promises
        /\ \E l \in 1..Len(subscribers[s[i].from]) :
             l > Len(told[s[i].from]) /\ subscribers[s[i].from][l] = s[i].on
    BY <1>12, <2>1 DEF Line, Queued
  <2> QED BY <1>11, <2>2, <2>3
<1>15. Queued(immediates, tl)
  <2> SUFFICES ASSUME NEW i \in 1..Len(immediates), immediates[i].op = "adopt"
               PROVE  /\ state[immediates[i].from] \in Settled
                      /\ \E l \in 1..Len(subscribers[immediates[i].from]) :
                           /\ l > Len(tl[immediates[i].from])
                           /\ subscribers[immediates[i].from][l] = immediates[i].on
    BY DEF Queued
  <2>1. Before(calls[1], immediates[i], subscribers)
    BY <1>1 DEF Line, Ahead
  <2>2. /\ state[immediates[i].from] \in Settled /\ immediates[i].from \in Promises
        /\ \E l \in 1..Len(subscribers[immediates[i].from]) :
             /\ l > Len(told[immediates[i].from])
             /\ subscribers[immediates[i].from][l] = immediates[i].on
    BY <1>13 DEF Line, Queued
  <2> QED BY <1>11, <2>1, <2>2
<1>16. Ordered(s) /\ Ahead(s)
  BY <1>1 DEF Line, Ordered, Ahead
<1>17. NoneMissing(s, tl)
  <2> SUFFICES ASSUME NEW q \in Promises, state[q] \in Settled, NEW l \in 1..Len(subscribers[q]),
                      l > Len(tl[q])
               PROVE  In(s, q, subscribers[q][l]) \/ In(immediates, q, subscribers[q][l])
    BY DEF NoneMissing
  <2>1. l > Len(told[q]) /\ ~(q = p /\ l = n)
    BY <1>4, <1>5
  <2>2. In(calls, q, subscribers[q][l]) \/ In(immediates, q, subscribers[q][l])
    BY <2>1 DEF Line, NoneMissing
  <2>3. CASE In(calls, q, subscribers[q][l])
    <3>1. PICK j \in 1..Len(calls) : calls[j] = Entry("adopt", subscribers[q][l], q)
      BY <2>3 DEF In
    <3>2. j # 1
      BY <1>1, <1>2, <1>8, <1>9, <2>1, <3>1, SMTT(30) DEF Distinct, Entry
    <3> QED BY <1>1, <3>1, <3>2 DEF In
  <2> QED BY <2>2, <2>3
<1>18. Ordered(immediates)
  BY DEF Line
<1> QED BY <1>2, <1>7, <1>8, <1>9, <1>10, <1>14, <1>15, <1>16, <1>17, <1>18 DEF Line, s, tl

\* A promise that is settled has its whole list told, before anything else.
LEMMA LineCleaning ==
  ASSUME TypeOK, Distinct, NEW p \in Promises, NEW how \in Settled,
         NEW rest \in Seq(Entries), NEW tl \in [Promises -> Seq(Promises)],
         Line(rest, tl), state[p] = "pending", state' = [state EXCEPT ![p] = how],
         NEW s, NEW n, IsCleaning(s, n, p, how, rest),
         UNCHANGED <<pendingList, subscribers, immediates>>
  PROVE  Line(s, tl)'
<1>1. /\ n \in Nat /\ Len(rest) \in Nat
      /\ s \in Seq(Entries) /\ Len(s) = n + 1 + Len(rest)
      /\ \A i \in 1..n : s[i] = Entry("adopt", pendingList[p][i], p)
      /\ s[n + 1] = Entry(how, p, p)
      /\ \A i \in 1..Len(rest) : s[n + 1 + i] = rest[i]
  BY DEF IsCleaning
<1>2. tl[p] = << >> /\ pendingList[p] = subscribers[p]
  BY DEF Line, NotYet, Settled
<1>n. 1..n = 1..Len(subscribers[p])
  BY <1>2 DEF IsCleaning
<1>3. /\ \A i \in 1..n : /\ s[i].op = "adopt" /\ s[i].from = p /\ s[i].on = subscribers[p][i]
                         /\ i \in 1..Len(s)
      /\ s[n + 1].op # "adopt"
  <2>1. how # "adopt"
    BY DEF Settled
  <2>2. ASSUME NEW i \in 1..n
        PROVE  i \in 1..Len(s) /\ s[i].op = "adopt" /\ s[i].from = p /\ s[i].on = subscribers[p][i]
    <3>1. i \in 1..Len(s)
      BY <1>1
    <3>2. s[i] = Entry("adopt", pendingList[p][i], p)
      BY <1>1
    <3> QED BY <1>2, <3>1, <3>2 DEF Entry
  <2>3. s[n + 1].op # "adopt"
    BY <1>1, <2>1 DEF Entry
  <2> QED BY <2>2, <2>3
<1>4. ASSUME NEW i \in 1..Len(s), ~(i \in 1..n), i # n + 1
      PROVE  i - (n + 1) \in 1..Len(rest) /\ s[i] = rest[i - (n + 1)]
  <2>1. i - (n + 1) \in 1..Len(rest) /\ n + 1 + (i - (n + 1)) = i
    BY <1>1, <1>4
  <2> QED BY <1>1, <2>1
<1>5. \A i \in 1..Len(rest) : n + 1 + i \in 1..Len(s) /\ s[n + 1 + i] = rest[i]
  BY <1>1
<1>6. state'[p] = how /\ \A q \in Promises : q # p => state'[q] = state[q]
  BY DEF TypeOK
<1>7. state[p] \notin Settled
  BY DEF Settled
<1>8. NotYet(tl)' /\ Shorter(tl)'
  BY <1>6, <1>7 DEF Line, NotYet, Shorter
<1>9. \A i \in 1..Len(rest) : rest[i].from \in Promises
  BY EntryAt
<1>10. \A i \in 1..Len(immediates) : immediates[i].from \in Promises
  BY EntryAt DEF TypeOK
\* Nobody was in the line of p.
<1>11. \A i \in 1..Len(rest) : rest[i].op = "adopt" => rest[i].from # p /\ state'[rest[i].from] \in Settled
  BY <1>6, <1>7, <1>9 DEF Line, Queued
<1>12. \A i \in 1..Len(immediates) : immediates[i].op = "adopt" =>
         immediates[i].from # p /\ state'[immediates[i].from] \in Settled
  BY <1>6, <1>7, <1>10 DEF Line, Queued
<1>13. Queued(s, tl)'
  <2> SUFFICES ASSUME NEW i \in 1..Len(s), s[i].op = "adopt"
               PROVE  /\ state'[s[i].from] \in Settled
                      /\ \E k \in 1..Len(subscribers[s[i].from]) :
                           k > Len(tl[s[i].from]) /\ subscribers[s[i].from][k] = s[i].on
    BY DEF Queued
  <2>1. CASE i \in 1..n
    <3>1. i > Len(tl[p])
      BY <1>1, <1>2, <2>1
    <3>2. i \in 1..Len(subscribers[p])
      BY <1>n, <2>1
    <3>3. s[i].from = p /\ s[i].on = subscribers[p][i]
      BY <1>3, <2>1
    <3>4. state'[p] \in Settled
      BY <1>6
    <3> QED BY <3>1, <3>2, <3>3, <3>4
  <2>2. CASE ~(i \in 1..n)
    <3>1. i # n + 1
      BY <1>3
    <3>2. i - (n + 1) \in 1..Len(rest) /\ s[i] = rest[i - (n + 1)]
      BY <1>4, <2>2, <3>1
    <3> QED BY <1>11, <3>2 DEF Line, Queued
  <2> QED BY <2>1, <2>2
<1>14. Queued(immediates, tl)'
  BY <1>12 DEF Line, Queued
<1>15. Ordered(s)
  <2> SUFFICES ASSUME NEW i \in 1..Len(s), NEW j \in 1..Len(s), i < j,
                      s[i].op = "adopt", s[j].op = "adopt", s[i].from = s[j].from
               PROVE  Before(s[i], s[j], subscribers)
    BY DEF Ordered, Before
  <2>0. i # n + 1 /\ j # n + 1
    BY <1>3
  <2>1. CASE i \in 1..n /\ j \in 1..n
    <3>0. i \in 1..Len(subscribers[p]) /\ j \in 1..Len(subscribers[p])
      BY <1>n, <2>1
    <3>1. \A k, l \in 1..Len(subscribers[p]) :
            subscribers[p][k] = subscribers[p][i] /\ subscribers[p][l] = subscribers[p][j] => k < l
      BY <3>0 DEF Distinct
    <3> QED BY <1>3, <2>1, <3>1 DEF Before
  <2>2. CASE i \in 1..n /\ ~(j \in 1..n)
    BY <1>3, <1>4, <1>11, <2>0, <2>2
  <2>3. CASE ~(i \in 1..n)
    <3>1. ~(j \in 1..n) /\ i - (n + 1) < j - (n + 1)
      BY <1>1, <2>3
    <3>2. /\ i - (n + 1) \in 1..Len(rest) /\ s[i] = rest[i - (n + 1)]
          /\ j - (n + 1) \in 1..Len(rest) /\ s[j] = rest[j - (n + 1)]
      BY <1>4, <2>0, <2>3, <3>1
    <3> QED BY <3>1, <3>2 DEF Line, Ordered
  <2> QED BY <2>1, <2>2, <2>3
<1>16. Ahead(s)
  <2> SUFFICES ASSUME NEW i \in 1..Len(s), NEW j \in 1..Len(immediates),
                      s[i].op = "adopt", immediates[j].op = "adopt",
                      s[i].from = immediates[j].from
               PROVE  Before(s[i], immediates[j], subscribers)
    BY DEF Ahead, Before
  <2>1. ~(i \in 1..n) /\ i # n + 1
    BY <1>3, <1>12
  <2> QED BY <1>4, <2>1 DEF Line, Ahead
<1>17. NoneMissing(s, tl)'
  <2> SUFFICES ASSUME NEW q \in Promises, state'[q] \in Settled, NEW k \in 1..Len(subscribers[q]),
                      k > Len(tl[q])
               PROVE  In(s, q, subscribers[q][k]) \/ In(immediates, q, subscribers[q][k])
    BY DEF NoneMissing, In
  <2>1. CASE q = p
    <3>1. k \in 1..Len(s) /\ s[k] = Entry("adopt", subscribers[p][k], p)
      BY <1>1, <1>2, <1>n, <1>3, <2>1
    <3> QED BY <2>1, <3>1 DEF In
  <2>2. CASE q # p
    <3>1. In(rest, q, subscribers[q][k]) \/ In(immediates, q, subscribers[q][k])
      BY <1>6, <2>2 DEF Line, NoneMissing
    <3>2. CASE In(rest, q, subscribers[q][k])
      <4>1. PICK i \in 1..Len(rest) : rest[i] = Entry("adopt", subscribers[q][k], q)
        BY <3>2 DEF In
      <4> QED BY <1>5, <4>1 DEF In
    <3> QED BY <3>1, <3>2
  <2> QED BY <2>1, <2>2
<1>18. Ordered(immediates)' /\ Ordered(s)' /\ Ahead(s)'
  BY <1>15, <1>16 DEF Line, Ordered, Ahead
<1> QED BY <1>8, <1>13, <1>14, <1>17, <1>18 DEF Line, NotYet, Shorter, Queued, Ordered, Ahead, NoneMissing, In

LEMMA LineSettle ==
  ASSUME TypeOK, Distinct, NEW p \in Promises, NEW how \in Settled,
         NEW rest \in Seq(Entries), NEW tl \in [Promises -> Seq(Promises)],
         Line(rest, tl), state[p] = "pending", state' = [state EXCEPT ![p] = how],
         calls' = Cleaning(p, how) \o rest, told' = tl,
         UNCHANGED <<pendingList, subscribers, immediates>>
  PROVE  Line(calls, told)'
<1>1. IsCleaning(calls', Len(pendingList[p]), p, how, rest)
  BY CleaningAt
<1> PICK s, n : s = calls' /\ n = Len(pendingList[p])
  OBVIOUS
<1>2. IsCleaning(s, n, p, how, rest)
  BY <1>1
<1>3. Line(s, tl)'
  BY <1>2, LineCleaning
<1>4. (NotYet(told) /\ Shorter(told) /\ Queued(immediates, told))'
  BY <1>3 DEF Line, NotYet, Shorter, Queued
<1>5. Queued(calls, told)'
  <2>1. Queued(s, tl)'
    BY <1>3 DEF Line
  <2> QED BY <2>1 DEF Queued
<1>6. (Ordered(calls) /\ Ordered(immediates) /\ Ahead(calls))'
  BY <1>3 DEF Line, Ordered, Ahead
<1>7. NoneMissing(calls, told)'
  BY <1>3 DEF Line, NoneMissing, In
<1> QED BY <1>4, <1>5, <1>6, <1>7 DEF Line

\* A new subscriber is the last of the line, wherever the others are.
LEMMA LineSubscribe ==
  ASSUME TypeOK, Known, NEW v \in Created, NEW c \in Free, NEW f, NEW r,
         NEW rest \in Seq(Entries), NEW tl \in [Promises -> Seq(Promises)],
         Line(rest, tl), Subscribe(v, c, f, r), state' = [state EXCEPT ![c] = "pending"],
         calls' = rest, told' = tl
  PROVE  Line(calls, told)'
<1> DEFINE new == Entry("adopt", c, v)
<1>1. /\ c \in Promises /\ v \in Promises /\ v # c
      /\ state[c] = "free" /\ state'[c] = "pending"
      /\ \A q \in Promises : q # c => state'[q] = state[q]
  BY DEF TypeOK, Created, Free
<1>m. PICK m : m = Len(subscribers[v])
  OBVIOUS
<1>2. /\ m \in Nat /\ Len(subscribers'[v]) = m + 1 /\ subscribers'[v][m + 1] = c
      /\ \A k \in 1..m : subscribers'[v][k] = subscribers[v][k]
      /\ \A q \in Promises : q # v => subscribers'[q] = subscribers[q]
      /\ \A k \in 1..Len(subscribers'[v]) : k \in 1..m \/ k = m + 1
  <2>1. subscribers \in [Promises -> Seq(Promises)] /\ subscribers[v] \in Seq(Promises)
    BY <1>1 DEF TypeOK
  <2>2. subscribers'[v] = Append(subscribers[v], c)
    BY <1>1, <2>1 DEF Subscribe
  <2>3. \A q \in Promises : q # v => subscribers'[q] = subscribers[q]
    BY <2>1 DEF Subscribe
  <2>5. /\ m \in Nat /\ Len(subscribers'[v]) = m + 1 /\ subscribers'[v][m + 1] = c
        /\ \A k \in 1..m : subscribers'[v][k] = subscribers[v][k]
    BY <1>m, <1>1, <2>1, <2>2, AppendProperties
  <2>6. \A k \in 1..Len(subscribers'[v]) : k \in 1..m \/ k = m + 1
    BY <2>5
  <2> QED BY <2>3, <2>5, <2>6
<1>3. \A q \in Promises : \A k \in 1..Len(subscribers[q]) : subscribers[q][k] # c
  BY <1>1 DEF Known
<1>4. \A q \in Promises : \A k \in 1..Len(subscribers[q]) :
        k \in 1..Len(subscribers'[q]) /\ subscribers'[q][k] = subscribers[q][k]
  <2> SUFFICES ASSUME NEW q \in Promises, NEW k \in 1..Len(subscribers[q])
               PROVE  k \in 1..Len(subscribers'[q]) /\ subscribers'[q][k] = subscribers[q][k]
    OBVIOUS
  <2>1. CASE q = v
    <3>1. k \in 1..m
      BY <1>m, <2>1
    <3>2. k \in 1..(m + 1)
      BY <1>2, <3>1
    <3> QED BY <1>2, <2>1, <3>1, <3>2
  <2>2. CASE q # v
    BY <1>2, <2>2
  <2> QED BY <2>1, <2>2
<1>5. \A q \in Promises : \A k \in 1..Len(subscribers'[q]) :
        subscribers'[q][k] # c => k \in 1..Len(subscribers[q]) /\ subscribers'[q][k] = subscribers[q][k]
  <2> SUFFICES ASSUME NEW q \in Promises, NEW k \in 1..Len(subscribers'[q]), subscribers'[q][k] # c
               PROVE  k \in 1..Len(subscribers[q]) /\ subscribers'[q][k] = subscribers[q][k]
    OBVIOUS
  <2>1. CASE q = v
    <3>1. k \in 1..m
      BY <1>2, <2>1
    <3>2. k \in 1..Len(subscribers[v])
      BY <1>m, <3>1
    <3> QED BY <1>2, <2>1, <3>1, <3>2
  <2>2. CASE q # v
    BY <1>2, <2>2
  <2> QED BY <2>1, <2>2
<1>6. \A k \in 1..Len(subscribers'[v]) : subscribers'[v][k] = c => k = m + 1
  <2> SUFFICES ASSUME NEW k \in 1..m, subscribers'[v][k] = c
               PROVE  FALSE
    BY <1>2
  <2>1. k \in 1..Len(subscribers[v])
    BY <1>m
  <2> QED BY <1>1, <1>2, <1>3, <2>1
<1>7. new \in Entries /\ new.op = "adopt" /\ new.on = c /\ new.from = v
  BY <1>1, EntryType DEF Ops, Entry
<1> HIDE DEF new
<1>8. ASSUME NEW d \in Entries, NEW e \in Entries, Before(d, e, subscribers), d.on # c, e.on # c
      PROVE  Before(d, e, subscribers')
  <2>1. d.from \in Promises
    BY DEF Entries
  <2> QED BY <1>5, <1>8, <2>1 DEF Before
<1>9. ASSUME NEW d \in Entries, d.on # c
      PROVE  Before(d, new, subscribers')
  <2> SUFFICES ASSUME d.from = v, NEW k \in 1..Len(subscribers'[v]), NEW l \in 1..Len(subscribers'[v]),
                      subscribers'[v][k] = d.on, subscribers'[v][l] = c
               PROVE  k < l
    BY <1>7 DEF Before
  <2>1. k \in 1..m /\ l = m + 1
    BY <1>1, <1>2, <1>5, <1>6, <1>9
  <2> QED BY <1>2, <2>1
\* Nobody in the line is c, in the stack or in the queue.
<1>10. \A i \in 1..Len(rest) : rest[i] \in Entries /\ (rest[i].op = "adopt" => rest[i].on # c)
  BY <1>3, EntryAt DEF Line, Queued
<1>11. \A i \in 1..Len(immediates) :
         immediates[i] \in Entries /\ (immediates[i].op = "adopt" => immediates[i].on # c)
  <2>1. immediates \in Seq(Entries) /\ Queued(immediates, tl)
    BY <1>3 DEF Line, TypeOK
  <2> SUFFICES ASSUME NEW i \in 1..Len(immediates)
               PROVE  /\ immediates[i] \in Entries
                      /\ immediates[i].op = "adopt" => immediates[i].on # c
    OBVIOUS
  <2>2. immediates[i] \in Entries /\ immediates[i].from \in Promises
    BY <2>1, EntryAt
  <2> QED BY <1>3, <2>1, <2>2 DEF Queued
\* Where the entries of the queue come from, and where they go.
<1>12. /\ \A a \in 1..Len(immediates) : immediates[a].op = "adopt" =>
            \E i \in 1..Len(immediates') : immediates'[i] = immediates[a]
       /\ state[v] \in Settled => \E i \in 1..Len(immediates') : immediates'[i] = new
       /\ \A i \in 1..Len(immediates') :
            \/ immediates'[i] = new /\ state[v] \in Settled
            \/ \E a \in 1..Len(immediates) : immediates'[i] = immediates[a]
       /\ \A i, j \in 1..Len(immediates') : i < j =>
            \E a \in 1..Len(immediates) :
              /\ immediates'[i] = immediates[a]
              /\ \/ immediates'[j] = new
                 \/ \E b \in 1..Len(immediates) : a < b /\ immediates'[j] = immediates[b]
  <2>0. Len(immediates) \in Nat
    BY DEF TypeOK
  <2>1. CASE state[v] = "pending"
    <3>1. immediates' = immediates
      BY <2>1 DEF Subscribe, Settled
    <3> QED BY <2>0, <2>1, <3>1 DEF Settled
  <2>2. CASE state[v] \in Settled
    <3>w. PICK w \in Seq(Entries) :
            /\ w = WithoutUnhandled(v)
            /\ \E g \in [1..Len(w) -> 1..Len(immediates)] :
                 /\ \A i \in 1..Len(w) : w[i] = immediates[g[i]]
                 /\ \A i, j \in 1..Len(w) : i < j => g[i] < g[j]
            /\ \A j \in 1..Len(immediates) :
                 immediates[j].op = "adopt" => \E i \in 1..Len(w) : w[i] = immediates[j]
      BY <1>1, WithoutAt
    <3>1. immediates' = Append(w, new)
      BY <2>2, <3>w DEF Subscribe, Settled, new
    <3>2. /\ w \in Seq(Entries)
          /\ \A j \in 1..Len(immediates) :
               immediates[j].op = "adopt" => \E i \in 1..Len(w) : w[i] = immediates[j]
      BY <3>w
    <3>3. PICK g \in [1..Len(w) -> 1..Len(immediates)] :
            /\ \A i \in 1..Len(w) : w[i] = immediates[g[i]]
            /\ \A i, j \in 1..Len(w) : i < j => g[i] < g[j]
      BY <3>w
    <3>s. PICK s : s = Append(w, new)
      OBVIOUS
    <3>4. /\ Len(w) \in Nat /\ Len(s) = Len(w) + 1 /\ s[Len(w) + 1] = new
          /\ \A i \in 1..Len(w) : s[i] = w[i]
      BY <1>7, <3>2, <3>s, AppendAt
    <3>5. /\ \A i \in 1..Len(w) : i \in 1..Len(s)
          /\ Len(w) + 1 \in 1..Len(s)
          /\ \A i \in 1..Len(s) : i \in 1..Len(w) \/ i = Len(w) + 1
          /\ \A i, j \in 1..Len(s) : i < j => i \in 1..Len(w)
      BY <3>4
    <3>6. \A a \in 1..Len(immediates) : immediates[a].op = "adopt" =>
            \E i \in 1..Len(s) : s[i] = immediates[a]
      BY <3>2, <3>4, <3>5
    <3>7. \E i \in 1..Len(s) : s[i] = new
      BY <3>4, <3>5
    <3>8. \A i \in 1..Len(s) : s[i] = new \/ \E a \in 1..Len(immediates) : s[i] = immediates[a]
      <4> SUFFICES ASSUME NEW i \in 1..Len(s), i \in 1..Len(w)
                   PROVE  \E a \in 1..Len(immediates) : s[i] = immediates[a]
        BY <3>4, <3>5
      <4>1. s[i] = w[i] /\ w[i] = immediates[g[i]] /\ g[i] \in 1..Len(immediates)
        BY <3>3, <3>4
      <4> QED BY <4>1
    <3>9. \A i, j \in 1..Len(s) : i < j =>
            \E a \in 1..Len(immediates) :
              /\ s[i] = immediates[a]
              /\ s[j] = new \/ \E b \in 1..Len(immediates) : a < b /\ s[j] = immediates[b]
      <4> SUFFICES ASSUME NEW i \in 1..Len(s), NEW j \in 1..Len(s), i < j
                   PROVE  \E a \in 1..Len(immediates) :
                            /\ s[i] = immediates[a]
                            /\ s[j] = new \/ \E b \in 1..Len(immediates) : a < b /\ s[j] = immediates[b]
        OBVIOUS
      <4>1. i \in 1..Len(w) /\ s[i] = immediates[g[i]] /\ g[i] \in 1..Len(immediates)
        BY <3>3, <3>4, <3>5
      <4>2. CASE j = Len(w) + 1
        BY <3>4, <4>1, <4>2
      <4>3. CASE j \in 1..Len(w)
        <5>1. s[j] = immediates[g[j]] /\ g[j] \in 1..Len(immediates) /\ g[i] < g[j]
          BY <3>3, <3>4, <4>1, <4>3
        <5> QED BY <4>1, <5>1
      <4> QED BY <3>5, <4>2, <4>3
    <3>10. immediates' = s
      BY <3>1, <3>s
    <3>11. state[v] \in Settled
      BY <2>2
    <3>12. \A a \in 1..Len(immediates) : immediates[a].op = "adopt" =>
             \E i \in 1..Len(immediates') : immediates'[i] = immediates[a]
      BY ONLY <3>6, <3>10
    <3>13. \E i \in 1..Len(immediates') : immediates'[i] = new
      BY ONLY <3>7, <3>10
    <3>14. \A i \in 1..Len(immediates') :
             \/ immediates'[i] = new /\ state[v] \in Settled
             \/ \E a \in 1..Len(immediates) : immediates'[i] = immediates[a]
      BY ONLY <3>8, <3>10, <3>11
    <3>15. \A i, j \in 1..Len(immediates') : i < j =>
             \E a \in 1..Len(immediates) :
               /\ immediates'[i] = immediates[a]
               /\ \/ immediates'[j] = new
                  \/ \E b \in 1..Len(immediates) : a < b /\ immediates'[j] = immediates[b]
      BY ONLY <3>9, <3>10
    <3> QED BY ONLY <3>12, <3>13, <3>14, <3>15
  <2> QED BY <2>1, <2>2 DEF Subscribe
<1>13. NotYet(tl)'
  <2>1. ASSUME NEW q \in Promises, state'[q] \notin Settled
        PROVE  tl[q] = << >> /\ pendingList'[q] = subscribers'[q]
    <3>1. state[q] \notin Settled
      BY <1>1, <2>1 DEF Settled
    <3>2. tl[q] = << >> /\ pendingList[q] = subscribers[q]
      BY <3>1 DEF Line, NotYet
    <3>3. CASE q = v
      <4>1. pendingList' = [pendingList EXCEPT ![v] = Append(@, c)]
        BY <3>1, <3>3 DEF Subscribe
      <4> QED BY <1>1, <3>2, <3>3, <4>1 DEF Subscribe, TypeOK
    <3>4. CASE q # v
      BY <1>2, <3>2, <3>4 DEF Subscribe, TypeOK
    <3> QED BY <3>3, <3>4
  <2> QED BY <2>1 DEF NotYet
<1>14. Shorter(tl)'
  <2>1. ASSUME NEW q \in Promises PROVE Len(tl[q]) <= Len(subscribers'[q])
    <3>1. Len(tl[q]) <= Len(subscribers[q]) /\ Len(tl[q]) \in Nat
      BY DEF Line, Shorter
    <3>2. CASE q = v
      BY <1>m, <1>2, <3>1, <3>2
    <3>3. CASE q # v
      BY <1>2, <3>1, <3>3
    <3> QED BY <3>2, <3>3
  <2> QED BY <2>1 DEF Shorter
\* Places only get added.
<1>15. ASSUME NEW e, e.op = "adopt", e.from \in Promises, state[e.from] \in Settled,
              \E k \in 1..Len(subscribers[e.from]) :
                k > Len(tl[e.from]) /\ subscribers[e.from][k] = e.on
       PROVE  /\ state'[e.from] \in Settled
              /\ \E k \in 1..Len(subscribers'[e.from]) :
                   k > Len(tl[e.from]) /\ subscribers'[e.from][k] = e.on
  <2>1. state'[e.from] \in Settled
    BY <1>1, <1>15 DEF Settled
  <2> QED BY <1>4, <1>15, <2>1
<1>16. Queued(rest, tl)'
  BY <1>10, <1>15, EntryAt DEF Line, Queued
<1>17. Queued(immediates, tl)'
  <2> SUFFICES ASSUME NEW i \in 1..Len(immediates'), immediates'[i].op = "adopt"
               PROVE  /\ state'[immediates'[i].from] \in Settled
                      /\ \E k \in 1..Len(subscribers'[immediates'[i].from]) :
                           /\ k > Len(tl[immediates'[i].from])
                           /\ subscribers'[immediates'[i].from][k] = immediates'[i].on
    BY DEF Queued
  <2>1. CASE immediates'[i] = new /\ state[v] \in Settled
    <3>1. m + 1 > Len(tl[v]) /\ m + 1 \in 1..Len(subscribers'[v])
      <4>1. Len(tl[v]) <= m /\ Len(tl[v]) \in Nat
        BY <1>1, <1>m DEF Line, Shorter
      <4> QED BY <1>2, <4>1
    <3> QED BY <1>1, <1>2, <1>7, <2>1, <3>1
  <2>2. ASSUME NEW a \in 1..Len(immediates), immediates'[i] = immediates[a]
        PROVE  /\ state'[immediates'[i].from] \in Settled
               /\ \E k \in 1..Len(subscribers'[immediates'[i].from]) :
                    /\ k > Len(tl[immediates'[i].from])
                    /\ subscribers'[immediates'[i].from][k] = immediates'[i].on
    <3>1. immediates[a].from \in Promises
      BY EntryAt DEF TypeOK
    <3>2. Queued(immediates, tl)
      BY DEF Line
    <3>3. PICK k \in 1..Len(subscribers[immediates[a].from]) :
            /\ k > Len(tl[immediates[a].from])
            /\ subscribers[immediates[a].from][k] = immediates[a].on
      BY <2>2, <3>2 DEF Queued
    <3>4. state[immediates[a].from] \in Settled
      BY <2>2, <3>2 DEF Queued
    <3> QED BY <1>15, <2>2, <3>1, <3>3, <3>4
  <2> QED BY <1>12, <2>1, <2>2
<1>18. Ordered(rest)'
  <2> SUFFICES ASSUME NEW i \in 1..Len(rest), NEW j \in 1..Len(rest), i < j,
                      rest[i].op = "adopt", rest[j].op = "adopt"
               PROVE  Before(rest[i], rest[j], subscribers')
    BY DEF Ordered, Before
  <2> QED BY <1>8, <1>10 DEF Line, Ordered
<1>19. Ordered(immediates)'
  <2> SUFFICES ASSUME NEW i \in 1..Len(immediates'), NEW j \in 1..Len(immediates'), i < j,
                      immediates'[i].op = "adopt", immediates'[j].op = "adopt"
               PROVE  Before(immediates'[i], immediates'[j], subscribers')
    BY DEF Ordered, Before
  <2>1. PICK a \in 1..Len(immediates) :
          /\ immediates'[i] = immediates[a]
          /\ \/ immediates'[j] = new
             \/ \E b \in 1..Len(immediates) : a < b /\ immediates'[j] = immediates[b]
    BY <1>12
  <2>2. CASE immediates'[j] = new
    BY <1>9, <1>11, <2>1, <2>2
  <2>3. ASSUME NEW b \in 1..Len(immediates), a < b, immediates'[j] = immediates[b]
        PROVE  Before(immediates'[i], immediates'[j], subscribers')
    <3>1. Before(immediates[a], immediates[b], subscribers)
      BY <2>3 DEF Line, Ordered
    <3> QED BY <1>8, <1>11, <2>1, <2>3, <3>1
  <2> QED BY <2>1, <2>2, <2>3
<1>20. Ahead(rest)'
  <2> SUFFICES ASSUME NEW i \in 1..Len(rest), NEW j \in 1..Len(immediates'),
                      rest[i].op = "adopt", immediates'[j].op = "adopt"
               PROVE  Before(rest[i], immediates'[j], subscribers')
    BY DEF Ahead, Before
  <2>1. CASE immediates'[j] = new
    BY <1>9, <1>10, <2>1
  <2>2. ASSUME NEW a \in 1..Len(immediates), immediates'[j] = immediates[a]
        PROVE  Before(rest[i], immediates'[j], subscribers')
    <3>1. Before(rest[i], immediates[a], subscribers)
      BY DEF Line, Ahead
    <3> QED BY <1>8, <1>10, <1>11, <2>2, <3>1
  <2> QED BY <1>12, <2>1, <2>2
<1>21. NoneMissing(rest, tl)'
  <2> SUFFICES ASSUME NEW q \in Promises, state'[q] \in Settled, NEW k \in 1..Len(subscribers'[q]),
                      k > Len(tl[q])
               PROVE  \/ In(rest, q, subscribers'[q][k])
                      \/ \E i \in 1..Len(immediates') :
                           immediates'[i] = Entry("adopt", subscribers'[q][k], q)
    BY DEF NoneMissing, In
  <2>1. state[q] \in Settled
    BY <1>1 DEF Settled
  <2>2. CASE subscribers'[q][k] = c
    <3>1. q = v
      <4> SUFFICES ASSUME q # v PROVE FALSE
        OBVIOUS
      <4>1. subscribers'[q] = subscribers[q]
        BY <1>2
      <4> QED BY <1>3, <2>2, <4>1
    <3> QED BY <1>12, <2>1, <2>2, <3>1 DEF new
  <2>3. CASE subscribers'[q][k] # c
    <3>1. k \in 1..Len(subscribers[q]) /\ subscribers'[q][k] = subscribers[q][k]
      BY <1>5, <2>3
    <3>2. In(rest, q, subscribers[q][k]) \/ In(immediates, q, subscribers[q][k])
      BY <2>1, <3>1 DEF Line, NoneMissing
    <3>3. ASSUME In(immediates, q, subscribers[q][k])
          PROVE  \E i \in 1..Len(immediates') :
                   immediates'[i] = Entry("adopt", subscribers[q][k], q)
      <4>1. PICK a \in 1..Len(immediates) : immediates[a] = Entry("adopt", subscribers[q][k], q)
        BY <3>3 DEF In
      <4>2. immediates[a].op = "adopt"
        BY <4>1 DEF Entry
      <4> QED BY <1>12, <4>1, <4>2
    <3> QED BY <3>1, <3>2, <3>3
  <2> QED BY <2>2, <2>3
<1>22. (NotYet(told) /\ Shorter(told) /\ Queued(immediates, told))'
  BY <1>13, <1>14, <1>17 DEF NotYet, Shorter, Queued
<1>23. Queued(calls, told)'
  BY <1>16 DEF Queued
<1>24. (Ordered(calls) /\ Ordered(immediates) /\ Ahead(calls))'
  BY <1>18, <1>19, <1>20 DEF Ordered, Ahead
<1>25. NoneMissing(calls, told)'
  BY <1>21 DEF NoneMissing, In
<1> QED BY <1>22, <1>23, <1>24, <1>25 DEF Line

\* The event loop takes the entry that is first in the queue.
LEMMA LineRun ==
  ASSUME TypeOK, RunImmediate, Line(calls, told)
  PROVE  Line(calls, told)'
<1>1. calls = << >> /\ immediates # << >> /\ immediates' = Tail(immediates)
  BY DEF RunImmediate
<1>e. PICK e : e = Head(immediates)
  OBVIOUS
<1>2. /\ e = immediates[1] /\ Len(immediates) \in Nat /\ Len(immediates) >= 1
      /\ \A i \in 1..Len(immediates') : i + 1 \in 1..Len(immediates) /\ immediates'[i] = immediates[i + 1]
      /\ \A j \in 1..Len(immediates) : j # 1 =>
           j - 1 \in 1..Len(immediates') /\ immediates'[j - 1] = immediates[j]
  BY <1>1, <1>e, TailAt DEF TypeOK
<1>3. \/ e.op = "adopt" /\ calls' = <<e>>
      \/ e.op # "adopt" /\ calls' = << >>
  BY <1>1, <1>e DEF RunImmediate
<1>4. \A i \in 1..Len(calls') : e.op = "adopt" /\ i = 1 /\ calls'[i] = e
  <2>1. CASE e.op = "adopt" /\ calls' = <<e>>
    <3>1. Len(calls') = 1 /\ calls'[1] = e
      BY <2>1
    <3> QED BY <2>1, <3>1
  <2>2. CASE calls' = << >>
    <3>1. Len(calls') = 0
      BY <2>2
    <3> QED BY <3>1
  <2> QED BY <1>3, <2>1, <2>2
<1>5. UNCHANGED <<state, pendingList, subscribers, told>>
  BY DEF RunImmediate
<1>6. 1 \in 1..Len(immediates)
  BY <1>2
<1>7. (NotYet(told) /\ Shorter(told))'
  BY <1>5 DEF Line, NotYet, Shorter
<1>8. Queued(immediates, told)
  BY DEF Line
<1>9. Queued(calls, told)'
  BY <1>2, <1>4, <1>5, <1>6, <1>8 DEF Queued
<1>10. Queued(immediates, told)'
  <2> SUFFICES ASSUME NEW i \in 1..Len(immediates'), immediates'[i].op = "adopt"
               PROVE  /\ state[immediates'[i].from] \in Settled
                      /\ \E k \in 1..Len(subscribers[immediates'[i].from]) :
                           /\ k > Len(told[immediates'[i].from])
                           /\ subscribers[immediates'[i].from][k] = immediates'[i].on
    BY <1>5 DEF Queued
  <2>1. i + 1 \in 1..Len(immediates) /\ immediates'[i] = immediates[i + 1]
    BY <1>2
  <2> QED BY <1>8, <2>1 DEF Queued
<1>11. Ordered(calls)'
  BY <1>4 DEF Ordered
<1>12. \A i, j \in 1..Len(immediates) : i < j => Before(immediates[i], immediates[j], subscribers)
  BY DEF Line, Ordered
<1>13. Ordered(immediates)'
  <2> SUFFICES ASSUME NEW i \in 1..Len(immediates'), NEW j \in 1..Len(immediates'), i < j
               PROVE  Before(immediates'[i], immediates'[j], subscribers)
    BY <1>5 DEF Ordered, Before
  <2>1. i + 1 < j + 1
    OBVIOUS
  <2> QED BY <1>2, <1>12, <2>1
<1>14. Ahead(calls)'
  <2> SUFFICES ASSUME NEW i \in 1..Len(calls'), NEW j \in 1..Len(immediates')
               PROVE  Before(calls'[i], immediates'[j], subscribers)
    BY <1>5 DEF Ahead, Before
  <2>1. j + 1 \in 1..Len(immediates) /\ 1 < j + 1 /\ immediates'[j] = immediates[j + 1]
    BY <1>2
  <2> QED BY <1>2, <1>4, <1>6, <1>12, <2>1
<1>15. NoneMissing(calls, told)'
  <2> SUFFICES ASSUME NEW q \in Promises, state[q] \in Settled,
                      NEW k \in 1..Len(subscribers[q]), k > Len(told[q])
               PROVE  In(calls', q, subscribers[q][k]) \/ In(immediates', q, subscribers[q][k])
    BY <1>5 DEF NoneMissing, In
  <2>1. ~In(calls, q, subscribers[q][k])
    BY <1>1 DEF In
  <2>2. In(immediates, q, subscribers[q][k])
    BY <2>1 DEF Line, NoneMissing
  <2>3. PICK j \in 1..Len(immediates) : immediates[j] = Entry("adopt", subscribers[q][k], q)
    BY <2>2 DEF In
  <2>4. CASE j = 1
    <3>1. e.op = "adopt" /\ e = Entry("adopt", subscribers[q][k], q)
      BY <1>2, <2>3, <2>4 DEF Entry
    <3>2. Len(calls') = 1 /\ calls'[1] = e
      BY <1>3, <3>1
    <3>3. 1 \in 1..Len(calls')
      BY <3>2
    <3> QED BY <3>1, <3>2, <3>3 DEF In
  <2>5. CASE j # 1
    BY <1>2, <2>3, <2>5 DEF In
  <2> QED BY <2>4, <2>5
<1> QED BY <1>7, <1>9, <1>10, <1>11, <1>13, <1>14, <1>15 DEF Line

\* clean() empties the list of a promise that was settled before.
LEMMA LineClean ==
  ASSUME TypeOK, Cleaned, Cleans(calls), Line(calls, told)
  PROVE  Line(calls, told)'
<1> PICK p : p = Head(calls).on
  OBVIOUS
<1>1. /\ calls # << >> /\ Head(calls).op \in Settled /\ Head(calls).op # "adopt"
      /\ calls' = Tail(calls) /\ UNCHANGED <<state, subscribers, told>>
      /\ pendingList' = [pendingList EXCEPT ![p] = << >>]
      /\ \/ immediates' = immediates
         \/ immediates' = Append(immediates, Entry("unhandled", p, p))
  BY DEF Cleaned, Settled
<1>2. p \in Promises /\ state[p] \in Settled
  <2>1. Head(calls) = calls[1] /\ 1 \in 1..Len(calls)
    BY <1>1, TailAt DEF TypeOK
  <2> QED BY <1>1, <2>1, HeadTail DEF Cleans
<1> PICK s : s = Tail(calls)
  OBVIOUS
<1>3. Line(s, told)
  BY <1>1, LinePop
<1>4. /\ \A i \in 1..Len(immediates) : i \in 1..Len(immediates') /\ immediates'[i] = immediates[i]
      /\ \A i \in 1..Len(immediates') : immediates'[i].op = "adopt" => i \in 1..Len(immediates)
  <2>1. CASE immediates' = immediates
    BY <2>1
  <2>2. CASE immediates' = Append(immediates, Entry("unhandled", p, p))
    <3> PICK e \in Entries : e = Entry("unhandled", p, p) /\ e.op # "adopt"
      BY <1>2, EntryType DEF Ops, Entry
    <3>1. /\ Len(immediates) \in Nat /\ Len(immediates') = Len(immediates) + 1
          /\ immediates'[Len(immediates) + 1] = e
          /\ \A i \in 1..Len(immediates) : immediates'[i] = immediates[i]
      BY <2>2, AppendAt DEF TypeOK
    <3> QED BY <3>1
  <2> QED BY <1>1, <2>1, <2>2
<1>5. NotYet(told)' /\ Shorter(told)'
  BY <1>1, <1>2, <1>3 DEF Line, NotYet, Shorter, TypeOK
<1>6. Queued(s, told)' /\ Ordered(s)'
  BY <1>1, <1>3 DEF Line, Queued, Ordered, Before
<1>7. Queued(immediates, told)'
  <2> SUFFICES ASSUME NEW i \in 1..Len(immediates'), immediates'[i].op = "adopt"
               PROVE  /\ state[immediates'[i].from] \in Settled
                      /\ \E k \in 1..Len(subscribers[immediates'[i].from]) :
                           /\ k > Len(told[immediates'[i].from])
                           /\ subscribers[immediates'[i].from][k] = immediates'[i].on
    BY <1>1 DEF Queued
  <2>1. i \in 1..Len(immediates) /\ immediates'[i] = immediates[i]
    BY <1>4
  <2>2. Queued(immediates, told)
    BY <1>3 DEF Line
  <2>3. /\ state[immediates[i].from] \in Settled
        /\ \E k \in 1..Len(subscribers[immediates[i].from]) :
             /\ k > Len(told[immediates[i].from])
             /\ subscribers[immediates[i].from][k] = immediates[i].on
    BY <2>1, <2>2 DEF Queued
  <2> QED BY <2>1, <2>3
<1>8. Ordered(immediates)'
  <2> SUFFICES ASSUME NEW i \in 1..Len(immediates'), NEW j \in 1..Len(immediates'), i < j,
                      immediates'[i].op = "adopt", immediates'[j].op = "adopt"
               PROVE  Before(immediates'[i], immediates'[j], subscribers)
    BY <1>1 DEF Ordered, Before
  <2>1. /\ i \in 1..Len(immediates) /\ immediates'[i] = immediates[i]
        /\ j \in 1..Len(immediates) /\ immediates'[j] = immediates[j]
    BY <1>4
  <2> QED BY <1>3, <2>1 DEF Line, Ordered
<1>9. Ahead(s)'
  <2> SUFFICES ASSUME NEW i \in 1..Len(s), NEW j \in 1..Len(immediates'),
                      immediates'[j].op = "adopt"
               PROVE  Before(s[i], immediates'[j], subscribers)
    BY <1>1 DEF Ahead, Before
  <2>1. j \in 1..Len(immediates) /\ immediates'[j] = immediates[j]
    BY <1>4
  <2> QED BY <1>3, <2>1 DEF Line, Ahead
<1>10. NoneMissing(s, told)'
  BY <1>1, <1>3, <1>4, SMTT(30) DEF Line, NoneMissing, In
<1>11. Queued(calls, told)' /\ Ordered(calls)' /\ Ahead(calls)' /\ NoneMissing(calls, told)'
  BY <1>1, <1>6, <1>9, <1>10 DEF Queued, Ordered, Ahead, NoneMissing, In
<1> QED BY <1>5, <1>7, <1>8, <1>11 DEF Line

-----------------------------------------------------------------------------
(***************************************************************************)
(* Who settles a promise.                                                  *)
(***************************************************************************)

\* Nobody but the one who runs settles p.
Untied(p, cs, tl) ==
  /\ ~Awaits(p, tl) /\ ~Works(p, cs)
  /\ \A c \in Promises : Awaits(c, tl) => onResolve[c] # p /\ onReject[c] # p

\* What runs in s runs in cs, in the same order.
NoNewWork(s, cs) ==
  \E d \in Int : \A i \in 1..Len(s) :
    s[i].op \in Work => i - d \in 1..Len(cs) /\ s[i] = cs[i - d]

LEMMA LessWork ==
  ASSUME NEW s \in Seq(Entries), NEW cs \in Seq(Entries), NoNewWork(s, cs), NEW ln, NEW tl
  PROVE  /\ Core(cs, ln, tl) => Core(s, ln, tl)
         /\ \A p : Untied(p, cs, tl) => Untied(p, s, tl)
<1>1. PICK d \in Int : \A i \in 1..Len(s) :
        s[i].op \in Work => i - d \in 1..Len(cs) /\ s[i] = cs[i - d]
  BY DEF NoNewWork
<1>2. ASSUME NEW c, Works(c, s) PROVE Works(c, cs)
  <2>1. PICK i \in 1..Len(s) : s[i].op \in Work /\ s[i].on = c
    BY <1>2 DEF Works
  <2>2. i - d \in 1..Len(cs) /\ s[i] = cs[i - d]
    BY <1>1, <2>1
  <2> QED BY <2>1, <2>2 DEF Works
<1>3. ASSUME WorkOnce(cs) PROVE WorkOnce(s)
  <2> SUFFICES ASSUME NEW i \in 1..Len(s), NEW j \in 1..Len(s),
                      s[i].op \in Work, s[j].op \in Work, s[i].on = s[j].on
               PROVE  i = j
    BY DEF WorkOnce
  <2>1. /\ i - d \in 1..Len(cs) /\ s[i] = cs[i - d]
        /\ j - d \in 1..Len(cs) /\ s[j] = cs[j - d]
    BY <1>1
  <2>2. i - d = j - d
    BY <1>3, <2>1 DEF WorkOnce
  <2> QED BY <2>2
<1>4. OneDuty(cs, tl) => OneDuty(s, tl)
  BY <1>2 DEF OneDuty
<1>5. Owing(cs, ln, tl) => Owing(s, ln, tl)
  BY <1>2 DEF Owing
<1> QED BY <1>2, <1>3, <1>4, <1>5 DEF Core, Untied

LEMMA PushedWork ==
  ASSUME NEW e \in Entries, NEW rest \in Seq(Entries), e.op \notin Work
  PROVE  NoNewWork(<<e>> \o rest, rest)
<1>s. PICK s : s = <<e>> \o rest
  OBVIOUS
<1>1. /\ s[1] = e /\ Len(rest) \in Nat
      /\ \A j \in 1..Len(s) : j # 1 => j - 1 \in 1..Len(rest) /\ s[j] = rest[j - 1]
  BY <1>s, PushAt
<1>2. \A i \in 1..Len(s) : s[i].op \in Work => i - 1 \in 1..Len(rest) /\ s[i] = rest[i - 1]
  BY <1>1
<1> QED BY <1>2, <1>s DEF NoNewWork

LEMMA PoppedWork ==
  ASSUME TypeOK, calls # << >>
  PROVE  NoNewWork(Tail(calls), calls)
<1>s. PICK s : s = Tail(calls)
  OBVIOUS
<1>1. \A i \in 1..Len(s) : i + 1 \in 1..Len(calls) /\ s[i] = calls[i + 1]
  BY <1>s, TailAt DEF TypeOK
<1>2. \A i \in 1..Len(s) : i - (-1) \in 1..Len(calls) /\ s[i] = calls[i - (-1)]
  <2>1. \A i \in 1..Len(s) : i - (-1) = i + 1
    OBVIOUS
  <2> QED BY <1>1, <2>1
<1> QED BY <1>2, <1>s DEF NoNewWork

LEMMA CleaningWork ==
  ASSUME TypeOK, NEW p \in Promises, NEW how \in Settled, NEW rest \in Seq(Entries)
  PROVE  NoNewWork(Cleaning(p, how) \o rest, rest)
<1>s. PICK s, n : s = Cleaning(p, how) \o rest /\ n = Len(pendingList[p])
  OBVIOUS
<1>1. IsCleaning(s, n, p, how, rest)
  BY <1>s, CleaningAt
<1>2. /\ n \in Nat /\ Len(rest) \in Nat /\ Len(s) = n + 1 + Len(rest)
      /\ \A i \in 1..n : s[i] = Entry("adopt", pendingList[p][i], p)
      /\ s[n + 1] = Entry(how, p, p)
      /\ \A i \in 1..Len(rest) : s[n + 1 + i] = rest[i]
  BY <1>1 DEF IsCleaning
<1>3. ASSUME NEW i \in 1..Len(s), s[i].op \in Work
      PROVE  i - (n + 1) \in 1..Len(rest) /\ s[i] = rest[i - (n + 1)]
  <2>1. i \notin 1..n
    <3> SUFFICES ASSUME i \in 1..n PROVE FALSE
      OBVIOUS
    <3>1. s[i] = Entry("adopt", pendingList[p][i], p)
      BY <1>2
    <3>2. s[i].op = "adopt"
      BY <3>1 DEF Entry
    <3> QED BY <1>3, <3>2 DEF Work
  <2>2. i # n + 1
    BY <1>2, <1>3 DEF Entry, Work, Settled
  <2>3. i - (n + 1) \in 1..Len(rest) /\ n + 1 + (i - (n + 1)) = i
    BY <1>2, <2>1, <2>2, SMTT(30)
  <2> QED BY <1>2, <2>3
<1>4. n + 1 \in Int
  BY <1>2
<1> QED BY <1>3, <1>4, <1>s DEF NoNewWork

LEMMA CoreIgnore ==
  ASSUME NEW rest, NEW tl, Core(rest, lent, tl), calls' = rest, told' = tl,
         NEW p, lent' \in {lent, lent \ {p}},
         UNCHANGED <<state, resolving, held, onResolve, onReject, subscribers>>
  PROVE  Core(calls, lent, told)'
<1>1. (Distinct /\ Known /\ Fresh)'
  BY DEF Core, Distinct, Known, Fresh
<1>2. (WorkOnce(calls) /\ OneDuty(calls, told))'
  BY DEF Core, WorkOnce, OneDuty, Works, Awaits
<1>3. Owing(calls, lent, told)'
  BY DEF Core, Owing, Works, Awaits
<1>4. Lent(lent)'
  BY DEF Core, Lent
<1>5. Proxies(lent, told)'
  BY DEF Core, Proxies, Proxy, Awaits
<1> QED BY <1>1, <1>2, <1>3, <1>4, <1>5 DEF Core

LEMMA CoreSettle ==
  ASSUME TypeOK, NEW p \in Promises, NEW how \in Settled, NEW s, NEW tl,
         Core(s, lent, tl), Untied(p, s, tl), state[p] = "pending",
         state' = [state EXCEPT ![p] = how], calls' = s, told' = tl, lent' = lent \ {p},
         \A q \in Promises : q # p => resolving'[q] = resolving[q],
         UNCHANGED <<held, onResolve, onReject, subscribers>>
  PROVE  Core(calls, lent, told)'
<1>0. state'[p] = how /\ how # "free" /\ \A q \in Promises : q # p => state'[q] = state[q]
  BY DEF TypeOK, Settled
<1>1. (Distinct /\ Known /\ Fresh)'
  <2>1. Distinct'
    BY DEF Core, Distinct
  <2>2. \A q : q \in Promises /\ state[q] # "free" => state'[q] # "free"
    BY <1>0
  <2>3. \A q \in Promises : \A k \in 1..Len(subscribers[q]) : subscribers[q][k] \in Promises
    BY DEF TypeOK
  <2>4. Known'
    BY <2>2, <2>3 DEF Core, Known
  <2>5. Fresh'
    BY <1>0 DEF Core, Fresh
  <2> QED BY <2>1, <2>4, <2>5
<1>2. (WorkOnce(calls) /\ OneDuty(calls, told))'
  BY SMTT(30) DEF Core, WorkOnce, OneDuty, Works, Awaits
<1>3. \A c \in Promises : (Awaits(c, told)' <=> Awaits(c, tl)) /\ (Works(c, calls)' <=> Works(c, s))
  BY DEF Awaits, Works
<1>4. Owing(calls, lent, told)'
  BY <1>0, <1>3 DEF Core, Owing, Untied
<1>5. Lent(lent)'
  BY <1>0 DEF Core, Lent, TypeOK
<1>6. Proxies(lent, told)'
  <2> SUFFICES ASSUME NEW c \in Promises, Awaits(c, tl), Proxy(c)
               PROVE  /\ onResolve[c] = onReject[c]
                      /\ state'[onResolve[c]] = "pending" /\ resolving'[onResolve[c]]
                      /\ onResolve[c] \notin lent'
                      /\ \A d \in Promises : Awaits(d, tl) /\ onResolve[d] = onResolve[c] => c = d
    BY <1>3 DEF Proxies, Proxy
  <2>1. onResolve[c] # p
    BY DEF Untied
  <2> QED BY <1>0, <2>1 DEF Core, Proxies, Proxy
<1> QED BY <1>1, <1>2, <1>4, <1>5, <1>6 DEF Core

\* A foreign thenable has the resolver of p.
LEMMA CoreLend ==
  ASSUME TypeOK, NEW p \in Promises, NEW s, NEW tl,
         Core(s, lent, tl), Untied(p, s, tl), state[p] = "pending",
         calls' = s, told' = tl, lent' = lent \cup {p},
         resolving' = [resolving EXCEPT ![p] = TRUE],
         UNCHANGED <<state, held, onResolve, onReject, subscribers>>
  PROVE  Core(calls, lent, told)'
<1>0. resolving'[p] /\ \A q \in Promises : q # p => resolving'[q] = resolving[q]
  BY DEF TypeOK
<1>1. (Distinct /\ Known /\ Fresh)'
  BY <1>0 DEF Core, Distinct, Known, Fresh, TypeOK
<1>2. (WorkOnce(calls) /\ OneDuty(calls, told))'
  BY DEF Core, WorkOnce, OneDuty, Works, Awaits
<1>3. \A c \in Promises : (Awaits(c, told)' <=> Awaits(c, tl)) /\ (Works(c, calls)' <=> Works(c, s))
  BY DEF Awaits, Works
<1>4. Owing(calls, lent, told)'
  BY <1>0, <1>3 DEF Core, Owing, Untied
<1>5. Lent(lent)'
  BY <1>0 DEF Core, Lent, TypeOK
<1>6. Proxies(lent, told)'
  <2> SUFFICES ASSUME NEW c \in Promises, Awaits(c, tl), Proxy(c)
               PROVE  /\ onResolve[c] = onReject[c]
                      /\ state[onResolve[c]] = "pending" /\ resolving'[onResolve[c]]
                      /\ onResolve[c] \notin lent'
                      /\ \A d \in Promises : Awaits(d, tl) /\ onResolve[d] = onResolve[c] => c = d
    BY <1>3 DEF Proxies, Proxy
  <2>1. onResolve[c] # p
    BY DEF Untied
  <2> QED BY <1>0, <2>1 DEF Core, Proxies, Proxy
<1> QED BY <1>1, <1>2, <1>4, <1>5, <1>6 DEF Core

\* c subscribes to v, to settle another promise f or to run functions.
LEMMA CoreSubscribe ==
  ASSUME TypeOK, NEW v \in Created, NEW c \in Free, NEW f, NEW r, NEW s, NEW tl,
         Core(s, lent, tl), Subscribe(v, c, f, r), state' = [state EXCEPT ![c] = "pending"],
         calls' = s, told' = tl, lent' = lent \ {f},
         \A q \in Promises : q # f => resolving'[q] = resolving[q],
         f \in Promises => /\ r = f /\ state[f] = "pending" /\ resolving'[f]
                           /\ Untied(f, s, tl),
         f \notin Promises => r \notin Promises,
         UNCHANGED held
  PROVE  Core(calls, lent, told)'
<1>1. /\ c \in Promises /\ v \in Promises /\ v # c /\ c # f
      /\ state[c] = "free" /\ state'[c] = "pending"
      /\ \A q \in Promises : q # c => state'[q] = state[q]
  BY DEF TypeOK, Created, Free
<1>m. PICK m : m = Len(subscribers[v])
  OBVIOUS
<1>2. /\ m \in Nat /\ Len(subscribers'[v]) = m + 1 /\ subscribers'[v][m + 1] = c
      /\ \A k \in 1..m : subscribers'[v][k] = subscribers[v][k]
      /\ \A q \in Promises : q # v => subscribers'[q] = subscribers[q]
      /\ \A k \in 1..Len(subscribers'[v]) : k \in 1..m \/ k = m + 1
  <2>1. subscribers \in [Promises -> Seq(Promises)] /\ subscribers[v] \in Seq(Promises)
    BY <1>1 DEF TypeOK
  <2>2. subscribers'[v] = Append(subscribers[v], c)
    BY <1>1, <2>1 DEF Subscribe
  <2>3. \A q \in Promises : q # v => subscribers'[q] = subscribers[q]
    BY <2>1 DEF Subscribe
  <2>4. /\ m \in Nat /\ Len(subscribers'[v]) = m + 1 /\ subscribers'[v][m + 1] = c
        /\ \A k \in 1..m : subscribers'[v][k] = subscribers[v][k]
    BY <1>m, <1>1, <2>1, <2>2, AppendProperties
  <2>5. \A k \in 1..Len(subscribers'[v]) : k \in 1..m \/ k = m + 1
    BY <2>4
  <2> QED BY <2>3, <2>4, <2>5
\* A subscriber is an old one, or c at its only place.
<1>3. \A q \in Promises : \A k \in 1..Len(subscribers'[q]) :
        \/ q = v /\ k = m + 1 /\ subscribers'[q][k] = c
        \/ /\ k \in 1..Len(subscribers[q]) /\ subscribers'[q][k] = subscribers[q][k]
           /\ subscribers[q][k] # c
  <2>1. \A q \in Promises : \A k \in 1..Len(subscribers[q]) : subscribers[q][k] # c
    BY <1>1 DEF Core, Known
  <2> SUFFICES ASSUME NEW q \in Promises, NEW k \in 1..Len(subscribers'[q])
               PROVE  \/ q = v /\ k = m + 1 /\ subscribers'[q][k] = c
                      \/ k \in 1..Len(subscribers[q]) /\ subscribers'[q][k] = subscribers[q][k]
    BY <2>1
  <2>2. CASE q = v /\ k \in 1..m
    <3>1. k \in 1..Len(subscribers[v])
      BY <1>m, <2>2
    <3> QED BY <1>2, <2>2, <3>1
  <2>3. CASE q = v /\ k = m + 1
    BY <1>2, <2>3
  <2>4. CASE q # v
    BY <1>2, <2>4
  <2> QED BY <1>2, <2>2, <2>3, <2>4
<1>4. /\ onResolve'[c] = f /\ onReject'[c] = r
      /\ \A d \in Promises : d # c => onResolve'[d] = onResolve[d] /\ onReject'[d] = onReject[d]
  BY <1>1 DEF Subscribe, TypeOK
<1>5. Distinct'
  BY <1>3 DEF Distinct, Core
<1>6. Known'
  <2> SUFFICES ASSUME NEW q \in Promises, NEW k \in 1..Len(subscribers'[q])
               PROVE  state'[subscribers'[q][k]] # "free"
    BY DEF Known
  <2>1. CASE subscribers'[q][k] = c
    BY <1>1, <2>1
  <2>2. CASE k \in 1..Len(subscribers[q]) /\ subscribers'[q][k] = subscribers[q][k] /\ subscribers[q][k] # c
    <3>1. subscribers[q] \in Seq(Promises)
      BY DEF TypeOK
    <3>2. subscribers[q][k] \in Promises
      BY <2>2, <3>1
    <3> QED BY <1>1, <2>2, <3>2 DEF Core, Known
  <2> QED BY <1>3, <2>1, <2>2
<1>7. Fresh'
  BY <1>1 DEF Core, Fresh
<1>8. \A d \in Promises : Works(d, calls)' <=> Works(d, s)
  BY DEF Works
<1>9. ASSUME NEW d \in Promises, Awaits(d, told)' PROVE d = c \/ Awaits(d, tl)
  <2>1. PICK q \in Promises : \E k \in 1..Len(subscribers'[q]) : k > Len(tl[q]) /\ subscribers'[q][k] = d
    BY <1>9 DEF Awaits
  <2>2. PICK k \in 1..Len(subscribers'[q]) : k > Len(tl[q]) /\ subscribers'[q][k] = d
    BY <2>1
  <2> QED BY <1>3, <2>2 DEF Awaits
<1>10. ~Works(c, s) /\ ~Awaits(c, tl)
  BY <1>1 DEF Core, Owing
<1>11. WorkOnce(calls)'
  BY DEF Core, WorkOnce
<1>12. OneDuty(calls, told)'
  BY <1>8, <1>9, <1>10 DEF Core, OneDuty
<1>13. ASSUME NEW d \in Promises, Awaits(d, tl) \/ Works(d, s)
       PROVE  d # f /\ d # c
  BY <1>10, <1>13 DEF Untied
<1>14. Owing(calls, lent, told)'
  <2>1. ASSUME NEW d \in Promises, Awaits(d, tl) \/ Works(d, s)
        PROVE  state'[d] = "pending" /\ ~resolving'[d] /\ d \notin held' /\ d \notin lent'
    BY <1>1, <1>13, <2>1 DEF Core, Owing
  <2>2. state'[c] = "pending" /\ ~resolving'[c] /\ c \notin held' /\ c \notin lent'
    BY <1>1 DEF Core, Fresh, Lent
  <2> QED BY <1>8, <1>9, <2>1, <2>2 DEF Owing
<1>15. Lent(lent)'
  BY <1>1 DEF Core, Lent, TypeOK
<1>16. Proxies(lent, told)'
  <2>1. ASSUME NEW d \in Promises, Awaits(d, tl)
        PROVE  /\ onResolve'[d] = onResolve[d] /\ onReject'[d] = onReject[d]
               /\ f \in Promises => onResolve[d] # f /\ onReject[d] # f
    BY <1>4, <1>13, <2>1 DEF Untied
  <2>2. ASSUME NEW d \in Promises, Awaits(d, tl), Proxy(d)
        PROVE  /\ onResolve[d] = onReject[d] /\ onResolve[d] \in Promises /\ onResolve[d] # f
               /\ state'[onResolve[d]] = "pending" /\ resolving'[onResolve[d]]
               /\ onResolve[d] \notin lent'
               /\ \A e \in Promises : Awaits(e, tl) /\ onResolve[e] = onResolve[d] => d = e
    <3>1. /\ onResolve[d] = onReject[d] /\ state[onResolve[d]] = "pending"
          /\ resolving[onResolve[d]] /\ onResolve[d] \notin lent
          /\ \A e \in Promises : Awaits(e, tl) /\ onResolve[e] = onResolve[d] => d = e
      BY <2>2 DEF Core, Proxies
    <3>2. onResolve[d] \in Promises
      BY <2>2, <3>1 DEF Proxy
    <3>3. onResolve[d] # f /\ onResolve[d] # c
      BY <1>1, <2>1, <2>2, <3>1, <3>2
    <3> QED BY <1>1, <3>1, <3>2, <3>3
  <2>3. f \in Promises => state'[f] = "pending" /\ f \notin lent'
    BY <1>1
  <2> SUFFICES ASSUME NEW d \in Promises, Awaits(d, told)', Proxy(d)'
               PROVE  /\ onResolve'[d] = onReject'[d]
                      /\ state'[onResolve'[d]] = "pending" /\ resolving'[onResolve'[d]]
                      /\ onResolve'[d] \notin lent'
                      /\ \A e \in Promises :
                           Awaits(e, told)' /\ onResolve'[e] = onResolve'[d] => d = e
    BY DEF Proxies
  <2>4. CASE d = c
    <3>1. f \in Promises /\ r = f
      BY <1>4, <2>4 DEF Proxy
    <3>2. \A e \in Promises : Awaits(e, told)' /\ onResolve'[e] = f => c = e
      BY <1>9, <2>1, <3>1
    <3> QED BY <1>4, <2>3, <2>4, <3>1, <3>2
  <2>5. CASE d # c
    <3>1. Awaits(d, tl) /\ Proxy(d)
      BY <1>4, <1>9, <2>5 DEF Proxy
    <3>2. \A e \in Promises : Awaits(e, told)' /\ onResolve'[e] = onResolve'[d] => d = e
      BY <1>4, <1>9, <2>1, <2>2, <2>5, <3>1
    <3> QED BY <2>1, <2>2, <3>1, <3>2
  <2> QED BY <2>4, <2>5
<1> QED BY <1>5, <1>6, <1>7, <1>11, <1>12, <1>14, <1>15, <1>16 DEF Core

-----------------------------------------------------------------------------
(***************************************************************************)
(* What is left to report.                                                 *)
(***************************************************************************)
LEMMA ReportsSettle ==
  ASSUME TypeOK, NEW p \in Promises, NEW how \in Settled, NEW rest \in Seq(Entries),
         Reports(rest), state[p] = "pending", state' = [state EXCEPT ![p] = how],
         calls' = Cleaning(p, how) \o rest,
         UNCHANGED <<immediates, handled, subscribers>>
  PROVE  Reports(calls)'
<1>s. PICK s, n : s = calls' /\ n = Len(pendingList[p])
  OBVIOUS
<1>1. IsCleaning(s, n, p, how, rest)
  BY <1>s, CleaningAt
<1>2. /\ n \in Nat /\ Len(rest) \in Nat /\ Len(s) = n + 1 + Len(rest)
      /\ \A i \in 1..n : s[i] = Entry("adopt", pendingList[p][i], p)
      /\ s[n + 1] = Entry(how, p, p)
      /\ \A i \in 1..Len(rest) : s[n + 1 + i] = rest[i]
  BY <1>1 DEF IsCleaning
<1>3. /\ state'[p] = how /\ \A q \in Promises : q # p => state'[q] = state[q]
      /\ state[p] \notin Settled /\ state[p] # "rejected"
  BY DEF TypeOK, Settled
<1>4. ASSUME NEW i \in 1..Len(s), s[i].op \in Settled
      PROVE  state'[s[i].on] = s[i].op
  <2>1. i \notin 1..n
    <3> SUFFICES ASSUME i \in 1..n PROVE FALSE
      OBVIOUS
    <3>1. s[i] = Entry("adopt", pendingList[p][i], p)
      BY <1>2
    <3>2. s[i].op = "adopt"
      BY <3>1 DEF Entry
    <3> QED BY <1>4, <3>2 DEF Settled
  <2>2. CASE i = n + 1
    BY <1>2, <1>3, <2>2 DEF Entry
  <2>3. CASE i # n + 1
    <3>1. i - (n + 1) \in 1..Len(rest) /\ n + 1 + (i - (n + 1)) = i
      BY <1>2, <2>1, <2>3
    <3>2. s[i] = rest[i - (n + 1)] /\ s[i].on \in Promises
      BY <1>2, <3>1, EntryAt
    <3>3. state[s[i].on] = s[i].op
      BY <1>4, <3>1, <3>2 DEF Reports, Cleans
    <3> QED BY <1>3, <1>4, <3>2, <3>3
  <2> QED BY <2>2, <2>3
<1>5. Cleans(calls)'
  BY <1>4, <1>s DEF Cleans
<1>6. Unhandled'
  <2>1. \A i \in 1..Len(immediates) : immediates[i].on \in Promises
    BY EntryAt DEF TypeOK
  <2> QED BY <1>3, <2>1 DEF Reports, Unhandled
<1>7. Handled'
  BY DEF Reports, Handled
<1> QED BY <1>5, <1>6, <1>7 DEF Reports

LEMMA ReportsSubscribe ==
  ASSUME TypeOK, NEW v \in Created, NEW c \in Free, NEW f, NEW r, NEW rest \in Seq(Entries),
         Reports(rest), Subscribe(v, c, f, r), state' = [state EXCEPT ![c] = "pending"],
         calls' = rest
  PROVE  Reports(calls)'
<1>1. /\ c \in Promises /\ v \in Promises /\ v # c
      /\ state[c] = "free" /\ state'[c] = "pending"
      /\ \A q \in Promises : q # c => state'[q] = state[q]
  BY DEF TypeOK, Created, Free
<1>2. Cleans(calls)'
  <2> SUFFICES ASSUME NEW i \in 1..Len(rest), rest[i].op \in Settled
               PROVE  state'[rest[i].on] = rest[i].op
    BY DEF Cleans
  <2>1. state[rest[i].on] = rest[i].op /\ rest[i].on \in Promises
    BY EntryAt DEF Reports, Cleans
  <2> QED BY <1>1, <2>1 DEF Settled
<1>3. ASSUME NEW i \in 1..Len(immediates), immediates[i].op = "unhandled"
      PROVE  state'[immediates[i].on] = "rejected"
  <2>1. state[immediates[i].on] = "rejected" /\ immediates[i].on \in Promises
    BY <1>3, EntryAt DEF Reports, Unhandled, TypeOK
  <2> QED BY <1>1, <2>1
<1>4. Unhandled'
  <2>1. CASE immediates' = immediates
    BY <1>3, <2>1 DEF Unhandled
  <2>2. CASE immediates' = Append(WithoutUnhandled(v), Entry("adopt", c, v))
    <3>w. PICK w \in Seq(Entries) :
            /\ w = WithoutUnhandled(v)
            /\ \E g \in [1..Len(w) -> 1..Len(immediates)] :
                 /\ \A i \in 1..Len(w) : w[i] = immediates[g[i]]
                 /\ \A i, j \in 1..Len(w) : i < j => g[i] < g[j]
      BY <1>1, WithoutAt
    <3>1. PICK g \in [1..Len(w) -> 1..Len(immediates)] : \A i \in 1..Len(w) : w[i] = immediates[g[i]]
      BY <3>w
    <3> PICK e \in Entries : e = Entry("adopt", c, v) /\ e.op = "adopt"
      BY <1>1, EntryType DEF Ops, Entry
    <3>2. immediates' = Append(w, e)
      BY <2>2, <3>w
    <3>s. PICK s : s = immediates'
      OBVIOUS
    <3>3. /\ Len(w) \in Nat /\ Len(s) = Len(w) + 1 /\ s[Len(w) + 1] = e
          /\ \A i \in 1..Len(w) : s[i] = w[i]
      BY <3>2, <3>s, AppendAt
    <3>4. ASSUME NEW i \in 1..Len(s), s[i].op = "unhandled" PROVE state'[s[i].on] = "rejected"
      <4>1. CASE i = Len(w) + 1
        BY <3>3, <3>4, <4>1
      <4>2. CASE i \in 1..Len(w)
        <5>1. s[i] = immediates[g[i]] /\ g[i] \in 1..Len(immediates)
          BY <3>1, <3>3, <4>2
        <5> QED BY <1>3, <3>4, <5>1
      <4> QED BY <3>3, <4>1, <4>2
    <3> QED BY <3>4, <3>s DEF Unhandled
  <2> QED BY <2>1, <2>2 DEF Subscribe
<1>5. Handled'
  <2> SUFFICES ASSUME NEW q \in Promises, ~handled'[q] PROVE subscribers'[q] = << >>
    BY DEF Handled
  <2>1. q # v /\ ~handled[q]
    BY <1>1 DEF Subscribe, TypeOK
  <2>2. subscribers'[q] = subscribers[q]
    BY <1>1, <2>1 DEF Subscribe, TypeOK
  <2> QED BY <2>1, <2>2 DEF Reports, Handled
<1> QED BY <1>2, <1>4, <1>5 DEF Reports

LEMMA ReportsPush ==
  ASSUME NEW e \in Entries, e.op \notin Settled, NEW rest \in Seq(Entries), Reports(rest)
  PROVE  Reports(<<e>> \o rest)
<1>s. PICK s : s = <<e>> \o rest
  OBVIOUS
<1>1. /\ s[1] = e
      /\ \A j \in 1..Len(s) : j # 1 => j - 1 \in 1..Len(rest) /\ s[j] = rest[j - 1]
  BY <1>s, PushAt
<1>2. Cleans(s)
  BY <1>1 DEF Reports, Cleans
<1> QED BY <1>2, <1>s DEF Reports

LEMMA ReportsPop ==
  ASSUME TypeOK, calls # << >>, Reports(calls)
  PROVE  Reports(Tail(calls))
<1>s. PICK s : s = Tail(calls)
  OBVIOUS
<1>1. \A i \in 1..Len(s) : i + 1 \in 1..Len(calls) /\ s[i] = calls[i + 1]
  BY <1>s, TailAt DEF TypeOK
<1>2. Cleans(s)
  BY <1>1 DEF Reports, Cleans
<1> QED BY <1>2, <1>s DEF Reports

-----------------------------------------------------------------------------
(***************************************************************************)
(* The calls.                                                              *)
(***************************************************************************)
LEMMA IgnoredCall ==
  ASSUME NEW rest, NEW tl, Under(rest, tl), calls' = rest, told' = tl,
         NEW p, lent' \in {lent, lent \ {p}},
         UNCHANGED <<state, value, resolving, held, onResolve, onReject, subscribers,
                     pendingList, immediates, handled>>
  PROVE  Good' /\ Outcomes /\ Subscribing
<1>0. Core(rest, lent, tl) /\ Line(rest, tl)
  BY DEF Under
<1>1. Core(calls, lent, told)'
  BY <1>0, CoreIgnore
<1>2. Line(calls, told)'
  BY <1>0, LineIgnore
<1>3. Reports(calls)'
  BY DEF Under, Reports, Cleans, Unhandled, Handled
<1> QED BY <1>1, <1>2, <1>3 DEF Good, Outcomes, Final, Subscribing

LEMMA SettlingCall ==
  ASSUME NEW p \in Promises, NEW how \in Settled, NEW rest, NEW tl, Under(rest, tl),
         Untied(p, rest, tl), state[p] = "pending", state' = [state EXCEPT ![p] = how],
         NEW v, value' = [value EXCEPT ![p] = v],
         calls' = Cleaning(p, how) \o rest, told' = tl, lent' = lent \ {p},
         \A q \in Promises : q # p => resolving'[q] = resolving[q],
         UNCHANGED held, NoSubscription
  PROVE  Good' /\ Outcomes /\ Subscribing
<1>1. /\ TypeOK /\ rest \in Seq(Entries) /\ tl \in [Promises -> Seq(Promises)]
      /\ Core(rest, lent, tl) /\ Line(rest, tl) /\ Reports(rest)
  BY DEF Under
<1>2. UNCHANGED <<onResolve, onReject, handled, subscribers, pendingList, immediates>>
  BY DEF NoSubscription
<1>s. PICK s : s = Cleaning(p, how) \o rest
  OBVIOUS
<1>3. s \in Seq(Entries) /\ NoNewWork(s, rest)
  BY <1>1, <1>s, CleaningType, CleaningWork
<1>4. Core(s, lent, tl) /\ Untied(p, s, tl)
  BY <1>1, <1>3, LessWork
<1>5. Core(calls, lent, told)'
  BY <1>1, <1>2, <1>4, <1>s, CoreSettle
<1>6. Line(calls, told)'
  BY <1>1, <1>2, LineSettle DEF Core
<1>7. Reports(calls)'
  BY <1>1, <1>2, ReportsSettle
<1>8. \A q \in Promises \ {p} : Final(q)
  BY <1>1 DEF TypeOK, Final
<1>9. state[p] \notin Settled
  BY DEF Settled
<1> QED BY <1>2, <1>5, <1>6, <1>7, <1>8, <1>9 DEF Good, Outcomes, Subscribing

LEMMA SubscribingCall ==
  ASSUME NEW rest, NEW tl, Under(rest, tl), NEW v \in Created, NEW c \in Free, NEW f, NEW r,
         Subscribe(v, c, f, r), state' = [state EXCEPT ![c] = "pending"],
         calls' = rest, told' = tl, lent' = lent \ {f},
         \A q \in Promises : q # f => resolving'[q] = resolving[q],
         f \in Promises => /\ r = f /\ state[f] = "pending" /\ resolving'[f]
                           /\ Untied(f, rest, tl),
         f \notin Promises => r \notin Promises,
         UNCHANGED <<held, value>>
  PROVE  Good' /\ Outcomes /\ Subscribing
<1>1. /\ TypeOK /\ rest \in Seq(Entries) /\ tl \in [Promises -> Seq(Promises)]
      /\ Core(rest, lent, tl) /\ Line(rest, tl) /\ Reports(rest) /\ Known
  BY DEF Under, Core
<1>2. Core(calls, lent, told)'
  BY <1>1, CoreSubscribe
<1>3. Line(calls, told)'
  BY <1>1, LineSubscribe
<1>4. Reports(calls)'
  BY <1>1, ReportsSubscribe
<1>5. /\ c \in Promises /\ v \in Promises /\ state[c] = "free" /\ state'[c] = "pending"
      /\ \A q \in Promises : q # c => state'[q] = state[q]
  BY <1>1 DEF TypeOK, Created, Free
<1>6. \A q \in Promises : Final(q)
  BY <1>5 DEF Final, Settled
<1>7. Subscribing
  <2>1. \A q \in Promises : \A k \in 1..Len(subscribers[q]) : subscribers[q][k] # c
    BY <1>1, <1>5 DEF Known
  <2>2. subscribers' = [subscribers EXCEPT ![v] = Append(@, c)]
    BY DEF Subscribe
  <2> QED BY <1>5, <2>1, <2>2 DEF Subscribing
<1> QED BY <1>2, <1>3, <1>4, <1>6, <1>7 DEF Good, Outcomes

LEMMA LendingCall ==
  ASSUME NEW p \in Promises, NEW rest, NEW tl, Under(rest, tl),
         Untied(p, rest, tl), state[p] = "pending",
         calls' = <<Entry("calling", p, p)>> \o rest, told' = tl, lent' = lent \cup {p},
         resolving' = [resolving EXCEPT ![p] = TRUE],
         UNCHANGED <<held, state, value>>, NoSubscription
  PROVE  Good' /\ Outcomes /\ Subscribing
<1>1. /\ TypeOK /\ rest \in Seq(Entries) /\ tl \in [Promises -> Seq(Promises)]
      /\ Core(rest, lent, tl) /\ Line(rest, tl) /\ Reports(rest)
  BY DEF Under
<1>2. UNCHANGED <<onResolve, onReject, handled, subscribers, pendingList, immediates>>
  BY DEF NoSubscription
<1>e. PICK e \in Entries : e = Entry("calling", p, p) /\ e.op = "calling"
  BY EntryType DEF Ops, Entry
<1>s. PICK s : s = <<e>> \o rest
  OBVIOUS
<1>3. e.op \notin Work /\ e.op # "adopt" /\ e.op \notin Settled
  BY <1>e DEF Work, Settled
<1>4. s \in Seq(Entries) /\ NoNewWork(s, rest)
  BY <1>1, <1>3, <1>s, PushedWork, PushAt
<1>5. Core(s, lent, tl) /\ Untied(p, s, tl)
  BY <1>1, <1>4, LessWork
<1>6. calls' = s
  BY <1>e, <1>s
<1>7. Core(calls, lent, told)'
  BY <1>1, <1>2, <1>5, <1>6, CoreLend
<1>8. Line(s, tl)
  BY <1>1, <1>3, <1>s, LinePush
<1>9. Line(calls, told)'
  BY <1>2, <1>6, <1>8, LineIgnore
<1>10. Reports(s)
  BY <1>1, <1>3, <1>s, ReportsPush
<1>11. Reports(calls)'
  BY <1>2, <1>6, <1>10 DEF Reports, Cleans, Unhandled, Handled
<1> QED BY <1>2, <1>7, <1>9, <1>11 DEF Good, Outcomes, Final, Subscribing

LEMMA RejectCall ==
  ASSUME NEW p \in Promises, NEW v, NEW rest, NEW tl, Under(rest, tl),
         state[p] = "pending" => Untied(p, rest, tl) /\ p \notin lent',
         lent' \in {lent, lent \ {p}},
         Reject(p, v, rest), told' = tl, UNCHANGED <<held, resolving>>, NoSubscription
  PROVE  Good' /\ Outcomes /\ Subscribing
<1>1. CASE state[p] # "pending" /\ Ignore(rest)
  <2>1. /\ UNCHANGED <<state, value, onResolve, onReject, subscribers, pendingList,
                       immediates, handled>>
        /\ calls' = rest
    BY <1>1 DEF Ignore, NoSubscription
  <2> QED BY <2>1, IgnoredCall
<1>2. CASE /\ state[p] = "pending" /\ state' = [state EXCEPT ![p] = "rejected"]
           /\ value' = [value EXCEPT ![p] = v]
           /\ calls' = Cleaning(p, "rejected") \o rest
  <2>1. lent' = lent \ {p}
    BY <1>2
  <2>2. "rejected" \in Settled
    BY DEF Settled
  <2> QED BY <1>2, <2>1, <2>2, SettlingCall
<1> QED BY <1>1, <1>2 DEF Reject

LEMMA ResolvedValueCall ==
  ASSUME NEW p \in Promises, NEW v, NEW rest, NEW tl, Under(rest, tl),
         Untied(p, rest, tl), state[p] = "pending", ResolvedValue(p, v, TRUE, rest),
         told' = tl, UNCHANGED held
  PROVE  Good' /\ Outcomes /\ Subscribing
<1>t. TypeOK
  BY DEF Under
<1>1. CASE Fulfill(p, v, rest) /\ lent' = lent \ {p} /\ NoSubscription
  <2>1. /\ state' = [state EXCEPT ![p] = "fulfilled"] /\ value' = [value EXCEPT ![p] = v]
        /\ calls' = Cleaning(p, "fulfilled") \o rest /\ "fulfilled" \in Settled
        /\ \A q \in Promises : q # p => resolving'[q] = resolving[q]
    BY <1>1, <1>t DEF Fulfill, Settled, TypeOK
  <2> QED BY <1>1, <2>1, SettlingCall
<1>2. CASE /\ Reject(p, TypeError, rest) /\ lent' = lent \ {p}
           /\ resolving' = [resolving EXCEPT ![p] = TRUE] /\ NoSubscription
  <2>1. /\ state' = [state EXCEPT ![p] = "rejected"] /\ value' = [value EXCEPT ![p] = TypeError]
        /\ calls' = Cleaning(p, "rejected") \o rest /\ "rejected" \in Settled
        /\ \A q \in Promises : q # p => resolving'[q] = resolving[q]
    BY <1>2, <1>t DEF Reject, Settled, TypeOK
  <2> QED BY <1>2, <2>1, SettlingCall
<1>3. CASE /\ v \in Created \ {p}
           /\ \E c \in Free : /\ Subscribe(v, c, p, p)
                              /\ state' = [state EXCEPT ![c] = "pending"]
           /\ resolving' = [resolving EXCEPT ![p] = TRUE] /\ lent' = lent \ {p}
           /\ calls' = rest /\ UNCHANGED value
  <2>1. PICK c \in Free : Subscribe(v, c, p, p) /\ state' = [state EXCEPT ![c] = "pending"]
    BY <1>3
  <2>2. v \in Created /\ resolving'[p] /\ \A q \in Promises : q # p => resolving'[q] = resolving[q]
    BY <1>3, <1>t DEF TypeOK
  <2>3. \A q \in Promises : q # p => resolving'[q] = resolving[q]
    BY <2>2
  <2> QED BY <1>3, <2>1, <2>2, <2>3, SubscribingCall, ZenonT(30)
<1>4. CASE /\ v \in Foreign /\ resolving' = [resolving EXCEPT ![p] = TRUE]
           /\ lent' = lent \cup {p} /\ NoSubscription
           /\ Ignore(<<Entry("calling", p, p)>> \o rest)
  <2>1. UNCHANGED <<state, value>> /\ calls' = <<Entry("calling", p, p)>> \o rest
    BY <1>4 DEF Ignore
  <2> QED BY <1>4, <2>1, LendingCall
<1> QED BY <1>1, <1>2, <1>3, <1>4 DEF ResolvedValue

LEMMA ResolveCall ==
  ASSUME NEW p \in Promises, NEW v, NEW rest, NEW tl, Under(rest, tl),
         state[p] = "pending" /\ ~resolving[p] => Untied(p, rest, tl),
         Resolve(p, v, rest), told' = tl, UNCHANGED held
  PROVE  Good' /\ Outcomes /\ Subscribing
<1>1. CASE state[p] = "pending" /\ ~resolving[p] /\ ResolvedValue(p, v, TRUE, rest)
  BY <1>1, ResolvedValueCall
<1>2. CASE Ignore(rest) /\ NoResolution
  <2>1. /\ UNCHANGED <<state, value, resolving, onResolve, onReject, subscribers, pendingList,
                       immediates, handled, lent>>
        /\ calls' = rest
    BY <1>2 DEF Ignore, NoResolution, NoSubscription
  <2>2. lent' \in {lent, lent \ {p}}
    BY <2>1
  <2> QED BY <2>1, <2>2, IgnoredCall
<1> QED BY <1>1, <1>2 DEF Resolve

-----------------------------------------------------------------------------
(***************************************************************************)
(* Who calls is the only one who may.                                      *)
(***************************************************************************)
LEMMA NotAwaited ==
  ASSUME NEW cs, NEW tl, Core(cs, lent, tl), NEW p \in Promises, ~resolving[p]
  PROVE  /\ p \notin lent
         /\ \A c \in Promises : Awaits(c, tl) => onResolve[c] # p /\ onReject[c] # p
<1>1. p \notin lent
  BY DEF Core, Lent
<1>2. ASSUME NEW c \in Promises, Awaits(c, tl), onResolve[c] = p \/ onReject[c] = p
      PROVE  FALSE
  <2>1. Proxy(c)
    BY <1>2 DEF Proxy
  <2>2. onResolve[c] = onReject[c] /\ resolving[onResolve[c]]
    BY <1>2, <2>1 DEF Core, Proxies
  <2> QED BY <1>2, <2>2
<1> QED BY <1>1, <1>2

LEMMA UnderCalls ==
  ASSUME Inv
  PROVE  Under(calls, told)
BY DEF Inv, Good, Under, TypeOK

LEMMA HeldOne ==
  ASSUME Inv, NEW p \in held, ~resolving[p]
  PROVE  Untied(p, calls, told) /\ p \notin lent
<1>1. p \in Promises /\ Core(calls, lent, told)
  BY DEF Inv, Good, TypeOK
<1>2. ~Awaits(p, told) /\ ~Works(p, calls)
  BY <1>1 DEF Core, Owing
<1> QED BY <1>1, <1>2, NotAwaited DEF Untied

LEMMA LentOne ==
  ASSUME Inv, NEW p \in lent
  PROVE  Untied(p, calls, told) /\ state[p] = "pending" /\ resolving[p]
<1>1. p \in Promises /\ Core(calls, lent, told)
  BY DEF Inv, Good, TypeOK
<1>2. ~Awaits(p, told) /\ ~Works(p, calls) /\ state[p] = "pending" /\ resolving[p]
  BY <1>1 DEF Core, Owing, Lent
<1>3. ASSUME NEW c \in Promises, Awaits(c, told), onResolve[c] = p \/ onReject[c] = p
      PROVE  FALSE
  <2>1. Proxy(c)
    BY <1>1, <1>3 DEF Proxy
  <2>2. onResolve[c] = onReject[c] /\ onResolve[c] \notin lent
    BY <1>1, <1>3, <2>1 DEF Core, Proxies
  <2> QED BY <1>3, <2>2
<1> QED BY <1>2, <1>3 DEF Untied

\* What is under an entry that is no subscriber.
LEMMA UnderHead ==
  ASSUME Inv, calls # << >>, Head(calls).op # "adopt"
  PROVE  Under(Tail(calls), told)
<1>1. TypeOK /\ Core(calls, lent, told) /\ Line(calls, told) /\ Reports(calls)
  BY DEF Inv, Good
<1>s. PICK s : s = Tail(calls)
  OBVIOUS
<1>2. s \in Seq(Entries) /\ calls \in Seq(Entries) /\ NoNewWork(s, calls)
  BY <1>1, <1>s, HeadTail, PoppedWork DEF TypeOK
<1>3. Core(s, lent, told)
  BY <1>1, <1>2, LessWork
<1>4. Line(s, told) /\ Reports(s)
  BY <1>1, <1>s, LinePop, ReportsPop
<1>5. told \in [Promises -> Seq(Promises)]
  BY <1>1 DEF TypeOK
<1> QED BY <1>1, <1>2, <1>3, <1>4, <1>5, <1>s DEF Under

LEMMA WorkingOne ==
  ASSUME Inv, calls # << >>, Head(calls).op \in Work, NEW c, c = Head(calls).on
  PROVE  Untied(c, Tail(calls), told) /\ c \notin lent
<1>1. TypeOK /\ Core(calls, lent, told) /\ c \in Promises
  BY HeadTail DEF Inv, Good
<1>s. PICK s : s = Tail(calls)
  OBVIOUS
<1>2. /\ Head(calls) = calls[1] /\ 1 \in 1..Len(calls)
      /\ \A i \in 1..Len(s) : i + 1 \in 1..Len(calls) /\ s[i] = calls[i + 1]
  BY <1>1, <1>s, TailAt DEF TypeOK
<1>3. Works(c, calls)
  BY <1>2 DEF Works
<1>4. ~Awaits(c, told) /\ ~resolving[c] /\ c \notin lent
  BY <1>1, <1>3 DEF Core, OneDuty, Owing
<1>5. ~Works(c, s)
  <2> SUFFICES ASSUME NEW i \in 1..Len(s), s[i].op \in Work, s[i].on = c PROVE FALSE
    BY DEF Works
  <2>1. i + 1 \in 1..Len(calls) /\ s[i] = calls[i + 1] /\ i + 1 # 1
    BY <1>2
  <2> QED BY <1>1, <1>2, <2>1 DEF Core, WorkOnce
<1>6. \A d \in Promises : Awaits(d, told) => onResolve[d] # c /\ onReject[d] # c
  BY <1>1, <1>4, NotAwaited
<1> QED BY <1>4, <1>5, <1>6, <1>s DEF Untied

LEMMA CoreWork ==
  ASSUME NEW w \in Entries, NEW rest \in Seq(Entries), NEW tl, Core(rest, lent, tl),
         NEW c, w.op \in Work, w.on = c, ~Awaits(c, tl), ~Works(c, rest),
         state[c] = "pending", ~resolving[c], c \notin held, c \notin lent
  PROVE  /\ Core(<<w>> \o rest, lent, tl)
         /\ \A q : q # c /\ Untied(q, rest, tl) => Untied(q, <<w>> \o rest, tl)
<1>s. PICK s : s = <<w>> \o rest
  OBVIOUS
<1>1. /\ s[1] = w
      /\ \A j \in 1..Len(s) : j # 1 => j - 1 \in 1..Len(rest) /\ s[j] = rest[j - 1]
  BY <1>s, PushAt
<1>2. ASSUME NEW d, Works(d, s) PROVE d = c \/ Works(d, rest)
  BY <1>1, <1>2 DEF Works
<1>3. WorkOnce(s)
  <2> SUFFICES ASSUME NEW i \in 1..Len(s), NEW j \in 1..Len(s),
                      s[i].op \in Work, s[j].op \in Work, s[i].on = s[j].on
               PROVE  i = j
    BY DEF WorkOnce
  <2>1. \A k \in 1..Len(s) : s[k].op \in Work /\ s[k].on = c => k = 1
    BY <1>1 DEF Works
  <2>2. CASE i = 1 \/ j = 1
    BY <1>1, <2>1, <2>2
  <2>3. CASE i # 1 /\ j # 1
    <3>1. /\ i - 1 \in 1..Len(rest) /\ s[i] = rest[i - 1]
          /\ j - 1 \in 1..Len(rest) /\ s[j] = rest[j - 1]
      BY <1>1, <2>3
    <3>2. i - 1 = j - 1
      BY <3>1 DEF Core, WorkOnce
    <3> QED BY <3>2
  <2> QED BY <2>2, <2>3
<1>4. OneDuty(s, tl) /\ Owing(s, lent, tl)
  BY <1>2 DEF Core, OneDuty, Owing
<1>5. Core(s, lent, tl)
  BY <1>3, <1>4 DEF Core
<1>6. \A q : q # c /\ Untied(q, rest, tl) => Untied(q, s, tl)
  BY <1>2 DEF Untied
<1> QED BY <1>5, <1>6, <1>s

LEMMA CoreTold ==
  ASSUME NEW cs, NEW tl, Core(cs, lent, told),
         \A d \in Promises : Awaits(d, tl) => Awaits(d, told)
  PROVE  Core(cs, lent, tl)
<1>1. OneDuty(cs, tl) /\ Owing(cs, lent, tl)
  BY DEF Core, OneDuty, Owing
<1>2. Proxies(lent, tl)
  BY DEF Core, Proxies
<1> QED BY <1>1, <1>2 DEF Core

\* The subscriber at the head has been told: it may settle itself, or the
\* promise whose resolver or rejecter it was given.
LEMMA TellingOne ==
  ASSUME Inv, calls # << >>, Head(calls).op = "adopt",
         NEW p, p = Head(calls).from, NEW c, c = Head(calls).on,
         NEW tl, tl = [told EXCEPT ![p] = Append(@, c)]
  PROVE  /\ p \in Promises /\ c \in Promises /\ state[p] \in Settled
         /\ Under(Tail(calls), tl)
         /\ Untied(c, Tail(calls), tl) /\ c \notin lent
         /\ Under(<<Entry("handler", c, p)>> \o Tail(calls), tl)
         /\ Under(<<Entry("reply", c, c)>> \o Tail(calls), tl)
         /\ \A q \in Promises : q = onResolve[c] \/ q = onReject[c] =>
              /\ state[q] = "pending" /\ resolving[q] /\ q \notin lent
              /\ Untied(q, <<Entry("reply", c, c)>> \o Tail(calls), tl)
<1>1. TypeOK /\ Core(calls, lent, told) /\ Line(calls, told) /\ Reports(calls) /\ Distinct
  BY DEF Inv, Good, Core
<1>s. PICK rest : rest = Tail(calls)
  OBVIOUS
<1>n. PICK n : n = Len(told[p]) + 1
  OBVIOUS
<1>2. /\ p \in Promises /\ state[p] \in Settled /\ n \in 1..Len(subscribers[p])
      /\ subscribers[p][n] = c /\ Line(rest, tl)
  <2>1. /\ p \in Promises /\ state[p] \in Settled
        /\ n \in 1..Len(subscribers[p]) /\ subscribers[p][n] = c
        /\ Line(Tail(calls), [told EXCEPT ![p] = Append(@, c)])
    BY <1>1, <1>n, LineTell, ZenonT(60)
  <2> QED BY <2>1, <1>s
<1>3. c \in Promises
  BY <1>1, HeadTail
<1>4. /\ n \in Nat /\ Len(told[p]) = n - 1 /\ Len(tl[p]) = n
      /\ tl \in [Promises -> Seq(Promises)]
      /\ \A q \in Promises : q # p => tl[q] = told[q]
  <2>1. told \in [Promises -> Seq(Promises)]
    BY <1>1 DEF TypeOK
  <2>2. told[p] \in Seq(Promises) /\ tl[p] = Append(told[p], c)
    BY <1>2, <2>1
  <2>3. Len(told[p]) \in Nat /\ Append(told[p], c) \in Seq(Promises)
        /\ Len(Append(told[p], c)) = Len(told[p]) + 1
    BY <1>3, <2>2, AppendProperties
  <2>4. n \in Nat /\ Len(told[p]) = n - 1 /\ Len(tl[p]) = n
    BY <1>n, <2>2, <2>3
  <2> QED BY <1>2, <2>1, <2>3, <2>4
<1>5. ASSUME NEW d \in Promises, Awaits(d, tl) PROVE Awaits(d, told)
  <2>1. PICK q \in Promises : \E k \in 1..Len(subscribers[q]) : k > Len(tl[q]) /\ subscribers[q][k] = d
    BY <1>5 DEF Awaits
  <2>2. PICK k \in 1..Len(subscribers[q]) : k > Len(tl[q]) /\ subscribers[q][k] = d
    BY <2>1
  <2>3. k > Len(told[q])
    <3>1. CASE q = p
      BY <1>4, <2>2, <3>1
    <3>2. CASE q # p
      BY <1>4, <2>2, <3>2
    <3> QED BY <3>1, <3>2
  <2> QED BY <2>2, <2>3 DEF Awaits
<1>6. Awaits(c, told)
  <2>1. n > Len(told[p])
    BY <1>4
  <2> QED BY <1>2, <2>1 DEF Awaits
<1>7. ~Awaits(c, tl)
  <2> SUFFICES ASSUME NEW q \in Promises, NEW k \in 1..Len(subscribers[q]), k > Len(tl[q]),
                      subscribers[q][k] = c
               PROVE  FALSE
    BY DEF Awaits
  <2>1. q = p /\ k = n
    BY <1>1, <1>2 DEF Distinct
  <2> QED BY <1>4, <2>1
<1>8. state[c] = "pending" /\ ~resolving[c] /\ c \notin held /\ c \notin lent
  BY <1>1, <1>3, <1>6 DEF Core, Owing
<1>9. rest \in Seq(Entries) /\ calls \in Seq(Entries) /\ NoNewWork(rest, calls)
  BY <1>1, <1>s, HeadTail, PoppedWork DEF TypeOK
<1>10. Core(rest, lent, told) /\ Core(rest, lent, tl)
  <2>1. Core(rest, lent, told)
    BY <1>1, <1>9, LessWork
  <2> QED BY <1>5, <2>1, CoreTold
<1>11. ~Works(c, rest)
  BY <1>3, <1>6, <1>10 DEF Core, OneDuty
<1>12. Untied(c, rest, tl)
  BY <1>3, <1>7, <1>8, <1>10, <1>11, NotAwaited DEF Untied
<1>13. Reports(rest)
  BY <1>1, <1>s, ReportsPop
<1>14. ASSUME NEW w \in Entries, w.op \in Work, w.on = c
       PROVE  /\ Under(<<w>> \o rest, tl)
              /\ \A q : q # c /\ Untied(q, rest, tl) => Untied(q, <<w>> \o rest, tl)
  <2>1. w.op # "adopt" /\ w.op \notin Settled
    BY <1>14 DEF Work, Settled
  <2>2. <<w>> \o rest \in Seq(Entries)
    BY <1>9, PushAt
  <2>3. Line(<<w>> \o rest, tl)
    BY <1>1, <1>2, <1>9, <2>1, LinePush
  <2>4. Reports(<<w>> \o rest)
    BY <1>9, <1>13, <2>1, ReportsPush
  <2>5. /\ Core(<<w>> \o rest, lent, tl)
        /\ \A q : q # c /\ Untied(q, rest, tl) => Untied(q, <<w>> \o rest, tl)
    BY <1>7, <1>8, <1>9, <1>10, <1>11, <1>14, CoreWork
  <2> QED BY <1>1, <1>4, <2>2, <2>3, <2>4, <2>5 DEF Under
<1>15. PICK h \in Entries : h = Entry("handler", c, p) /\ h.op \in Work /\ h.on = c
  BY <1>2, <1>3, EntryType DEF Ops, Entry, Work
<1>16. PICK r \in Entries : r = Entry("reply", c, c) /\ r.op \in Work /\ r.on = c
  BY <1>3, EntryType DEF Ops, Entry, Work
<1>17. ASSUME NEW q \in Promises, q = onResolve[c] \/ q = onReject[c]
       PROVE  /\ state[q] = "pending" /\ resolving[q] /\ q \notin lent
              /\ Untied(q, <<r>> \o rest, tl)
  <2>1. Proxy(c)
    BY <1>17 DEF Proxy
  <2>2. /\ q = onResolve[c] /\ state[q] = "pending" /\ resolving[q] /\ q \notin lent
        /\ \A d \in Promises : Awaits(d, told) /\ onResolve[d] = q => c = d
    BY <1>1, <1>3, <1>6, <1>17, <2>1 DEF Core, Proxies
  <2>3. ~Awaits(q, tl) /\ ~Works(q, rest)
    BY <1>10, <2>2 DEF Core, Owing
  <2>4. ASSUME NEW d \in Promises, Awaits(d, tl), onResolve[d] = q \/ onReject[d] = q
        PROVE  FALSE
    <3>1. Awaits(d, told) /\ Proxy(d)
      BY <1>5, <2>4 DEF Proxy
    <3>2. onResolve[d] = q
      BY <1>1, <2>4, <3>1 DEF Core, Proxies
    <3> QED BY <1>7, <2>2, <2>4, <3>1, <3>2
  <2>5. Untied(q, rest, tl) /\ q # c
    BY <1>8, <2>2, <2>3, <2>4 DEF Untied
  <2> QED BY <1>14, <1>16, <2>2, <2>5
<1>18. Under(rest, tl)
  BY <1>1, <1>2, <1>4, <1>9, <1>10, <1>13 DEF Under
<1>19. Under(<<h>> \o rest, tl) /\ Under(<<r>> \o rest, tl)
  BY <1>14, <1>15, <1>16
<1> QED BY <1>2, <1>3, <1>8, <1>12, <1>15, <1>16, <1>17, <1>18, <1>19, <1>s

-----------------------------------------------------------------------------
(***************************************************************************)
(* The steps.                                                              *)
(***************************************************************************)
LEMMA NewStep ==
  ASSUME Inv, NEW p \in Promises, New(p)
  PROVE  Good' /\ Outcomes /\ Subscribing
<1>1. TypeOK /\ Core(calls, lent, told) /\ Line(calls, told) /\ Reports(calls)
  BY DEF Inv, Good
<1>2. /\ state[p] = "free" /\ state'[p] = "pending" /\ held' = held \cup {p}
      /\ \A q \in Promises : q # p => state'[q] = state[q]
      /\ UNCHANGED <<value, resolving, pendingList, onResolve, onReject, handled, lent,
                     immediates, calls, subscribers, told>>
  BY <1>1 DEF New, Free, Created, TypeOK
<1>3. \A q \in Promises : (state'[q] \in Settled <=> state[q] \in Settled) /\ Final(q)
  BY <1>2 DEF Settled, Final
<1>4. /\ \A q \in Promises : \A k \in 1..Len(subscribers[q]) : subscribers[q][k] \in Promises
      /\ \A i \in 1..Len(calls) : calls[i].from \in Promises /\ calls[i].on \in Promises
      /\ \A i \in 1..Len(immediates) : immediates[i].from \in Promises /\ immediates[i].on \in Promises
  BY <1>1, EntryAt DEF TypeOK
<1>5. (Distinct /\ Known /\ Fresh)'
  <2>1. Distinct'
    BY <1>1, <1>2 DEF Core, Distinct
  <2>2. Known'
    BY <1>1, <1>2, <1>4 DEF Core, Known
  <2>3. Fresh'
    BY <1>1, <1>2 DEF Core, Fresh
  <2> QED BY <2>1, <2>2, <2>3
<1>6. \A c \in Promises : (Awaits(c, told)' <=> Awaits(c, told)) /\ (Works(c, calls)' <=> Works(c, calls))
  BY <1>2 DEF Awaits, Works
<1>7. (WorkOnce(calls) /\ OneDuty(calls, told) /\ Owing(calls, lent, told))'
  <2>1. WorkOnce(calls)' /\ OneDuty(calls, told)'
    BY <1>1, <1>2, <1>6 DEF Core, WorkOnce, OneDuty
  <2>2. Owing(calls, lent, told)'
    BY <1>1, <1>2, <1>6 DEF Core, Owing
  <2> QED BY <2>1, <2>2
<1>8. Lent(lent)'
  BY <1>1, <1>2 DEF Core, Lent, TypeOK
<1>9. Proxies(lent, told)'
  <2>1. \A q : q # p /\ state[q] = "pending" => state'[q] = "pending"
    BY <1>1 DEF New, TypeOK
  <2>2. \A c \in Promises : Proxy(c)' <=> Proxy(c)
    BY <1>2 DEF Proxy
  <2> QED BY <1>1, <1>2, <1>6, <2>1, <2>2 DEF Core, Proxies
<1>10. (NotYet(told) /\ Shorter(told))'
  BY <1>1, <1>2, <1>3 DEF Line, NotYet, Shorter
<1>11. (Queued(calls, told) /\ Queued(immediates, told))'
  BY <1>1, <1>2, <1>3, <1>4 DEF Line, Queued
<1>12. (Ordered(calls) /\ Ordered(immediates) /\ Ahead(calls))'
  BY <1>1, <1>2 DEF Line, Ordered, Ahead
<1>13. NoneMissing(calls, told)'
  BY <1>1, <1>2, <1>3 DEF Line, NoneMissing, In
<1>14. Reports(calls)'
  <2>1. Cleans(calls)'
    BY <1>1, <1>2, <1>4 DEF Reports, Cleans, Settled
  <2>2. Unhandled' /\ Handled'
    BY <1>1, <1>2, <1>4 DEF Reports, Unhandled, Handled
  <2> QED BY <2>1, <2>2 DEF Reports
<1>15. Core(calls, lent, told)' /\ Line(calls, told)'
  BY <1>5, <1>7, <1>8, <1>9, <1>10, <1>11, <1>12, <1>13 DEF Core, Line
<1> QED BY <1>2, <1>3, <1>14, <1>15 DEF Good, Outcomes, Subscribing

LEMMA AdoptStep ==
  ASSUME Inv, AdoptState
  PROVE  Good' /\ Outcomes /\ Subscribing /\ Telling
<1>1. PICK p, c, tl, rest, hook :
        /\ p = Head(calls).from /\ c = Head(calls).on /\ rest = Tail(calls)
        /\ tl = [told EXCEPT ![p] = Append(@, c)]
        /\ hook = IF state[p] = "fulfilled" THEN onResolve[c] ELSE onReject[c]
  OBVIOUS
<1>2. calls # << >> /\ Head(calls).op = "adopt" /\ UNCHANGED held /\ told' = tl
  BY <1>1 DEF AdoptState
<1>3. \/ hook = None /\ Resolve(c, value[p], rest)
      \/ hook = None /\ Reject(c, value[p], rest) /\ NoResolution
      \/ hook = User /\ Ignore(<<Entry("handler", c, p)>> \o rest) /\ NoResolution
      \/ /\ hook \in Promises
         /\ ResolvedValue(hook, value[p], resolving[hook], <<Entry("reply", c, c)>> \o rest)
      \/ /\ hook \in Promises /\ NoResolution
         /\ Reject(hook, value[p], <<Entry("reply", c, c)>> \o rest)
  <2> DEFINE P == Head(calls).from
             C == Head(calls).on
             R == Tail(calls)
             H == IF state[P] = "fulfilled" THEN onResolve[C] ELSE onReject[C]
  <2>1. \/ H = None /\ Resolve(C, value[P], R)
        \/ H = None /\ Reject(C, value[P], R) /\ NoResolution
        \/ H = User /\ Ignore(<<Entry("handler", C, P)>> \o R) /\ NoResolution
        \/ /\ H \in Promises
           /\ ResolvedValue(H, value[P], resolving[H], <<Entry("reply", C, C)>> \o R)
        \/ /\ H \in Promises /\ NoResolution
           /\ Reject(H, value[P], <<Entry("reply", C, C)>> \o R)
    BY DEF AdoptState
  <2>2. p = P /\ c = C /\ rest = R /\ hook = H
    BY <1>1
  <2> QED BY ONLY <2>1, <2>2
<1>4. /\ p \in Promises /\ c \in Promises /\ state[p] \in Settled
      /\ Under(rest, tl) /\ Untied(c, rest, tl) /\ c \notin lent
      /\ Under(<<Entry("handler", c, p)>> \o rest, tl)
      /\ Under(<<Entry("reply", c, c)>> \o rest, tl)
      /\ hook \in Promises =>
           /\ state[hook] = "pending" /\ resolving[hook] /\ hook \notin lent
           /\ Untied(hook, <<Entry("reply", c, c)>> \o rest, tl)
  <2>1. /\ p = Head(calls).from /\ c = Head(calls).on
        /\ tl = [told EXCEPT ![p] = Append(@, c)]
    BY <1>1
  <2>2. /\ p \in Promises /\ c \in Promises /\ state[p] \in Settled
        /\ Under(Tail(calls), tl)
        /\ Untied(c, Tail(calls), tl) /\ c \notin lent
        /\ Under(<<Entry("handler", c, p)>> \o Tail(calls), tl)
        /\ Under(<<Entry("reply", c, c)>> \o Tail(calls), tl)
        /\ \A q \in Promises : q = onResolve[c] \/ q = onReject[c] =>
             /\ state[q] = "pending" /\ resolving[q] /\ q \notin lent
             /\ Untied(q, <<Entry("reply", c, c)>> \o Tail(calls), tl)
    BY ONLY Inv, <1>2, <2>1, TellingOne, ZenonT(60)
  <2>3. rest = Tail(calls) /\ (hook = onResolve[c] \/ hook = onReject[c])
    BY <1>1
  <2> QED BY ONLY <2>2, <2>3
<1>5. Telling
  <2>1. TypeOK /\ Distinct /\ Line(calls, told)
    BY DEF Inv, Good, Core
  <2>n. PICK n : n = Len(told[p]) + 1
    OBVIOUS
  <2>2. n \in 1..Len(subscribers[p]) /\ subscribers[p][n] = c
    BY <1>1, <1>2, <2>1, <2>n, LineTell
  <2>3. told[p] \in Seq(Promises) /\ Len(told[p]) \in Nat
    BY <1>4, <2>1 DEF TypeOK
  <2>4. Len(told[p]) < Len(subscribers[p])
    <3>1. Len(subscribers[p]) \in Nat
      BY <1>4, <2>1 DEF TypeOK
    <3> QED BY <2>n, <2>2, <2>3, <3>1
  <2>5. told' = [told EXCEPT ![p] = Append(@, subscribers[p][Len(@) + 1])]
    BY <1>1, <1>2, <2>n, <2>2
  <2> QED BY <1>4, <2>4, <2>5 DEF Telling
<1>6. CASE Resolve(c, value[p], rest)
  BY <1>2, <1>4, <1>5, <1>6, ResolveCall
<1>7. CASE Reject(c, value[p], rest) /\ NoResolution
  <2>1. lent' \in {lent, lent \ {c}} /\ c \notin lent' /\ UNCHANGED <<held, resolving>> /\ NoSubscription
    BY <1>2, <1>4, <1>7 DEF NoResolution
  <2> QED BY <1>2, <1>4, <1>5, <1>7, <2>1, RejectCall
<1>8. CASE Ignore(<<Entry("handler", c, p)>> \o rest) /\ NoResolution
  <2>1. /\ UNCHANGED <<state, value, resolving, held, onResolve, onReject, subscribers,
                       pendingList, immediates, handled>>
        /\ calls' = <<Entry("handler", c, p)>> \o rest
        /\ lent' \in {lent, lent \ {c}}
    BY <1>2, <1>8 DEF NoResolution, NoSubscription, Ignore
  <2> QED BY <1>2, <1>4, <1>5, <2>1, IgnoredCall
<1>9. CASE /\ hook \in Promises
           /\ ResolvedValue(hook, value[p], resolving[hook], <<Entry("reply", c, c)>> \o rest)
  <2>1. TypeOK
    BY DEF Inv
  <2>2. resolving[hook] = TRUE
    BY <1>4, <1>9, <2>1 DEF TypeOK
  <2>3. ResolvedValue(hook, value[p], TRUE, <<Entry("reply", c, c)>> \o rest)
    BY <1>9, <2>2
  <2> QED BY <1>2, <1>4, <1>5, <1>9, <2>3, ResolvedValueCall
<1>10. CASE /\ hook \in Promises /\ NoResolution
            /\ Reject(hook, value[p], <<Entry("reply", c, c)>> \o rest)
  <2>1. /\ lent' \in {lent, lent \ {hook}} /\ hook \notin lent'
        /\ UNCHANGED <<held, resolving>> /\ NoSubscription
    BY <1>2, <1>4, <1>10 DEF NoResolution
  <2> QED BY <1>2, <1>4, <1>5, <1>10, <2>1, RejectCall
<1> QED BY <1>3, <1>6, <1>7, <1>8, <1>9, <1>10

LEMMA CleanStep ==
  ASSUME Inv, Cleaned
  PROVE  Good' /\ Outcomes /\ Subscribing
<1>1. TypeOK /\ Core(calls, lent, told) /\ Line(calls, told) /\ Reports(calls)
  BY DEF Inv, Good
<1>2. /\ calls # << >> /\ Head(calls).op \in Settled /\ calls' = Tail(calls)
      /\ UNCHANGED <<state, value, resolving, onResolve, onReject, handled, held, lent,
                     emitted, subscribers, told>>
  BY DEF Cleaned
<1>p. PICK p : p = Head(calls).on
  OBVIOUS
<1>s. PICK s : s = Tail(calls)
  OBVIOUS
<1>3. s \in Seq(Entries) /\ calls \in Seq(Entries) /\ NoNewWork(s, calls) /\ p \in Promises
  BY <1>1, <1>2, <1>p, <1>s, HeadTail, PoppedWork DEF TypeOK
<1>4. Core(s, lent, told)
  BY <1>1, <1>3, LessWork
<1>5. Core(calls, lent, told)'
  <2>1. calls' = s /\ told' = told /\ lent' \in {lent, lent \ {p}}
    BY <1>2, <1>s
  <2> QED BY <1>2, <1>4, <2>1, CoreIgnore
<1>6. Line(calls, told)'
  BY <1>1, LineClean DEF Reports
<1>7. Reports(s)
  BY <1>1, <1>2, <1>s, ReportsPop
<1>8. Head(calls).op = "rejected" => state[p] = "rejected"
  <2>1. Head(calls) = calls[1] /\ 1 \in 1..Len(calls)
    BY <1>1, <1>2, TailAt DEF TypeOK
  <2> QED BY <1>1, <1>2, <1>p, <2>1 DEF Reports, Cleans
<1>9. Unhandled'
  <2>1. CASE immediates' = immediates
    BY <1>1, <1>2, <2>1 DEF Reports, Unhandled
  <2>2. CASE state[p] = "rejected" /\ immediates' = Append(immediates, Entry("unhandled", p, p))
    <3> PICK e \in Entries : e = Entry("unhandled", p, p) /\ e.on = p
      BY <1>3, EntryType DEF Ops, Entry
    <3>s. PICK t : t = immediates'
      OBVIOUS
    <3>1. /\ Len(immediates) \in Nat /\ Len(t) = Len(immediates) + 1
          /\ t[Len(immediates) + 1] = e
          /\ \A i \in 1..Len(immediates) : t[i] = immediates[i]
      BY <1>1, <2>2, <3>s, AppendAt DEF TypeOK
    <3>2. ASSUME NEW i \in 1..Len(t), t[i].op = "unhandled" PROVE state[t[i].on] = "rejected"
      <4>1. CASE i = Len(immediates) + 1
        BY <2>2, <3>1, <4>1
      <4>2. CASE i \in 1..Len(immediates)
        BY <1>1, <3>1, <3>2, <4>2 DEF Reports, Unhandled
      <4> QED BY <3>1, <4>1, <4>2
    <3> QED BY <1>2, <3>2, <3>s DEF Unhandled
  <2> QED BY <1>8, <1>p, <2>1, <2>2 DEF Cleaned
<1>10. Reports(calls)'
  <2>1. Cleans(calls)'
    BY <1>2, <1>7, <1>s DEF Reports, Cleans
  <2>2. Handled'
    BY <1>1, <1>2 DEF Reports, Handled
  <2> QED BY <1>9, <2>1, <2>2 DEF Reports
<1> QED BY <1>2, <1>5, <1>6, <1>10 DEF Good, Outcomes, Final, Subscribing

LEMMA RunStep ==
  ASSUME Inv, RunImmediate
  PROVE  Good' /\ Outcomes /\ Subscribing
<1>1. TypeOK /\ Core(calls, lent, told) /\ Line(calls, told) /\ Reports(calls)
  BY DEF Inv, Good
<1>e. PICK e : e = Head(immediates)
  OBVIOUS
<1>2. /\ calls = << >> /\ immediates # << >> /\ immediates' = Tail(immediates)
      /\ \/ e.op = "adopt" /\ calls' = <<e>>
         \/ calls' = calls
      /\ UNCHANGED <<state, value, resolving, pendingList, onResolve, onReject, handled, held,
                     lent, subscribers, told>>
  BY <1>e DEF RunImmediate
<1>s. PICK s : s = calls'
  OBVIOUS
<1>3. e \in Entries /\ calls \in Seq(Entries)
  BY <1>1, <1>2, <1>e, HeadTailProperties DEF TypeOK
<1>4. s \in Seq(Entries) /\ \A i \in 1..Len(s) : s[i].op = "adopt"
  <2>1. CASE e.op = "adopt" /\ calls' = <<e>>
    <3>1. Len(s) = 1 /\ s[1] = e /\ s \in Seq(Entries)
      BY <1>3, <1>s, <2>1
    <3> QED BY <2>1, <3>1
  <2>2. CASE calls' = calls
    <3>1. Len(s) = 0 /\ s \in Seq(Entries)
      BY <1>2, <1>3, <1>s, <2>2
    <3> QED BY <3>1
  <2> QED BY <1>2, <2>1, <2>2
<1>5. NoNewWork(s, calls)
  BY <1>4 DEF NoNewWork, Work
<1>6. Core(s, lent, told)
  BY <1>1, <1>3, <1>4, <1>5, LessWork
<1>7. Core(calls, lent, told)'
  <2>1. calls' = s /\ told' = told /\ lent' \in {lent, lent \ {e}}
    BY <1>2, <1>s
  <2> QED BY <1>2, <1>6, <2>1, CoreIgnore
<1>8. Line(calls, told)'
  BY <1>1, LineRun
<1>9. Reports(calls)'
  <2>1. Cleans(calls)'
    BY <1>4, <1>s DEF Cleans, Settled
  <2>2. \A i \in 1..Len(immediates') : i + 1 \in 1..Len(immediates) /\ immediates'[i] = immediates[i + 1]
    BY <1>1, <1>2, TailAt DEF TypeOK
  <2>3. Unhandled'
    BY <1>1, <1>2, <2>2 DEF Reports, Unhandled
  <2>4. Handled'
    BY <1>1, <1>2 DEF Reports, Handled
  <2> QED BY <2>1, <2>3, <2>4 DEF Reports
<1> QED BY <1>2, <1>7, <1>8, <1>9 DEF Good, Outcomes, Final, Subscribing

\* One case per action: who calls, and with what left to run.
LEMMA GoodStep ==
  ASSUME ~LateReject, Inv, Next
  PROVE  Good' /\ Outcomes /\ Subscribing /\ Telling
<1>t. TypeOK /\ held \subseteq Promises /\ lent \subseteq Promises
  BY DEF Inv, TypeOK
<1>u. Under(calls, told)
  BY UnderCalls
<1>1. ASSUME NEW p \in Promises, New(p)
      PROVE  Good' /\ Outcomes /\ Subscribing /\ Telling
  BY <1>1, NewStep DEF New, Telling
<1>2. ASSUME NEW p \in Promises, NEW v \in Results, CallResolve(p, v)
      PROVE  Good' /\ Outcomes /\ Subscribing /\ Telling
  <2>1. p \in held /\ Resolve(p, v, calls) /\ UNCHANGED <<held, told>>
    BY <1>2 DEF CallResolve
  <2>2. ~resolving[p] => Untied(p, calls, told)
    BY <2>1, HeldOne
  <2> QED BY <1>u, <2>1, <2>2, ResolveCall DEF Telling
<1>3. ASSUME NEW p \in Promises, NEW v \in Reasons, CallReject(p, v)
      PROVE  Good' /\ Outcomes /\ Subscribing /\ Telling
  <2>1. /\ p \in held /\ ~resolving[p] /\ Reject(p, v, calls) /\ NoSubscription
        /\ UNCHANGED <<held, told, resolving>> /\ lent' = lent
    BY <1>3 DEF CallReject, NoResolution
  <2>2. Untied(p, calls, told) /\ p \notin lent'
    BY <2>1, HeldOne
  <2>3. lent' \in {lent, lent \ {p}}
    BY <2>1
  <2> QED BY <1>u, <2>1, <2>2, <2>3, RejectCall DEF Telling
<1>4. ASSUME NEW p \in Promises, NEW c \in Promises, NEW h \in HookPairs,
             CallThen(p, c, h[1], h[2])
      PROVE  Good' /\ Outcomes /\ Subscribing /\ Telling
  <2>1. h[1] \notin Promises /\ h[2] \notin Promises
    BY PromiseAssumption
  <2>2. /\ p \in Created /\ c \in Free /\ Subscribe(p, c, h[1], h[2])
        /\ state' = [state EXCEPT ![c] = "pending"]
        /\ UNCHANGED <<value, resolving, held, lent, calls, told>>
    BY <1>4 DEF CallThen
  <2>3. lent' = lent \ {h[1]}
    BY <1>t, <2>1, <2>2
  <2>4. \A q \in Promises : q # h[1] => resolving'[q] = resolving[q]
    BY <2>2
  <2>f. PICK f, r : f = h[1] /\ r = h[2]
    OBVIOUS
  <2>5. /\ Subscribe(p, c, f, r) /\ lent' = lent \ {f} /\ f \notin Promises /\ r \notin Promises
        /\ \A q \in Promises : q # f => resolving'[q] = resolving[q]
    BY <2>1, <2>2, <2>3, <2>4, <2>f
  <2> QED BY <1>u, <2>2, <2>5, SubscribingCall DEF Telling
<1>5. ASSUME NEW p \in Promises, NEW v \in Results \ Foreign, ForeignResolve(p, v)
      PROVE  Good' /\ Outcomes /\ Subscribing /\ Telling
  <2>1. p \in lent /\ ResolvedValue(p, v, resolving[p], calls) /\ UNCHANGED <<held, told>>
    BY <1>5 DEF ForeignResolve
  <2>2. Untied(p, calls, told) /\ state[p] = "pending" /\ resolving[p]
    BY <2>1, LentOne
  <2>3. resolving[p] = TRUE
    BY <1>t, <2>2 DEF TypeOK
  <2>4. ResolvedValue(p, v, TRUE, calls)
    BY <2>1, <2>3
  <2> QED BY <1>u, <2>1, <2>2, <2>4, ResolvedValueCall DEF Telling
<1>6. ASSUME NEW p \in Promises, NEW v \in Reasons, ForeignReject(p, v)
      PROVE  Good' /\ Outcomes /\ Subscribing /\ Telling
  <2>1. /\ p \in lent /\ Reject(p, v, calls) /\ NoSubscription /\ lent' = lent \ {p}
        /\ UNCHANGED <<held, told, resolving>>
    BY <1>6 DEF ForeignReject
  <2>2. Untied(p, calls, told) /\ p \notin lent' /\ lent' \in {lent, lent \ {p}}
    BY <2>1, LentOne
  <2> QED BY <1>u, <2>1, <2>2, RejectCall DEF Telling
<1>7. CASE ForeignReturn
  <2>1. /\ calls # << >> /\ Head(calls).op # "adopt" /\ calls' = Tail(calls)
        /\ UNCHANGED <<state, value, resolving, held, onResolve, onReject, subscribers,
                       pendingList, immediates, handled, told>>
        /\ lent' = lent
    BY <1>7 DEF ForeignReturn, Ignore, NoResolution, NoSubscription
  <2>2. Under(Tail(calls), told)
    BY <2>1, UnderHead
  <2>p. PICK p : p = Head(calls).on
    OBVIOUS
  <2>3. lent' \in {lent, lent \ {p}}
    BY <2>1
  <2> QED BY <2>1, <2>2, <2>3, IgnoredCall DEF Telling
<1>8. ASSUME NEW v \in Results, HandlerReturn(v)
      PROVE  Good' /\ Outcomes /\ Subscribing /\ Telling
  <2>c. PICK c, rest : c = Head(calls).on /\ rest = Tail(calls)
    OBVIOUS
  <2>1. /\ calls # << >> /\ Head(calls).op # "adopt" /\ Head(calls).op \in Work
        /\ Resolve(c, v, rest) /\ UNCHANGED <<held, told>>
    BY <1>8, <2>c DEF HandlerReturn, Work
  <2>2. Under(rest, told) /\ Untied(c, rest, told) /\ c \in Promises
    BY <1>t, <2>c, <2>1, UnderHead, WorkingOne, HeadTail
  <2> QED BY <2>1, <2>2, ResolveCall DEF Telling
<1>9. ASSUME NEW v \in Reasons, HandlerThrow(v)
      PROVE  Good' /\ Outcomes /\ Subscribing /\ Telling
  <2>c. PICK c, rest : c = Head(calls).on /\ rest = Tail(calls)
    OBVIOUS
  <2>1. /\ calls # << >> /\ Head(calls).op # "adopt" /\ Head(calls).op \in Work
        /\ \/ Reject(c, v, rest) /\ NoResolution
           \/ Resolve(c, Undefined, rest)
        /\ UNCHANGED <<held, told>>
    BY <1>9, <2>c DEF HandlerThrow, Work
  <2>2. Under(rest, told) /\ Untied(c, rest, told) /\ c \in Promises /\ c \notin lent
    BY <1>t, <2>c, <2>1, UnderHead, WorkingOne, HeadTail
  <2>3. CASE Reject(c, v, rest) /\ NoResolution
    <3>1. /\ NoSubscription /\ UNCHANGED <<held, resolving>>
          /\ c \notin lent' /\ lent' \in {lent, lent \ {c}}
      BY <2>1, <2>2, <2>3 DEF NoResolution
    <3> QED BY <2>1, <2>2, <2>3, <3>1, RejectCall DEF Telling
  <2>4. CASE Resolve(c, Undefined, rest)
    BY <2>1, <2>2, <2>4, ResolveCall DEF Telling
  <2> QED BY <2>1, <2>3, <2>4
<1>10. CASE AdoptState
  BY <1>10, AdoptStep
<1>11. CASE Reply
  <2>c. PICK c, rest : c = Head(calls).on /\ rest = Tail(calls)
    OBVIOUS
  <2>1. /\ calls # << >> /\ Head(calls).op # "adopt" /\ Head(calls).op \in Work
        /\ Resolve(c, Undefined, rest) /\ UNCHANGED <<held, told>>
    BY <1>11, <2>c DEF Reply, Work
  <2>2. Under(rest, told) /\ Untied(c, rest, told) /\ c \in Promises
    BY <1>t, <2>c, <2>1, UnderHead, WorkingOne, HeadTail
  <2> QED BY <2>1, <2>2, ResolveCall DEF Telling
<1>12. CASE Cleaned
  BY <1>12, CleanStep DEF Cleaned, Telling
<1>13. CASE RunImmediate
  BY <1>13, RunStep DEF RunImmediate, Telling
<1> QED BY <1>1, <1>2, <1>3, <1>4, <1>5, <1>6, <1>7, <1>8, <1>9, <1>10, <1>11,
           <1>12, <1>13 DEF Next

LEMMA InitInv == Init => Inv
<1> SUFFICES ASSUME Init PROVE Inv
  OBVIOUS
<1>1. TypeOK
  BY PromiseAssumption DEF Init, TypeOK, Values, Hooks
<1>2. /\ Len(calls) = 0 /\ Len(immediates) = 0 /\ lent = {} /\ held = {}
      /\ \A p \in Promises : /\ Len(subscribers[p]) = 0 /\ subscribers[p] = << >>
                            /\ Len(told[p]) = 0 /\ told[p] = << >> /\ pendingList[p] = << >>
                            /\ state[p] = "free" /\ ~resolving[p]
  BY DEF Init
<1>3. 1..0 = {}
  OBVIOUS
<1>4. \A c \in Promises : ~Awaits(c, told) /\ ~Works(c, calls)
  BY <1>2, <1>3 DEF Awaits, Works
<1>5. Core(calls, lent, told)
  <2>1. Distinct /\ Known /\ Fresh /\ WorkOnce(calls)
    BY <1>2, <1>3 DEF Distinct, Known, Fresh, WorkOnce
  <2>2. OneDuty(calls, told) /\ Owing(calls, lent, told) /\ Lent(lent) /\ Proxies(lent, told)
    BY <1>2, <1>4 DEF OneDuty, Owing, Lent, Proxies
  <2> QED BY <2>1, <2>2 DEF Core
<1>6. Line(calls, told)
  BY <1>2, <1>3 DEF Line, NotYet, Shorter, Queued, Ordered, Ahead, NoneMissing
<1>7. Reports(calls)
  BY <1>2, <1>3 DEF Reports, Cleans, Unhandled, Handled
<1> QED BY <1>1, <1>5, <1>6, <1>7 DEF Inv, Good

LEMMA InvStep ==
  ASSUME ~LateReject, Inv, [Next]_vars
  PROVE  Inv' /\ Outcomes /\ Subscribing /\ Telling
<1>1. TypeOK'
  BY TypeStep DEF Inv
<1>2. CASE Next
  BY <1>1, <1>2, GoodStep DEF Inv
<1>3. CASE UNCHANGED vars
  <2>1. /\ calls' = calls /\ told' = told /\ lent' = lent
        /\ UNCHANGED <<state, value, resolving, held, onResolve, onReject, subscribers,
                       pendingList, immediates, handled>>
    BY <1>3 DEF vars
  <2>2. Under(calls, told)
    BY UnderCalls
  <2>3. lent' \in {lent, lent \ {None}}
    BY <2>1
  <2>4. Good' /\ Outcomes /\ Subscribing
    BY <2>1, <2>2, <2>3, IgnoredCall
  <2> QED BY <1>1, <2>1, <2>4 DEF Inv, Telling
<1> QED BY <1>2, <1>3

-----------------------------------------------------------------------------
(***************************************************************************)
(* The theorems.                                                           *)
(***************************************************************************)
Outcome == [p \in Promises |-> IF state[p] \in Settled THEN <<state[p], value[p]>> ELSE << >>]

LEMMA SettleStep ==
  ASSUME Outcomes
  PROVE  Contract!Settle \/ UNCHANGED Outcome
<1>1. \A q \in Promises : Final(q) => Outcome'[q] = Outcome[q]
  BY DEF Final, Outcome
<1>2. CASE \A q \in Promises : Final(q)
  <2>1. UNCHANGED Outcome
    BY <1>2 DEF Final, Outcome
  <2> QED BY <2>1
<1>3. ASSUME NEW p \in Promises, state[p] \notin Settled, \A q \in Promises \ {p} : Final(q)
      PROVE  Contract!Settle
  <2>1. Outcome[p] = << >>
    BY <1>3 DEF Outcome
  <2>2. Outcome' = [Outcome EXCEPT ![p] = Outcome'[p]]
    <3>1. Outcome' = [q \in Promises |-> Outcome'[q]]
      BY DEF Outcome
    <3>2. \A q \in Promises : Outcome'[q] = IF q = p THEN Outcome'[p] ELSE Outcome[q]
      BY <1>1, <1>3
    <3>3. Outcome = [q \in Promises |-> Outcome[q]]
      BY DEF Outcome
    <3> HIDE DEF Outcome
    <3> QED BY <3>1, <3>2, <3>3
  <2> QED BY <2>1, <2>2 DEF Contract!Settle, Outcome
<1> QED BY <1>2, <1>3 DEF Outcomes

\* Whatever settles promises and whoever subscribes meanwhile, a promise has
\* one outcome and tells it to each subscriber once, in the order they came;
\* the clients do not reject what they have resolved.
THEOREM ImplementsContract ==
  ASSUME ~LateReject
  PROVE  Spec => Implements
<1>1. Inv /\ [Next]_vars => Inv'
  BY InvStep
<1>2. Inv /\ [Next]_vars =>
        /\ Contract!Settle \/ UNCHANGED Outcome
        /\ Contract!Subscribe \/ UNCHANGED subscribers
        /\ Contract!Tell \/ UNCHANGED told
  <2> SUFFICES ASSUME Inv, [Next]_vars
               PROVE  /\ Contract!Settle \/ UNCHANGED Outcome
                      /\ Contract!Subscribe \/ UNCHANGED subscribers
                      /\ Contract!Tell \/ UNCHANGED told
    OBVIOUS
  <2>1. Outcomes /\ Subscribing /\ Telling
    BY InvStep
  <2>2. Contract!Settle \/ UNCHANGED Outcome
    BY <2>1, SettleStep
  <2>3. Contract!Subscribe \/ UNCHANGED subscribers
    BY <2>1 DEF Subscribing, Contract!Subscribe
  <2>4. Contract!Tell \/ UNCHANGED told
    BY <2>1 DEF Telling, Contract!Tell
  <2> QED BY <2>2, <2>3, <2>4
<1>3. Init => Contract!Init
  BY DEF Init, Contract!Init, Settled
<1> QED BY <1>1, <1>2, <1>3, InitInv, PTL DEF Spec, Implements, Contract!Spec, Outcome

\* Nothing that was fulfilled is settled again, with the same clients.
THEOREM OutcomeIsFinal ==
  ASSUME ~LateReject
  PROVE  Spec => FulfilledIsFinal
<1>1. Inv /\ [Next]_vars => Inv'
  BY InvStep
<1>2. Inv /\ [Next]_vars =>
        \A p \in Promises : state[p] = "fulfilled" => state'[p] = state[p] /\ value'[p] = value[p]
  <2> SUFFICES ASSUME Inv, [Next]_vars, NEW p \in Promises, state[p] = "fulfilled"
               PROVE  state'[p] = state[p] /\ value'[p] = value[p]
    OBVIOUS
  <2>1. Outcomes
    BY InvStep
  <2>2. Final(p)
    BY <2>1 DEF Outcomes, Settled
  <2> QED BY <2>2 DEF Final, Settled
<1> QED BY <1>1, <1>2, InitInv, PTL DEF Spec, FulfilledIsFinal

LEMMA ReportStep ==
  ASSUME Inv, [Next]_vars
  PROVE  \A p \in emitted' \ emitted : state[p] = "rejected" /\ subscribers[p] = << >>
<1>1. CASE RunImmediate
  <2> SUFFICES ASSUME NEW p \in emitted' \ emitted
               PROVE  state[p] = "rejected" /\ subscribers[p] = << >>
    OBVIOUS
  <2>e. PICK e : e = Head(immediates)
    OBVIOUS
  <2>1. immediates # << >> /\ e.op = "unhandled" /\ ~handled[e.on] /\ p = e.on
    BY <1>1, <2>e DEF RunImmediate
  <2>2. /\ immediates \in Seq(Entries) /\ e = immediates[1] /\ Len(immediates) \in Nat
        /\ Len(immediates) >= 1
    BY <2>1, <2>e, TailAt DEF Inv, TypeOK
  <2>3. 1 \in 1..Len(immediates) /\ p \in Promises
    BY <2>1, <2>2, EntryAt
  <2>4. state[p] = "rejected"
    BY <2>1, <2>2, <2>3 DEF Inv, Good, Reports, Unhandled
  <2> QED BY <2>1, <2>3, <2>4 DEF Inv, Good, Reports, Handled
<1>2. CASE UNCHANGED emitted
  BY <1>2
<1>3. RunImmediate \/ UNCHANGED emitted
  <2> SUFFICES ASSUME Next, ~RunImmediate PROVE UNCHANGED emitted
    BY DEF vars
  <2>1. (\E p \in Promises : New(p)) => UNCHANGED emitted
    BY DEF New
  <2>2. (\E p \in Promises, v \in Results : CallResolve(p, v)) => UNCHANGED emitted
    BY DEF CallResolve
  <2>3. (\E p \in Promises, v \in Reasons : CallReject(p, v)) => UNCHANGED emitted
    BY DEF CallReject
  <2>4. (\E p, c \in Promises, h \in HookPairs : CallThen(p, c, h[1], h[2])) => UNCHANGED emitted
    BY DEF CallThen
  <2>5. (\E p \in Promises, v \in Results \ Foreign : ForeignResolve(p, v)) => UNCHANGED emitted
    BY DEF ForeignResolve
  <2>6. (\E p \in Promises, v \in Reasons : ForeignReject(p, v)) => UNCHANGED emitted
    BY DEF ForeignReject
  <2>7. ForeignReturn \/ (\E v \in Results : HandlerReturn(v)) \/ (\E v \in Reasons : HandlerThrow(v))
          => UNCHANGED emitted
    BY DEF ForeignReturn, HandlerReturn, HandlerThrow
  <2>8. AdoptState \/ Reply \/ Cleaned => UNCHANGED emitted
    BY DEF AdoptState, Reply, Cleaned
  <2> QED BY <2>1, <2>2, <2>3, <2>4, <2>5, <2>6, <2>7, <2>8 DEF Next
<1> QED BY <1>1, <1>2, <1>3

\* 'unhandledRejection' is emitted for promises that are rejected and that
\* nobody subscribed to, however late the queue comes to it, with the same
\* clients.
THEOREM OnlyUnhandledIsReported ==
  ASSUME ~LateReject
  PROVE  Spec => ReportsAreRejections
<1>1. Inv /\ [Next]_vars => Inv'
  BY InvStep
<1>2. Inv /\ [Next]_vars =>
        \A p \in emitted' \ emitted : state[p] = "rejected" /\ subscribers[p] = << >>
  BY ReportStep
<1> QED BY <1>1, <1>2, InitInv, PTL DEF Spec, ReportsAreRejections
=============================================================================
