--------------------------- MODULE ObserverProofs ---------------------------
(***************************************************************************)
(* With Object.observe, who is stale is noticed; without it, a checkpoint  *)
(* that ends leaves nobody stale: for any objects, paths and observers,    *)
(* and whatever the callbacks change, open and close in the middle of a    *)
(* loop.                                                                   *)
(*                                                                         *)
(* StaleIsNoticed is not inductive.  Noticing adds how the observers and   *)
(* the sets are linked (the open ones are in the list of their set, which  *)
(* counts them; what waits in the cache has no users), and that of every   *)
(* open observer one of these holds: its set has a record that it will not *)
(* ignore; or the set observes everything on its paths and, if its value   *)
(* is old, the callback that runs has yet to come to it.  That the set     *)
(* observes the paths is what makes the next change a record, and is lost  *)
(* with a change of the paths, which is such a record.                     *)
(*                                                                         *)
(* CheckpointSettles rests on Listing: an open observer is in the list of  *)
(* the next cycle or the cycle that runs has yet to come to it; and while  *)
(* nothing has changed in that cycle, who is stale is still to come.       *)
(*                                                                         *)
(* Then who listens to a model (Watch) and observes an object.             *)
(* TellsOldAndNew is about one step: what it tells is computed listener by *)
(* listener, each of which writes the old value and the new one back; and  *)
(* it depends on the model only by what is read of it.                     *)
(*                                                                         *)
(* ObjectInv says of an observer that the records it has not been given    *)
(* yet lead from what it knew to what is there: a record more is a step    *)
(* more of the difference, and the whole list makes the difference of      *)
(* both.                                                                   *)
(***************************************************************************)
EXTENDS Client, SequenceTheorems, FiniteSetTheorems, WellFoundedInduction, TLAPS

-----------------------------------------------------------------------------
(* Walks along a list: a recursive function is defined for every list,     *)
(* since the shortest list for which it is not would have a shorter one.   *)

\* A set of numbers that is not empty has a least one.
LEMMA LeastNat ==
  ASSUME NEW S \in SUBSET Nat, S # {}
  PROVE  \E x \in S : \A y \in S : x <= y
<1>1. PICK x \in S : \A y \in S : ~ (<<y, x>> \in OpToRel(<, Nat))
  BY NatLessThanWellFounded, WFMin
<1>2. \A y \in S : ~ (y < x)
  BY <1>1 DEF OpToRel
<1> QED
  BY <1>2

\* f goes along a list: each step takes what is there to what comes next.
Walks(f, step, start, list, k) ==
  f[0] = start /\ \A i \in 1..k : f[i] = step[f[i - 1]][list[i]]

\* There is a walk along every list.
LEMMA WalkExists ==
  ASSUME NEW S, NEW R, NEW step \in [S -> [R -> S]], NEW start \in S, NEW list \in Seq(R), NEW n \in 0..Len(list)
  PROVE  \E f \in [0..n -> S] : Walks(f, step, start, list, n)
<1> DEFINE Has(k) == \E f \in [0..k -> S] : Walks(f, step, start, list, k)
           bad == {k \in 0..Len(list) : ~Has(k)}
<1>1. Len(list) \in Nat /\ \A i \in 1..Len(list) : list[i] \in R
  BY LenProperties
<1>2. SUFFICES bad = {}
  BY <1>2
<1>3. SUFFICES ASSUME bad # {} PROVE FALSE
  OBVIOUS
<1>4. bad \in SUBSET Nat
  BY <1>1
<1>5. PICK k \in bad : \A y \in bad : k <= y
  <2> HIDE DEF bad
  <2> QED
    BY <1>3, <1>4, LeastNat
<1>6. k \in 0..Len(list) /\ ~Has(k)
  OBVIOUS
<1> HIDE DEF bad
<1>7. CASE k = 0
  <2> DEFINE f == [i \in 0..0 |-> start]
  <2>1. f \in [0..0 -> S] /\ Walks(f, step, start, list, 0)
    BY DEF Walks
  <2> HIDE DEF f
  <2> QED
    BY <1>6, <1>7, <2>1
<1>8. CASE k # 0
  <2>1. k - 1 \in 0..Len(list) /\ k \in 1..Len(list)
    BY <1>1, <1>6, <1>8
  <2>2. Has(k - 1)
    <3>1. ~(k <= k - 1)
      BY <2>1
    <3>2. k - 1 \notin bad
      BY <1>5, <3>1
    <3> QED
      BY <2>1, <3>2 DEF bad
  <2>3. PICK g \in [0..(k - 1) -> S] : Walks(g, step, start, list, k - 1)
    BY <2>2
  <2> DEFINE next == step[g[k - 1]][list[k]]
             f == [i \in 0..k |-> IF i = k THEN next ELSE g[i]]
  <2>4. next \in S
    <3>1. g[k - 1] \in S /\ list[k] \in R
      BY <1>1, <2>1
    <3> QED
      BY <3>1
  <2> HIDE DEF next
  <2>5. f \in [0..k -> S]
    BY <2>1, <2>4
  <2>6. Walks(f, step, start, list, k)
    <3>1. f[0] = start
      <4>1. 0 \in 0..k /\ 0 # k
        BY <1>8, <2>1
      <4>2. f[0] = g[0]
        BY <4>1
      <4> QED
        BY <2>3, <4>2 DEF Walks
    <3>2. ASSUME NEW i \in 1..k PROVE f[i] = step[f[i - 1]][list[i]]
      <4>1. CASE i = k
        <5>1. f[k] = next /\ f[k - 1] = g[k - 1]
          BY <2>1
        <5> QED
          BY <4>1, <5>1 DEF next
      <4>2. CASE i # k
        <5>1. i \in 1..(k - 1)
          BY <2>1, <4>2
        <5>2. g[i] = step[g[i - 1]][list[i]]
          BY <2>3, <5>1 DEF Walks
        <5>3. f[i] = g[i] /\ f[i - 1] = g[i - 1]
          BY <2>1, <4>2, <5>1
        <5> QED
          BY <5>2, <5>3
      <4> QED
        BY <4>1, <4>2
    <3> QED
      BY <3>1, <3>2 DEF Walks
  <2> HIDE DEF f
  <2> QED
    BY <1>6, <2>5, <2>6
<1> QED
  BY <1>7, <1>8

\* Where two lists are the same, so are the walks.
LEMMA WalksAgree ==
  ASSUME NEW step, NEW start, NEW n \in Nat, NEW f, NEW g, NEW a, NEW c,
         Walks(f, step, start, a, n), Walks(g, step, start, c, n), \A i \in 1..n : a[i] = c[i]
  PROVE  \A i \in 0..n : f[i] = g[i]
<1> DEFINE bad == {i \in 0..n : f[i] # g[i]}
<1>1. SUFFICES ASSUME bad # {} PROVE FALSE
  OBVIOUS
<1>2. bad \in SUBSET Nat
  OBVIOUS
<1>3. PICK k \in bad : \A y \in bad : k <= y
  <2> HIDE DEF bad
  <2> QED
    BY <1>1, <1>2, LeastNat
<1>4. k \in 0..n /\ f[k] # g[k]
  OBVIOUS
<1>5. k # 0
  BY <1>4 DEF Walks
<1>6. k \in 1..n /\ k - 1 \in 0..n /\ ~(k <= k - 1)
  BY <1>4, <1>5
<1>7. f[k - 1] = g[k - 1]
  BY <1>3, <1>6
<1>8. f[k] = step[f[k - 1]][a[k]] /\ g[k] = step[g[k - 1]][c[k]] /\ a[k] = c[k]
  BY <1>6 DEF Walks
<1> QED
  BY <1>4, <1>7, <1>8

-----------------------------------------------------------------------------
(* Paths, and what a change of the objects does to them.                   *)

\* What the properties of the objects may hold.
Held == Obj \cup {Nil}
Heap == [Obj -> [Name -> Held]]
WatchList == Seq([object : Obj, path : Seq(Name)])
HeapStep(heap) == [x \in Held |-> [n \in Name |-> IF x = Nil THEN Nil ELSE heap[x][n]]]

\* From one object to the next.
LEMMA AlongWalks ==
  ASSUME NEW heap \in Heap, NEW x \in Obj, NEW path \in Seq(Name)
  PROVE  /\ H!Along(heap, x, path) \in [0..Len(path) -> Held]
         /\ Walks(H!Along(heap, x, path), HeapStep(heap), x, path, Len(path))
<1> DEFINE Is(f) == f = [i \in 0..Len(path) |->
                          IF i = 0 THEN x ELSE IF f[i - 1] = Nil THEN Nil ELSE heap[f[i - 1]][path[i]]]
           g == H!Along(heap, x, path)
<1>1. HeapStep(heap) \in [Held -> [Name -> Held]]
  BY DEF HeapStep, Held, Heap
<1>2. Len(path) \in Nat /\ Len(path) \in 0..Len(path) /\ \A i \in 1..Len(path) : path[i] \in Name
  BY LenProperties
<1>3. x \in Held
  BY DEF Held
<1>4. PICK f \in [0..Len(path) -> Held] : Walks(f, HeapStep(heap), x, path, Len(path))
  BY <1>1, <1>2, <1>3, WalkExists
<1>5. Is(f)
  <2>1. ASSUME NEW i \in 0..Len(path)
        PROVE  f[i] = IF i = 0 THEN x ELSE IF f[i - 1] = Nil THEN Nil ELSE heap[f[i - 1]][path[i]]
    <3>1. CASE i = 0
      BY <1>4, <3>1 DEF Walks
    <3>2. CASE i # 0
      <4>1. i \in 1..Len(path) /\ i - 1 \in 0..Len(path)
        BY <1>2, <3>2
      <4>2. f[i] = HeapStep(heap)[f[i - 1]][path[i]] /\ f[i - 1] \in Held /\ path[i] \in Name
        BY <1>2, <1>4, <4>1 DEF Walks
      <4> QED
        BY <3>2, <4>2 DEF HeapStep
    <3> QED
      BY <3>1, <3>2
  <2> QED
    BY <2>1
<1>6. Is(g)
  BY <1>5 DEF H!Along
<1> HIDE DEF g
<1> DEFINE bad == {i \in 0..Len(path) : g[i] \notin Held}
<1>7. \A i \in 1..Len(path) : g[i] = IF g[i - 1] = Nil THEN Nil ELSE heap[g[i - 1]][path[i]]
  BY <1>2, <1>6
<1>8. g[0] = x
  BY <1>2, <1>6
<1>9. bad = {}
  <2> SUFFICES ASSUME bad # {} PROVE FALSE
    OBVIOUS
  <2>1. bad \in SUBSET Nat
    BY <1>2
  <2>2. PICK k \in bad : \A y \in bad : k <= y
    <3> HIDE DEF bad
    <3> QED
      BY <2>1, LeastNat
  <2>3. k \in 0..Len(path) /\ g[k] \notin Held
    OBVIOUS
  <2>4. k \in 1..Len(path) /\ k - 1 \in 0..Len(path) /\ ~(k <= k - 1)
    BY <1>2, <1>3, <1>8, <2>3
  <2>5. g[k - 1] \in Held
    BY <2>2, <2>4
  <2> QED
    BY <1>2, <1>7, <2>3, <2>4, <2>5 DEF Held, Heap
<1>10. g \in [0..Len(path) -> Held]
  <2>1. g = [i \in 0..Len(path) |-> g[i]]
    BY <1>6
  <2> QED
    BY <1>9, <2>1
<1>11. ASSUME NEW i \in 1..Len(path) PROVE g[i] = HeapStep(heap)[g[i - 1]][path[i]]
  <2>1. i - 1 \in 0..Len(path) /\ g[i - 1] \in Held /\ path[i] \in Name
    BY <1>2, <1>10
  <2> QED
    BY <1>7, <2>1 DEF HeapStep
<1> QED
  BY <1>8, <1>10, <1>11 DEF Walks, g

\* A path does not see a change of what is not on it.
LEMMA OffThePath ==
  ASSUME H!PathAssumption, NEW heap \in Heap, NEW x \in Obj, NEW path \in Seq(Name),
         NEW y \in Obj, NEW n \in Name, NEW v \in Held,
         <<y, n>> \notin H!IterateObjects(heap, x, path), NEW next, next = [heap EXCEPT ![y][n] = v]
  PROVE  H!Along(next, x, path) = H!Along(heap, x, path)
<1> DEFINE f == H!Along(heap, x, path)
           g == H!Along(next, x, path)
<1>1. next \in Heap /\ \A z \in Obj : \A k \in Name : <<z, k>> # <<y, n>> => next[z][k] = heap[z][k]
  BY DEF Heap
<1>2. f \in [0..Len(path) -> Held] /\ Walks(f, HeapStep(heap), x, path, Len(path))
  BY AlongWalks
<1>3. g \in [0..Len(path) -> Held] /\ Walks(g, HeapStep(next), x, path, Len(path))
  BY <1>1, AlongWalks
<1>4. Len(path) \in Nat /\ DOMAIN path = 1..Len(path) /\ \A i \in 1..Len(path) : path[i] \in Name
  BY LenProperties
<1>5. \A k \in 1..Len(path) : f[k - 1] # Nil => <<f[k - 1], path[k]>> # <<y, n>>
  BY <1>4 DEF H!IterateObjects
<1> HIDE DEF f, g
<1>6. Walks(f, HeapStep(next), x, path, Len(path))
  <2>1. f[0] = x
    BY <1>2 DEF Walks
  <2>2. ASSUME NEW i \in 1..Len(path) PROVE f[i] = HeapStep(next)[f[i - 1]][path[i]]
    <3>1. i - 1 \in 0..Len(path) /\ path[i] \in Name
      BY <1>4
    <3>2. f[i - 1] \in Held /\ f[i] = HeapStep(heap)[f[i - 1]][path[i]]
      BY <1>2, <3>1 DEF Walks
    <3>3. CASE f[i - 1] = Nil
      BY <3>1, <3>2, <3>3 DEF HeapStep
    <3>4. CASE f[i - 1] # Nil
      <4>1. f[i - 1] \in Obj /\ next[f[i - 1]][path[i]] = heap[f[i - 1]][path[i]]
        BY <1>1, <1>5, <3>1, <3>2, <3>4 DEF Held
      <4> QED
        BY <3>1, <3>2, <3>4, <4>1 DEF HeapStep
    <3> QED
      BY <3>3, <3>4
  <2> QED
    BY <2>1, <2>2 DEF Walks
<1>7. \A i \in 0..Len(path) : g[i] = f[i]
  BY <1>3, <1>4, <1>6, WalksAgree
<1>8. g = f
  BY <1>2, <1>3, <1>7
<1> QED
  BY <1>8 DEF f, g

\* A watch is of an object and the names of a path.
LEMMA WatchParts ==
  ASSUME NEW watch \in WatchList, NEW i \in DOMAIN watch
  PROVE  watch[i].object \in Obj /\ watch[i].path \in Seq(Name)
<1> DEFINE Part == [object : Obj, path : Seq(Name)]
<1>1. watch \in Seq(Part)
  BY DEF WatchList
<1> HIDE DEF Part
<1>2. DOMAIN watch = 1..Len(watch)
  BY <1>1, LenProperties
<1>3. watch[i] \in Part
  BY <1>1, <1>2, ElementOfSeq
<1> QED
  BY <1>3 DEF Part

\* Nor does an observer that watches other paths.
LEMMA OffThePaths ==
  ASSUME H!PathAssumption, NEW heap \in Heap, NEW watch \in WatchList,
         NEW y \in Obj, NEW n \in Name, NEW v \in Held, <<y, n>> \notin H!OnPaths(heap, watch)
  PROVE  /\ H!Values([heap EXCEPT ![y][n] = v], watch) = H!Values(heap, watch)
         /\ H!OnPaths([heap EXCEPT ![y][n] = v], watch) = H!OnPaths(heap, watch)
<1> DEFINE next == [heap EXCEPT ![y][n] = v]
<1>1. ASSUME NEW i \in DOMAIN watch
      PROVE  H!Along(next, watch[i].object, watch[i].path) = H!Along(heap, watch[i].object, watch[i].path)
  <2> DEFINE x == watch[i].object
             path == watch[i].path
  <2>1. x \in Obj /\ path \in Seq(Name)
    BY WatchParts
  <2>2. <<y, n>> \notin H!IterateObjects(heap, x, path)
    BY DEF H!OnPaths
  <2> HIDE DEF x, path
  <2>3. H!Along(next, x, path) = H!Along(heap, x, path)
    BY <2>1, <2>2, OffThePath
  <2> QED
    BY <2>3 DEF x, path
<1> HIDE DEF next
<1>2. H!Values(next, watch) = H!Values(heap, watch)
  BY <1>1 DEF H!Values, H!GetValueFrom
<1>3. ASSUME NEW i \in DOMAIN watch
      PROVE  H!IterateObjects(next, watch[i].object, watch[i].path) = H!IterateObjects(heap, watch[i].object, watch[i].path)
  BY <1>1 DEF H!IterateObjects
<1>4. H!OnPaths(next, watch) = H!OnPaths(heap, watch)
  BY <1>3 DEF H!OnPaths
<1> QED
  BY <1>2, <1>4 DEF next

\* What is met is objects and names.
LEMMA OnPathsType ==
  ASSUME H!PathAssumption, NEW heap \in Heap, NEW watch \in WatchList
  PROVE  H!OnPaths(heap, watch) \subseteq Obj \X Name
<1> SUFFICES ASSUME NEW e \in H!OnPaths(heap, watch) PROVE e \in Obj \X Name
  OBVIOUS
<1>1. PICK i \in DOMAIN watch : e \in H!IterateObjects(heap, watch[i].object, watch[i].path)
  BY DEF H!OnPaths
<1> DEFINE x == watch[i].object
           path == watch[i].path
<1>2. x \in Obj /\ path \in Seq(Name)
  BY WatchParts
<1> HIDE DEF x, path
<1>3. PICK k \in DOMAIN path : e = <<H!Along(heap, x, path)[k - 1], path[k]>> /\ H!Along(heap, x, path)[k - 1] # Nil
  BY <1>1 DEF H!IterateObjects, x, path
<1>4. k \in 1..Len(path) /\ path[k] \in Name /\ Len(path) \in Nat
  BY <1>2, LenProperties
<1>5. H!Along(heap, x, path)[k - 1] \in Held
  <2>1. k - 1 \in 0..Len(path)
    BY <1>4
  <2> QED
    BY <1>2, <2>1, AlongWalks
<1> QED
  BY <1>3, <1>4, <1>5 DEF Held

\* An observer has a value for each of its paths.
LEMMA ValuesType ==
  ASSUME NEW heap \in Heap, NEW watch \in WatchList
  PROVE  H!Values(heap, watch) \in Seq(Held)
<1>1. DOMAIN watch = 1..Len(watch) /\ Len(watch) \in Nat
  BY LenProperties DEF WatchList
<1>2. ASSUME NEW i \in DOMAIN watch PROVE H!GetValueFrom(heap, watch[i].object, watch[i].path) \in Held
  <2>1. watch[i].object \in Obj /\ watch[i].path \in Seq(Name)
    BY WatchParts
  <2>2. Len(watch[i].path) \in 0..Len(watch[i].path)
    BY <2>1, LenProperties
  <2> QED
    BY <2>1, <2>2, AlongWalks DEF H!GetValueFrom
<1>3. H!Values(heap, watch) \in [1..Len(watch) -> Held]
  BY <1>1, <1>2 DEF H!Values
<1> QED
  BY <1>1, <1>3, SeqDef

-----------------------------------------------------------------------------
(* The memory, and what is kept of it.                                     *)

\* The memory of PathObserver.
Asked == [object : Obj, name : Name]
ObservedSet == [root : Held, props : SUBSET Name, objects : SUBSET Obj, observers : Seq(Observer),
                count : Int, queue : SUBSET Asked]
States == {"unopened", "opened", "closed", "resetting"}
Memory == [heap : Heap, state : [Observer -> States],
           watch : [Observer -> WatchList], value : [Observer -> Seq(Held)], set : [Observer -> Nat],
           sets : Seq(ObservedSet), cache : Seq(Nat), last : Nat, all : Seq(Observer), tasks : Nat]

\* The observers that are in a set.
Users(s, id) == {o \in Observer : s.set[o] = id}

\* A set is used by the open observers that are in it, and counts them; what
\* waits in the cache is used by none.
Linked(s) ==
  /\ \A o \in Observer : H!IsOpen(s, o) <=> s.set[o] # 0
  /\ \A o \in Observer : H!IsOpen(s, o) =>
       /\ s.set[o] \in DOMAIN s.sets
       /\ \E i \in DOMAIN s.sets[s.set[o]].observers : s.sets[s.set[o]].observers[i] = o
  /\ \A id \in DOMAIN s.sets : IsFiniteSet(Users(s, id)) /\ s.sets[id].count = Cardinality(Users(s, id))
  /\ s.last \in DOMAIN s.sets \cup {0}
  /\ \A k \in DOMAIN s.cache : s.cache[k] \in DOMAIN s.sets /\ s.cache[k] # s.last /\ Users(s, s.cache[k]) = {}
  /\ \A j, k \in DOMAIN s.cache : s.cache[j] = s.cache[k] => j = k

\* A record is on its way that the set will not ignore.
Noticed(set) == \E e \in set.queue : ~(e.object = set.root /\ e.name \notin set.props)

\* A set observes what is on the paths of an observer.
Covers(set, pairs) == \A e \in pairs : e[1] \in set.objects /\ (e[1] = set.root => e[2] \in set.props)

\* The callback of its set will come to an observer.
Pending(s, r, o) ==
  /\ r.kind = "callback" /\ r.set = s.set[o]
  /\ \E i \in DOMAIN s.sets[r.set].observers : r.at <= i /\ s.sets[r.set].observers[i] = o

\* An open observer is noticed, or its set sees its paths and the callback that
\* runs will come to what has changed.
Kept(s, r, o) ==
  \/ Noticed(s.sets[s.set[o]])
  \/ /\ Covers(s.sets[s.set[o]], H!OnPaths(s.heap, s.watch[o]))
     /\ H!Changed(s, o) => Pending(s, r, o)

\* The callback that runs is that of a set.
Going(s, r) == r.kind = "callback" => r.set \in DOMAIN s.sets /\ r.at \in Nat \ {0}

\* The inductive invariant of StaleIsNoticed.
Noticing(s, r) ==
  /\ s \in Memory /\ Linked(s) /\ Going(s, r)
  /\ \A o \in Observer : H!IsOpen(s, o) => Kept(s, r, o)

\* The sets are a list of sets.
LEMMA SetsParts ==
  ASSUME NEW s \in Memory
  PROVE  /\ DOMAIN s.sets = 1..Len(s.sets) /\ Len(s.sets) \in Nat
         /\ \A i \in DOMAIN s.sets : s.sets[i] \in ObservedSet
<1>1. s.sets \in Seq(ObservedSet)
  BY DEF Memory
<1>2. DOMAIN s.sets = 1..Len(s.sets) /\ Len(s.sets) \in Nat
  BY <1>1, LenProperties
<1> QED
  BY <1>1, <1>2, ElementOfSeq

\* A memory in which a property was written, part by part.
LEMMA MemoryWrite ==
  ASSUME NEW s \in Memory, NEW x \in Obj, NEW n \in Name, NEW v \in Held, NEW t, t = H!Write(s, x, n, v),
         NEW sets \in Seq(ObservedSet), sets = [i \in DOMAIN s.sets |-> H!Recorded(s.sets[i], x, n)]
  PROVE  /\ t \in Memory
         /\ t.heap = [s.heap EXCEPT ![x][n] = v] /\ t.sets = sets /\ t.state = s.state /\ t.watch = s.watch
         /\ t.value = s.value /\ t.set = s.set /\ t.cache = s.cache /\ t.last = s.last
         /\ t.all = s.all /\ t.tasks = s.tasks
<1> DEFINE next == [s.heap EXCEPT ![x][n] = v]
<1>1. next \in Heap
  BY DEF Memory, Heap
<1>2. t = [s EXCEPT !.heap = next, !.sets = sets]
  BY DEF Memory, H!Write
<1> HIDE DEF next
<1>3. t \in Memory
  BY ONLY s \in Memory, sets \in Seq(ObservedSet), <1>1, <1>2 DEF Memory
<1>4. /\ t.heap = next /\ t.sets = sets /\ t.state = s.state /\ t.watch = s.watch
      /\ t.value = s.value /\ t.set = s.set /\ t.cache = s.cache /\ t.last = s.last
      /\ t.all = s.all /\ t.tasks = s.tasks
  BY ONLY s \in Memory, <1>2 DEF Memory
<1> QED
  BY <1>3, <1>4 DEF next

\* A memory with another value for an observer.
LEMMA MemoryValue ==
  ASSUME NEW s \in Memory, NEW o \in Observer, NEW t, t = H!Check(s, o),
         NEW v \in Seq(Held), v = H!Values(s.heap, s.watch[o])
  PROVE  /\ t \in Memory
         /\ t.heap = s.heap /\ t.sets = s.sets /\ t.state = s.state /\ t.watch = s.watch
         /\ t.value = [s.value EXCEPT ![o] = v] /\ t.set = s.set /\ t.cache = s.cache /\ t.last = s.last
         /\ t.all = s.all /\ t.tasks = s.tasks
<1>1. t = [s EXCEPT !.value[o] = v]
  BY DEF H!Check
<1>2. t \in Memory
  BY ONLY s \in Memory, o \in Observer, v \in Seq(Held), <1>1 DEF Memory
<1>3. /\ t.heap = s.heap /\ t.sets = s.sets /\ t.state = s.state /\ t.watch = s.watch
      /\ t.set = s.set /\ t.cache = s.cache /\ t.last = s.last
      /\ t.all = s.all /\ t.tasks = s.tasks
  BY ONLY s \in Memory, <1>1 DEF Memory
<1>4. t.value = [s.value EXCEPT ![o] = v]
  BY ONLY s \in Memory, <1>1 DEF Memory
<1> QED
  BY <1>2, <1>3, <1>4

\* Who is in a set does not depend on the values and the records.
LEMMA LinkedStill ==
  ASSUME NEW s, NEW t, Linked(s), t.state = s.state, t.set = s.set, t.cache = s.cache, t.last = s.last,
         DOMAIN t.sets = DOMAIN s.sets,
         \A i \in DOMAIN s.sets : t.sets[i].observers = s.sets[i].observers /\ t.sets[i].count = s.sets[i].count
  PROVE  Linked(t)
<1>1. \A o \in Observer : H!IsOpen(t, o) <=> H!IsOpen(s, o)
  BY DEF H!IsOpen
<1>2. \A id : Users(t, id) = Users(s, id)
  BY DEF Users
<1>3. \A o \in Observer : H!IsOpen(t, o) <=> t.set[o] # 0
  BY <1>1 DEF Linked
<1>4. ASSUME NEW o \in Observer, H!IsOpen(t, o)
      PROVE  /\ t.set[o] \in DOMAIN t.sets
             /\ \E i \in DOMAIN t.sets[t.set[o]].observers : t.sets[t.set[o]].observers[i] = o
  <2>1. s.set[o] \in DOMAIN s.sets /\ \E i \in DOMAIN s.sets[s.set[o]].observers : s.sets[s.set[o]].observers[i] = o
    BY <1>1, <1>4 DEF Linked
  <2> QED
    BY <2>1
<1>5. \A id \in DOMAIN t.sets : IsFiniteSet(Users(t, id)) /\ t.sets[id].count = Cardinality(Users(t, id))
  BY <1>2 DEF Linked
<1>6. t.last \in DOMAIN t.sets \cup {0}
  BY DEF Linked
<1>7. \A k \in DOMAIN t.cache : t.cache[k] \in DOMAIN t.sets /\ t.cache[k] # t.last /\ Users(t, t.cache[k]) = {}
  BY <1>2 DEF Linked
<1>8. \A j, k \in DOMAIN t.cache : t.cache[j] = t.cache[k] => j = k
  BY DEF Linked
<1> QED
  BY <1>3, <1>4, <1>5, <1>6, <1>7, <1>8 DEF Linked

\* The memory t is s after the property n of x has become v.
Written(s, x, n, v, rec, t) ==
  /\ t \in Memory /\ t.heap = [s.heap EXCEPT ![x][n] = v]
  /\ t.state = s.state /\ t.watch = s.watch /\ t.value = s.value /\ t.set = s.set
  /\ t.cache = s.cache /\ t.last = s.last /\ t.all = s.all /\ t.tasks = s.tasks
  /\ DOMAIN t.sets = DOMAIN s.sets
  /\ \A i \in DOMAIN s.sets :
       /\ t.sets[i].root = s.sets[i].root /\ t.sets[i].props = s.sets[i].props
       /\ t.sets[i].objects = s.sets[i].objects /\ t.sets[i].observers = s.sets[i].observers
       /\ t.sets[i].count = s.sets[i].count
       /\ t.sets[i].queue = IF x \in s.sets[i].objects THEN s.sets[i].queue \cup {rec} ELSE s.sets[i].queue

\* A change gives a record to the sets that observe the object.
LEMMA WriteIs ==
  ASSUME NEW s \in Memory, NEW x \in Obj, NEW n \in Name, NEW v \in Held, NEW t, t = H!Write(s, x, n, v),
         NEW rec, rec = [object |-> x, name |-> n]
  PROVE  Written(s, x, n, v, rec, t)
<1> DEFINE sets == [i \in DOMAIN s.sets |-> H!Recorded(s.sets[i], x, n)]
<1>1. rec \in Asked
  BY DEF Asked
<1>2. DOMAIN s.sets = 1..Len(s.sets) /\ Len(s.sets) \in Nat /\ \A i \in DOMAIN s.sets : s.sets[i] \in ObservedSet
  BY SetsParts
<1>3. ASSUME NEW i \in DOMAIN s.sets
      PROVE  /\ sets[i] \in ObservedSet /\ sets[i].root = s.sets[i].root /\ sets[i].props = s.sets[i].props
             /\ sets[i].objects = s.sets[i].objects /\ sets[i].observers = s.sets[i].observers
             /\ sets[i].count = s.sets[i].count
             /\ sets[i].queue = IF x \in s.sets[i].objects THEN s.sets[i].queue \cup {rec} ELSE s.sets[i].queue
  <2> DEFINE set == s.sets[i]
             found == sets[i]
  <2>1. set \in ObservedSet /\ found = H!Recorded(set, x, n)
    BY <1>2
  <2> HIDE DEF set, found
  <2>2. CASE x \in set.objects
    <3>1. found = [set EXCEPT !.queue = set.queue \cup {rec}]
      BY <2>1, <2>2 DEF H!Recorded
    <3>2. set.queue \cup {rec} \in SUBSET Asked
      BY <1>1, <2>1 DEF ObservedSet
    <3>3. found \in ObservedSet
      BY ONLY <2>1, <3>1, <3>2 DEF ObservedSet
    <3>4. /\ found.root = set.root /\ found.props = set.props /\ found.objects = set.objects
          /\ found.observers = set.observers /\ found.count = set.count /\ found.queue = set.queue \cup {rec}
      BY ONLY <2>1, <3>1 DEF ObservedSet
    <3> QED
      BY <2>2, <3>3, <3>4 DEF set, found
  <2>3. CASE x \notin set.objects
    <3>1. found = set
      BY <2>1, <2>3 DEF H!Recorded
    <3> QED
      BY <2>1, <2>3, <3>1 DEF set, found
  <2> QED
    BY <2>2, <2>3
<1>4. sets \in Seq(ObservedSet)
  <2>1. sets \in [1..Len(s.sets) -> ObservedSet]
    BY <1>2, <1>3
  <2> HIDE DEF sets
  <2> QED
    BY <1>2, <2>1, SeqDef
<1>5. DOMAIN sets = DOMAIN s.sets /\ sets = [i \in DOMAIN s.sets |-> H!Recorded(s.sets[i], x, n)]
  OBVIOUS
<1> HIDE DEF sets
<1>6. /\ t \in Memory /\ t.heap = [s.heap EXCEPT ![x][n] = v]
      /\ t.sets = sets /\ t.state = s.state /\ t.watch = s.watch
      /\ t.value = s.value /\ t.set = s.set /\ t.cache = s.cache /\ t.last = s.last
      /\ t.all = s.all /\ t.tasks = s.tasks
  BY <1>4, <1>5, MemoryWrite
<1> QED
  BY <1>3, <1>5, <1>6 DEF Written

\* A change of a property is seen by every observer that has it on its paths.
LEMMA WriteNoticed ==
  ASSUME H!PathAssumption, NEW s, NEW r, Noticing(s, r), NEW x \in Obj, NEW n \in Name, NEW v \in Held
  PROVE  Noticing(H!Write(s, x, n, v), r)
<1> DEFINE t == H!Write(s, x, n, v)
           next == [s.heap EXCEPT ![x][n] = v]
           rec == [object |-> x, name |-> n]
<1>1. s \in Memory /\ Linked(s) /\ Going(s, r)
  BY DEF Noticing
<1>4. t = H!Write(s, x, n, v) /\ rec = [object |-> x, name |-> n] /\ rec.object = x /\ rec.name = n
  OBVIOUS
<1> HIDE DEF t, rec
<1>6. /\ t \in Memory /\ t.heap = [s.heap EXCEPT ![x][n] = v]
      /\ t.state = s.state /\ t.watch = s.watch /\ t.value = s.value /\ t.set = s.set
      /\ t.cache = s.cache /\ t.last = s.last /\ t.all = s.all /\ t.tasks = s.tasks
      /\ DOMAIN t.sets = DOMAIN s.sets
      /\ \A i \in DOMAIN s.sets :
           /\ t.sets[i].root = s.sets[i].root /\ t.sets[i].props = s.sets[i].props
           /\ t.sets[i].objects = s.sets[i].objects /\ t.sets[i].observers = s.sets[i].observers
           /\ t.sets[i].count = s.sets[i].count
           /\ t.sets[i].queue = IF x \in s.sets[i].objects THEN s.sets[i].queue \cup {rec} ELSE s.sets[i].queue
  <2>1. s \in Memory
    BY <1>1
  <2>2. Written(s, x, n, v, rec, t)
    BY <1>4, <2>1, WriteIs
  <2> QED
    BY <2>2 DEF Written
<1> HIDE DEF next
<1>8. \A o \in Observer : H!IsOpen(t, o) <=> H!IsOpen(s, o)
  BY <1>6 DEF H!IsOpen
<1>10. Linked(t)
  BY <1>1, <1>6, LinkedStill
<1>11. Going(t, r)
  BY <1>1, <1>6 DEF Going
<1>12. ASSUME NEW o \in Observer, H!IsOpen(t, o)
       PROVE  Kept(t, r, o)
  <2> DEFINE id == s.set[o]
             was == s.sets[id]
             is == t.sets[id]
  <2>1. id \in DOMAIN s.sets /\ t.set[o] = id
    BY <1>1, <1>6, <1>8, <1>12 DEF Linked
  <2>2. Kept(s, r, o)
    BY <1>8, <1>12 DEF Noticing
  <2>3. /\ is.root = was.root /\ is.props = was.props /\ is.objects = was.objects /\ is.observers = was.observers
        /\ is.queue = IF x \in was.objects THEN was.queue \cup {rec} ELSE was.queue
    BY <1>6, <2>1
  <2> HIDE DEF is, was
  <2>4. CASE Noticed(was)
    <3>1. Noticed(is)
      BY <2>3, <2>4 DEF Noticed
    <3> QED
      BY <2>1, <3>1 DEF Kept, is
  <2>5. CASE Covers(was, H!OnPaths(s.heap, s.watch[o])) /\ (H!Changed(s, o) => Pending(s, r, o))
    <3>1. CASE <<x, n>> \in H!OnPaths(s.heap, s.watch[o])
      <4>1. x \in was.objects /\ (x = was.root => n \in was.props)
        BY <2>5, <3>1 DEF Covers
      <4>2. rec \in is.queue /\ rec.object = x /\ rec.name = n
        BY <1>4, <2>3, <4>1
      <4>3. Noticed(is)
        BY <2>3, <4>1, <4>2 DEF Noticed
      <4> QED
        BY <2>1, <4>3 DEF Kept, is
    <3>2. CASE <<x, n>> \notin H!OnPaths(s.heap, s.watch[o])
      <4>1. s.heap \in Heap /\ s.watch[o] \in WatchList
        BY <1>1 DEF Memory
      <4>2. /\ H!Values(next, s.watch[o]) = H!Values(s.heap, s.watch[o])
            /\ H!OnPaths(next, s.watch[o]) = H!OnPaths(s.heap, s.watch[o])
        BY <3>2, <4>1, OffThePaths DEF next
      <4>3. H!Changed(t, o) <=> H!Changed(s, o)
        BY <1>6, <4>2 DEF H!Changed, next
      <4>4. Covers(is, H!OnPaths(t.heap, t.watch[o]))
        BY <1>6, <2>3, <2>5, <4>2 DEF Covers, next
      <4>5. Pending(s, r, o) => Pending(t, r, o)
        BY <1>6, <2>1, <2>3 DEF Pending, is, was
      <4> QED
        BY <2>1, <2>5, <4>3, <4>4, <4>5 DEF Kept, is
    <3> QED
      BY <3>1, <3>2
  <2> QED
    BY <2>2, <2>4, <2>5 DEF Kept, was
<1> QED
  BY <1>6, <1>10, <1>11, <1>12 DEF Noticing, t

\* A check leaves an observer with what is there, and the others as they were.
LEMMA CheckNoticed ==
  ASSUME NEW s, NEW r, Noticing(s, r), NEW o \in Observer
  PROVE  Noticing(H!Check(s, o), r) /\ ~H!Changed(H!Check(s, o), o)
<1> DEFINE t == H!Check(s, o)
<1>1. s \in Memory /\ Linked(s) /\ Going(s, r)
  BY DEF Noticing
<1> DEFINE v == H!Values(s.heap, s.watch[o])
<1>2. v \in Seq(Held)
  BY <1>1, ValuesType DEF Memory
<1>3. t = H!Check(s, o) /\ v = H!Values(s.heap, s.watch[o])
  OBVIOUS
<1> HIDE DEF t, v
<1>4. /\ t \in Memory
      /\ t.heap = s.heap /\ t.sets = s.sets /\ t.state = s.state /\ t.watch = s.watch
      /\ t.value = [s.value EXCEPT ![o] = v]
      /\ t.set = s.set /\ t.cache = s.cache /\ t.last = s.last
      /\ t.all = s.all /\ t.tasks = s.tasks
  BY <1>1, <1>2, <1>3, MemoryValue
<1>6. \A p \in Observer : H!IsOpen(t, p) <=> H!IsOpen(s, p)
  BY <1>4 DEF H!IsOpen
<1>8. Linked(t)
  BY <1>1, <1>4, LinkedStill
<1>9. ~H!Changed(t, o)
  BY <1>1, <1>4 DEF H!Changed, Memory, v
<1>10. ASSUME NEW p \in Observer, H!IsOpen(t, p)
       PROVE  Kept(t, r, p)
  <2>1. Kept(s, r, p)
    BY <1>6, <1>10 DEF Noticing
  <2>2. H!Changed(t, p) => H!Changed(s, p)
    BY <1>1, <1>4, <1>9 DEF H!Changed, Memory
  <2>3. Pending(s, r, p) => Pending(t, r, p)
    BY <1>4 DEF Pending
  <2> QED
    BY <1>4, <2>1, <2>2, <2>3 DEF Kept
<1>11. Going(t, r)
  BY <1>1, <1>4 DEF Going
<1> QED
  BY <1>4, <1>8, <1>9, <1>10, <1>11 DEF Noticing, t

-----------------------------------------------------------------------------
(* An observer leaves its set.                                             *)

\* What leaving does to the set of an observer.
More(s, o) == s.sets[s.set[o]].count - 1 > 0
Rest(s, o) == IF More(s, o) THEN [s.sets[s.set[o]] EXCEPT !.count = @ - 1]
              ELSE [H!NewSet(Nil) EXCEPT !.queue = s.sets[s.set[o]].queue]
LeftTo(s, o, status) == [H!Disconnect(s, o) EXCEPT !.state[o] = status, !.value[o] = << >>, !.watch[o] = << >>]

\* What is left of the set is a set with one user less.
LEMMA RestIs ==
  ASSUME NEW s \in Memory, NEW o \in Observer, s.set[o] \in DOMAIN s.sets, NEW was, was = s.sets[s.set[o]]
  PROVE  /\ Rest(s, o) \in ObservedSet
         /\ Rest(s, o).queue = was.queue
         /\ More(s, o) => /\ Rest(s, o).root = was.root /\ Rest(s, o).props = was.props
                          /\ Rest(s, o).objects = was.objects /\ Rest(s, o).observers = was.observers
                          /\ Rest(s, o).count = was.count - 1
         /\ ~More(s, o) => Rest(s, o).count = 0
<1>1. was \in ObservedSet
  BY SetsParts
<1>2. CASE More(s, o)
  <2>1. Rest(s, o) = [was EXCEPT !.count = was.count - 1]
    BY <1>2 DEF Rest
  <2>2. was.count - 1 \in Int
    BY <1>1 DEF ObservedSet
  <2>3. Rest(s, o) \in ObservedSet
    BY ONLY <1>1, <2>1, <2>2 DEF ObservedSet
  <2>4. /\ Rest(s, o).root = was.root /\ Rest(s, o).props = was.props /\ Rest(s, o).queue = was.queue
        /\ Rest(s, o).objects = was.objects /\ Rest(s, o).observers = was.observers
        /\ Rest(s, o).count = was.count - 1
    BY ONLY <1>1, <2>1 DEF ObservedSet
  <2> QED
    BY <1>2, <2>3, <2>4
<1>3. CASE ~More(s, o)
  <2>1. Rest(s, o) = [H!NewSet(Nil) EXCEPT !.queue = was.queue]
    BY <1>3 DEF Rest
  <2>2. Rest(s, o) = [root |-> Nil, props |-> {}, objects |-> {}, observers |-> << >>, count |-> 0, queue |-> was.queue]
    BY <2>1 DEF H!NewSet
  <2>3. Nil \in Held /\ << >> \in Seq(Observer) /\ was.queue \in SUBSET Asked
    BY <1>1 DEF Held, ObservedSet
  <2> QED
    BY ONLY <1>3, <2>2, <2>3 DEF ObservedSet
<1> QED
  BY <1>2, <1>3

\* The memory t is s after the observer o has left its set.
LeftParts(s, o, status, t) ==
  /\ t \in Memory
  /\ t.heap = s.heap /\ t.all = s.all /\ t.tasks = s.tasks
  /\ t.state = [s.state EXCEPT ![o] = status]
  /\ t.value = [s.value EXCEPT ![o] = << >>]
  /\ t.watch = [s.watch EXCEPT ![o] = << >>]
  /\ t.set = [s.set EXCEPT ![o] = 0]
  /\ t.sets = [s.sets EXCEPT ![s.set[o]] = Rest(s, o)]
  /\ t.cache = IF More(s, o) THEN s.cache ELSE Append(s.cache, s.set[o])
  /\ t.last = IF More(s, o) \/ s.last # s.set[o] THEN s.last ELSE 0

\* That is what closing and resetting do.
LEMMA LeftIs ==
  ASSUME NEW s \in Memory, NEW o \in Observer, s.set[o] \in DOMAIN s.sets,
         NEW status \in States,
         NEW t, t = LeftTo(s, o, status)
  PROVE  LeftParts(s, o, status, t)
<1> DEFINE id == s.set[o]
           sets == [s.sets EXCEPT ![id] = Rest(s, o)]
           spare == IF More(s, o) THEN s.cache ELSE Append(s.cache, id)
           last == IF More(s, o) \/ s.last # id THEN s.last ELSE 0
           u == [s EXCEPT !.sets = sets, !.set = [s.set EXCEPT ![o] = 0], !.cache = spare, !.last = last,
                          !.state = [s.state EXCEPT ![o] = status], !.value = [s.value EXCEPT ![o] = << >>],
                          !.watch = [s.watch EXCEPT ![o] = << >>]]
<1>1. id \in Nat /\ id # 0 /\ id \in 1..Len(s.sets)
  BY SetsParts
<1>2. sets \in Seq(ObservedSet)
  <2>1. Rest(s, o) \in ObservedSet
    BY RestIs
  <2>2. sets \in [1..Len(s.sets) -> ObservedSet]
    BY <2>1, SetsParts
  <2> QED
    BY <2>2, SetsParts, SeqDef
<1>3. spare \in Seq(Nat) /\ last \in Nat
  <2>1. s.cache \in Seq(Nat) /\ s.last \in Nat
    BY DEF Memory
  <2> QED
    BY <1>1, <2>1
<1>4. t = u
  <2>1. CASE More(s, o)
    <3>1. H!Disconnect(s, o) = [s EXCEPT !.sets[id] = Rest(s, o), !.set[o] = 0]
      BY <1>1, <2>1, SetsParts DEF H!Disconnect, More, Rest, ObservedSet
    <3>2. t = [s EXCEPT !.sets = sets, !.set = [s.set EXCEPT ![o] = 0],
                        !.state = [s.state EXCEPT ![o] = status], !.value = [s.value EXCEPT ![o] = << >>],
                        !.watch = [s.watch EXCEPT ![o] = << >>]]
      BY ONLY s \in Memory, t = LeftTo(s, o, status), <3>1 DEF LeftTo, Memory
    <3> QED
      BY ONLY s \in Memory, <2>1, <3>2 DEF Memory
  <2>2. CASE ~More(s, o)
    <3>1. H!Disconnect(s, o) = [s EXCEPT !.sets[id] = Rest(s, o), !.cache = Append(s.cache, id), !.set[o] = 0,
                                         !.last = IF s.last = id THEN 0 ELSE s.last]
      BY <1>1, <2>2, SetsParts DEF H!Disconnect, More, Rest, ObservedSet
    <3>2. t = [s EXCEPT !.sets = sets, !.set = [s.set EXCEPT ![o] = 0], !.cache = Append(s.cache, id),
                        !.last = IF s.last = id THEN 0 ELSE s.last,
                        !.state = [s.state EXCEPT ![o] = status], !.value = [s.value EXCEPT ![o] = << >>],
                        !.watch = [s.watch EXCEPT ![o] = << >>]]
      BY ONLY s \in Memory, t = LeftTo(s, o, status), <3>1 DEF LeftTo, Memory
    <3>3. spare = Append(s.cache, id) /\ last = IF s.last = id THEN 0 ELSE s.last
      BY <2>2
    <3> QED
      BY <3>2, <3>3
  <2> QED
    BY <2>1, <2>2
<1> DEFINE set == [s.set EXCEPT ![o] = 0]
           states == [s.state EXCEPT ![o] = status]
           valued == [s.value EXCEPT ![o] = << >>]
           watch == [s.watch EXCEPT ![o] = << >>]
<1>5. /\ set \in [Observer -> Nat] /\ states \in [Observer -> States]
      /\ valued \in [Observer -> Seq(Held)] /\ watch \in [Observer -> WatchList]
  <2>1. << >> \in WatchList /\ << >> \in Seq(Held)
    BY DEF WatchList
  <2> QED
    BY <2>1 DEF Memory
<1>6. t = [s EXCEPT !.sets = sets, !.set = set, !.cache = spare, !.last = last,
                    !.state = states, !.value = valued, !.watch = watch]
  BY <1>4
<1> HIDE DEF sets, spare, last, set, states, valued, watch, id
<1>7. t \in Memory
  BY ONLY s \in Memory, <1>2, <1>3, <1>5, <1>6 DEF Memory
<1>8. /\ t.heap = s.heap /\ t.all = s.all /\ t.tasks = s.tasks /\ t.state = states
      /\ t.value = valued /\ t.watch = watch /\ t.set = set /\ t.sets = sets /\ t.cache = spare /\ t.last = last
  BY ONLY s \in Memory, <1>6 DEF Memory
<1> QED
  BY <1>7, <1>8 DEF LeftParts, sets, spare, last, set, states, valued, watch, id

\* Who leaves a set that others use leaves it as it is for them; the last one
\* leaves it to the cache.
LEMMA LeaveNoticed ==
  ASSUME NEW s, NEW r, Noticing(s, r), NEW o \in Observer, H!IsOpen(s, o),
         NEW status \in {"closed", "resetting"}, NEW t, t = LeftTo(s, o, status)
  PROVE  Noticing(t, r) /\ ~H!IsOpen(t, o)
<1> DEFINE id == s.set[o]
           was == s.sets[id]
           rest == Rest(s, o)
<1>1. s \in Memory /\ Linked(s) /\ Going(s, r)
  BY DEF Noticing
<1>2. id \in DOMAIN s.sets /\ id # 0
  BY <1>1 DEF Linked
<1>3. /\ t \in Memory
      /\ t.heap = s.heap /\ t.all = s.all /\ t.tasks = s.tasks
      /\ t.state = [s.state EXCEPT ![o] = status]
      /\ t.value = [s.value EXCEPT ![o] = << >>]
      /\ t.watch = [s.watch EXCEPT ![o] = << >>]
      /\ t.set = [s.set EXCEPT ![o] = 0]
      /\ t.sets = [s.sets EXCEPT ![id] = rest]
      /\ t.cache = IF More(s, o) THEN s.cache ELSE Append(s.cache, id)
      /\ t.last = IF More(s, o) \/ s.last # id THEN s.last ELSE 0
  <2>1. status \in States /\ s \in Memory /\ s.set[o] \in DOMAIN s.sets
    BY <1>1, <1>2 DEF States
  <2>2. LeftParts(s, o, status, t)
    BY <2>1, LeftIs
  <2> QED
    BY <2>2 DEF LeftParts
<1>4. /\ rest \in ObservedSet
      /\ More(s, o) => /\ rest.root = was.root /\ rest.props = was.props
                       /\ rest.objects = was.objects /\ rest.observers = was.observers
                       /\ rest.count = was.count - 1 /\ rest.queue = was.queue
      /\ ~More(s, o) => rest.count = 0
  BY <1>1, <1>2, RestIs
<1>5. DOMAIN s.sets = 1..Len(s.sets) /\ Len(s.sets) \in Nat /\ DOMAIN t.sets = DOMAIN s.sets
  BY <1>1, <1>3, SetsParts
<1>6. t.sets[id] = rest /\ \A i \in DOMAIN s.sets \ {id} : t.sets[i] = s.sets[i]
  BY <1>2, <1>3
<1>7. t.set[o] = 0 /\ \A p \in Observer \ {o} : t.set[p] = s.set[p]
  BY <1>1, <1>3 DEF Memory
<1>8. ~H!IsOpen(t, o) /\ \A p \in Observer \ {o} : H!IsOpen(t, p) <=> H!IsOpen(s, p)
  BY <1>1, <1>3 DEF H!IsOpen, Memory
<1>9. Users(t, id) = Users(s, id) \ {o} /\ \A j \in DOMAIN s.sets \ {id} : Users(t, j) = Users(s, j)
  BY <1>2, <1>5, <1>7 DEF Users
<1>10. o \in Users(s, id) /\ IsFiniteSet(Users(s, id)) /\ was.count = Cardinality(Users(s, id))
  BY <1>1, <1>2 DEF Users, Linked
<1>11. IsFiniteSet(Users(t, id)) /\ Cardinality(Users(t, id)) = was.count - 1 /\ Cardinality(Users(t, id)) \in Nat
  BY <1>9, <1>10, FS_RemoveElement, FS_CardinalityType
<1>12. ~More(s, o) => Users(t, id) = {} /\ rest.count = Cardinality(Users(t, id))
  <2>1. ~More(s, o) => Cardinality(Users(t, id)) = 0
    <3>1. More(s, o) <=> was.count - 1 > 0
      BY DEF More
    <3> DEFINE n == Cardinality(Users(t, id))
               c == was.count - 1
    <3>2. n = c /\ n \in Nat /\ (More(s, o) <=> c > 0)
      BY <1>11, <3>1
    <3> HIDE DEF n, c
    <3>3. ~More(s, o) => n = 0
      BY <3>2
    <3> QED
      BY <3>3 DEF n
  <2> QED
    BY <1>4, <1>11, <2>1, FS_EmptySet
<1> HIDE DEF id, was, rest
<1>13. \A p \in Observer : H!IsOpen(t, p) => p # o /\ (s.set[p] = id => More(s, o))
  BY <1>7, <1>8, <1>12 DEF Users
<1>14. Linked(t)
  <2>1. \A p \in Observer : H!IsOpen(t, p) <=> t.set[p] # 0
    BY <1>1, <1>7, <1>8 DEF Linked
  <2>2. ASSUME NEW p \in Observer, H!IsOpen(t, p)
        PROVE  /\ t.set[p] \in DOMAIN t.sets
               /\ \E i \in DOMAIN t.sets[t.set[p]].observers : t.sets[t.set[p]].observers[i] = p
    <3>1. /\ p # o /\ H!IsOpen(s, p) /\ t.set[p] = s.set[p] /\ s.set[p] \in DOMAIN s.sets
          /\ \E i \in DOMAIN s.sets[s.set[p]].observers : s.sets[s.set[p]].observers[i] = p
      BY <1>1, <1>7, <1>8, <1>13, <2>2 DEF Linked
    <3>2. t.sets[s.set[p]].observers = s.sets[s.set[p]].observers
      <4>1. CASE s.set[p] = id
        BY <1>4, <1>6, <1>13, <2>2, <4>1 DEF was
      <4>2. CASE s.set[p] # id
        BY <1>6, <3>1, <4>2
      <4> QED
        BY <4>1, <4>2
    <3> QED
      BY <1>5, <3>1, <3>2
  <2>3. ASSUME NEW j \in DOMAIN t.sets
        PROVE  IsFiniteSet(Users(t, j)) /\ t.sets[j].count = Cardinality(Users(t, j))
    <3>1. CASE j = id
      BY <1>4, <1>6, <1>11, <1>12, <3>1
    <3>2. CASE j # id
      BY <1>1, <1>5, <1>6, <1>9, <3>2 DEF Linked
    <3> QED
      BY <3>1, <3>2
  <2>4. t.last \in DOMAIN t.sets \cup {0}
    BY <1>1, <1>3, <1>5 DEF Linked
  <2>5. s.cache \in Seq(Nat)
    BY <1>1 DEF Memory
  <2>6. ASSUME NEW k \in DOMAIN s.cache
        PROVE  /\ s.cache[k] \in DOMAIN t.sets /\ s.cache[k] # t.last /\ Users(t, s.cache[k]) = {} /\ s.cache[k] # id
    <3>1. s.cache[k] \in DOMAIN s.sets /\ s.cache[k] # s.last /\ Users(s, s.cache[k]) = {}
      BY <1>1 DEF Linked
    <3>2. s.cache[k] # id /\ s.cache[k] # 0
      BY <1>5, <1>10, <3>1
    <3> QED
      BY <1>3, <1>5, <1>9, <3>1, <3>2
  <2>7. CASE More(s, o)
    <3>1. t.cache = s.cache
      BY <1>3, <2>7
    <3>2. \A j, k \in DOMAIN t.cache : t.cache[j] = t.cache[k] => j = k
      BY <1>1, <3>1 DEF Linked
    <3> QED
      BY <2>1, <2>2, <2>3, <2>4, <2>6, <3>1, <3>2 DEF Linked
  <2>8. CASE ~More(s, o)
    <3>1. t.cache = Append(s.cache, id) /\ id \in Nat
      BY <1>2, <1>3, <1>5, <2>8
    <3>2. /\ DOMAIN t.cache = 1..(Len(s.cache) + 1) /\ Len(s.cache) \in Nat /\ DOMAIN s.cache = 1..Len(s.cache)
          /\ \A k \in 1..Len(s.cache) : t.cache[k] = s.cache[k]
          /\ t.cache[Len(s.cache) + 1] = id
      BY <2>5, <3>1, AppendProperties, LenProperties
    <3>3. id \in DOMAIN t.sets /\ id # t.last /\ Users(t, id) = {}
      BY <1>2, <1>3, <1>5, <1>12, <2>8
    <3>4. ASSUME NEW k \in DOMAIN t.cache
          PROVE  t.cache[k] \in DOMAIN t.sets /\ t.cache[k] # t.last /\ Users(t, t.cache[k]) = {}
      <4>1. CASE k \in 1..Len(s.cache)
        BY <2>6, <3>2, <4>1
      <4>2. CASE k = Len(s.cache) + 1
        BY <3>2, <3>3, <4>2
      <4> QED
        BY <3>2, <4>1, <4>2
    <3>5. ASSUME NEW j \in DOMAIN t.cache, NEW k \in DOMAIN t.cache, t.cache[j] = t.cache[k]
          PROVE  j = k
      <4>1. \A i, l \in 1..Len(s.cache) : s.cache[i] = s.cache[l] => i = l
        BY <1>1, <3>2 DEF Linked
      <4>2. \A i \in 1..Len(s.cache) : s.cache[i] # id
        BY <2>6, <3>2
      <4> QED
        BY <3>2, <3>5, <4>1, <4>2
    <3> QED
      BY <2>1, <2>2, <2>3, <2>4, <3>4, <3>5 DEF Linked
  <2> QED
    BY <2>7, <2>8
<1>15. Going(t, r)
  BY <1>1, <1>5 DEF Going
<1>16. ASSUME NEW p \in Observer, H!IsOpen(t, p)
       PROVE  Kept(t, r, p)
  <2>1. p # o /\ H!IsOpen(s, p) /\ t.set[p] = s.set[p] /\ s.set[p] \in DOMAIN s.sets
    BY <1>1, <1>7, <1>8, <1>13, <1>16 DEF Linked
  <2>2. t.watch[p] = s.watch[p] /\ t.value[p] = s.value[p] /\ t.heap = s.heap
    BY <1>1, <1>3, <2>1 DEF Memory
  <2> DEFINE old == s.sets[s.set[p]]
             new == t.sets[s.set[p]]
  <2>3. /\ new.root = old.root /\ new.props = old.props /\ new.objects = old.objects
        /\ new.observers = old.observers /\ new.queue = old.queue
    <3>1. CASE s.set[p] = id
      BY <1>4, <1>6, <1>13, <1>16, <3>1 DEF was
    <3>2. CASE s.set[p] # id
      BY <1>6, <2>1, <3>2
    <3> QED
      BY <3>1, <3>2
  <2> HIDE DEF old, new
  <2>4. Noticed(old) => Noticed(new)
    BY <2>3 DEF Noticed
  <2>5. Covers(old, H!OnPaths(s.heap, s.watch[p])) => Covers(new, H!OnPaths(t.heap, t.watch[p]))
    BY <2>2, <2>3 DEF Covers
  <2>6. H!Changed(t, p) <=> H!Changed(s, p)
    BY <2>2 DEF H!Changed
  <2>7. Pending(s, r, p) => Pending(t, r, p)
    BY <2>1, <2>3 DEF Pending, old, new
  <2>8. Kept(s, r, p)
    BY <2>1 DEF Noticing
  <2> QED
    BY <2>1, <2>4, <2>5, <2>6, <2>7, <2>8 DEF Kept, old, new
<1> QED
  BY <1>3, <1>8, <1>14, <1>15, <1>16 DEF Noticing

-----------------------------------------------------------------------------
(* An observer joins a set.                                                *)

\* The set an observer gets, and what it makes of it.
Fits(s, w) == s.last # 0 /\ s.sets[s.last].root = w[1].object
Chosen(s, w) == IF Fits(s, w) THEN s.last ELSE IF s.cache # << >> THEN H!Last(s.cache) ELSE Len(s.sets) + 1
Found(s, w) == CASE Fits(s, w) -> s.sets[Chosen(s, w)]
                 [] ~Fits(s, w) /\ s.cache # << >> -> [s.sets[Chosen(s, w)] EXCEPT !.root = w[1].object, !.props = {}]
                 [] OTHER -> H!NewSet(w[1].object)
Joined(s, w, o) == H!Observe([Found(s, w) EXCEPT !.observers = Append(@, o), !.count = @ + 1], H!OnPaths(s.heap, w))
CacheLeft(s, w) == IF Fits(s, w) \/ s.cache = << >> THEN s.cache ELSE H!Front(s.cache)
SetsWith(s, w, o) == IF Chosen(s, w) > Len(s.sets) THEN Append(s.sets, Joined(s, w, o))
                     ELSE [s.sets EXCEPT ![Chosen(s, w)] = Joined(s, w, o)]

\* What an observer may watch is from an object.
LEMMA WatchIs ==
  ASSUME H!PathAssumption, NEW w \in Watches
  PROVE  w \in WatchList /\ w[1].object \in Obj
<1>1. w \in Seq([object : Obj, path : Seq(Name)]) /\ w # << >>
  BY DEF H!PathAssumption
<1>2. w \in WatchList
  BY <1>1 DEF WatchList
<1>3. 1 \in DOMAIN w
  BY <1>1, EmptySeq, LenProperties
<1> QED
  BY <1>2, <1>3, WatchParts

\* The last one, one nobody uses, or a new one.
LEMMA ChosenIs ==
  ASSUME NEW s \in Memory, Linked(s), NEW w, NEW id, id = Chosen(s, w), NEW spare, spare = CacheLeft(s, w)
  PROVE  /\ id \in 1..(Len(s.sets) + 1) /\ IsFiniteSet(Users(s, id))
         /\ Fits(s, w) => id \in DOMAIN s.sets
         /\ ~Fits(s, w) => Users(s, id) = {}
         /\ s.cache # << >> => id \in DOMAIN s.sets
         /\ spare \in Seq(Nat)
         /\ \A k \in DOMAIN spare : k \in DOMAIN s.cache /\ spare[k] = s.cache[k] /\ spare[k] # id
<1>1. DOMAIN s.sets = 1..Len(s.sets) /\ Len(s.sets) \in Nat
  BY SetsParts
<1>2. s.cache \in Seq(Nat)
  BY DEF Memory
<1>3. DOMAIN s.cache = 1..Len(s.cache) /\ Len(s.cache) \in Nat
  BY <1>2, LenProperties
<1>4. \A k \in DOMAIN s.cache : s.cache[k] \in DOMAIN s.sets /\ s.cache[k] # s.last /\ Users(s, s.cache[k]) = {}
  BY DEF Linked
<1>5. CASE Fits(s, w)
  <2>1. id = s.last /\ s.last # 0 /\ spare = s.cache
    BY <1>5 DEF Fits, Chosen, CacheLeft
  <2>2. id \in DOMAIN s.sets
    BY <2>1 DEF Linked
  <2>3. IsFiniteSet(Users(s, id))
    BY <2>2 DEF Linked
  <2> QED
    BY <1>1, <1>2, <1>4, <1>5, <2>1, <2>2, <2>3
<1>6. CASE ~Fits(s, w) /\ s.cache # << >>
  <2>1. Len(s.cache) \in DOMAIN s.cache
    BY <1>2, <1>3, <1>6, EmptySeq
  <2>2. id = s.cache[Len(s.cache)]
    BY <1>6 DEF Chosen, H!Last
  <2>3. spare = [i \in 1..(Len(s.cache) - 1) |-> s.cache[i]]
    BY <1>2, <1>3, <1>6 DEF CacheLeft, H!Front, SubSeq
  <2>4. id \in DOMAIN s.sets /\ Users(s, id) = {}
    BY <1>4, <2>1, <2>2
  <2>5. IsFiniteSet(Users(s, id))
    BY <2>4 DEF Linked
  <2>6. ASSUME NEW k \in DOMAIN spare
        PROVE  k \in DOMAIN s.cache /\ spare[k] = s.cache[k] /\ spare[k] # id
    <3>1. k \in DOMAIN s.cache /\ spare[k] = s.cache[k] /\ k # Len(s.cache)
      BY <1>3, <2>3
    <3> QED
      BY <2>1, <2>2, <3>1 DEF Linked
  <2>7. spare \in [1..(Len(s.cache) - 1) -> Nat]
    BY <1>2, <1>3, <2>3, ElementOfSeq
  <2>8. Len(s.cache) - 1 \in Nat
    BY <1>3, <2>1
  <2>9. spare \in Seq(Nat)
    BY <2>7, <2>8, SeqDef
  <2> QED
    BY <1>1, <1>6, <2>4, <2>5, <2>6, <2>9
<1>7. CASE ~Fits(s, w) /\ s.cache = << >>
  <2>1. id = Len(s.sets) + 1 /\ spare = << >>
    BY <1>7 DEF Chosen, CacheLeft
  <2>2. \A p \in Observer : s.set[p] # id
    BY <1>1, <2>1 DEF Linked
  <2>3. Users(s, id) = {}
    BY <2>2 DEF Users
  <2>4. IsFiniteSet(Users(s, id))
    BY <2>3, FS_EmptySet
  <2> QED
    BY <1>1, <1>7, <2>1, <2>3, <2>4
<1> QED
  BY <1>5, <1>6, <1>7

\* It is a set with the users that it had.
LEMMA FoundIs ==
  ASSUME H!PathAssumption, NEW s \in Memory, Linked(s), NEW w \in Watches
  PROVE  /\ Found(s, w) \in ObservedSet /\ Found(s, w).count = Cardinality(Users(s, Chosen(s, w)))
         /\ Fits(s, w) => Found(s, w) = s.sets[Chosen(s, w)]
<1> DEFINE id == Chosen(s, w)
           spare == CacheLeft(s, w)
           root == w[1].object
<1>1. /\ Fits(s, w) => id \in DOMAIN s.sets
      /\ ~Fits(s, w) => Users(s, id) = {}
      /\ s.cache # << >> => id \in DOMAIN s.sets
  <2>1. id = Chosen(s, w) /\ spare = CacheLeft(s, w)
    OBVIOUS
  <2> HIDE DEF id, spare
  <2> QED
    BY <2>1, ChosenIs
<1>2. root \in Held
  BY WatchIs DEF Held
<1> HIDE DEF root
<1>3. \A i \in DOMAIN s.sets : s.sets[i] \in ObservedSet
  BY SetsParts
<1>4. CASE Fits(s, w)
  BY <1>1, <1>3, <1>4 DEF Found, Linked
<1>5. CASE ~Fits(s, w) /\ s.cache # << >>
  <2>1. Found(s, w) = [s.sets[id] EXCEPT !.root = root, !.props = {}]
    BY <1>5 DEF Found, root
  <2>2. s.sets[id] \in ObservedSet /\ s.sets[id].count = Cardinality(Users(s, id))
    BY <1>1, <1>3, <1>5 DEF Linked
  <2> DEFINE set == s.sets[id]
             found == Found(s, w)
  <2>3. set \in ObservedSet /\ found = [set EXCEPT !.root = root, !.props = {}]
    BY <2>1, <2>2
  <2> HIDE DEF set, found
  <2>4. found \in ObservedSet /\ found.count = set.count
    BY ONLY <1>2, <2>3 DEF ObservedSet
  <2> QED
    BY <1>5, <2>2, <2>4 DEF set, found
<1>6. CASE ~Fits(s, w) /\ s.cache = << >>
  <2>1. Found(s, w) = H!NewSet(root)
    BY <1>6 DEF Found, root
  <2>2. Found(s, w) \in ObservedSet /\ Found(s, w).count = 0
    BY <1>2, <2>1 DEF H!NewSet, ObservedSet
  <2>3. Cardinality(Users(s, id)) = 0
    BY <1>1, <1>6, FS_EmptySet
  <2> QED
    BY <1>6, <2>2, <2>3
<1> QED
  BY <1>4, <1>5, <1>6

\* Joined, it has one user more and sees the paths of that one.
LEMMA JoinedIs ==
  ASSUME H!PathAssumption, NEW s \in Memory, Linked(s), NEW w \in Watches, NEW o \in Observer,
         NEW found, found = Found(s, w), NEW joined, joined = Joined(s, w, o)
  PROVE  /\ joined \in ObservedSet /\ joined.root = found.root /\ joined.queue = found.queue
         /\ joined.observers = Append(found.observers, o) /\ joined.count = found.count + 1
         /\ found.props \subseteq joined.props /\ found.objects \subseteq joined.objects
         /\ Covers(joined, H!OnPaths(s.heap, w))
<1> DEFINE pairs == H!OnPaths(s.heap, w)
           objects == found.objects \cup {e[1] : e \in pairs}
           props == found.props \cup {e[2] : e \in {f \in pairs : f[1] = found.root}}
           observers == Append(found.observers, o)
           count == found.count + 1
<1>1. found \in ObservedSet
  BY FoundIs
<1>2. pairs \subseteq Obj \X Name
  <2>1. w \in WatchList /\ s.heap \in Heap
    BY WatchIs DEF Memory
  <2> QED
    BY <2>1, OnPathsType
<1>3. /\ found.root \in Held /\ found.props \subseteq Name /\ found.objects \subseteq Obj
      /\ found.observers \in Seq(Observer) /\ found.count \in Int
  BY <1>1 DEF ObservedSet
<1>4. joined = [found EXCEPT !.observers = observers, !.count = count, !.objects = objects, !.props = props]
  <2> DEFINE u == [found EXCEPT !.observers = observers, !.count = count]
  <2>1. joined = H!Observe(u, pairs)
    BY DEF Joined
  <2>2. /\ u \in [root : Held, props : SUBSET Name, objects : SUBSET Obj, observers : Seq(Observer),
                  count : Int, queue : SUBSET Asked]
        /\ u.root = found.root /\ u.props = found.props /\ u.objects = found.objects
    <3>1. observers \in Seq(Observer) /\ count \in Int
      BY <1>3
    <3> HIDE DEF observers, count
    <3> QED
      BY ONLY <1>1, <3>1 DEF ObservedSet
  <2>3. joined = [u EXCEPT !.objects = objects, !.props = props]
    <3> HIDE DEF u, pairs
    <3> QED
      BY <2>1, <2>2 DEF H!Observe
  <2> HIDE DEF pairs, objects, props, observers, count
  <2> QED
    BY ONLY <1>1, <2>3 DEF ObservedSet, u
<1>5. objects \subseteq Obj /\ props \subseteq Name
  BY <1>2, <1>3
<1>6. observers \in Seq(Observer) /\ count \in Int
  BY <1>3
<1>7. \A e \in pairs : e[1] \in objects /\ (e[1] = found.root => e[2] \in props)
  OBVIOUS
<1>8. found.props \subseteq props /\ found.objects \subseteq objects
  OBVIOUS
<1> HIDE DEF pairs, objects, props, observers, count
<1>9. joined \in ObservedSet
  BY ONLY <1>1, <1>4, <1>5, <1>6 DEF ObservedSet
<1>10. /\ joined.root = found.root /\ joined.queue = found.queue /\ joined.observers = observers
       /\ joined.count = count /\ joined.props = props /\ joined.objects = objects
  BY ONLY <1>1, <1>4 DEF ObservedSet
<1>11. Covers(joined, pairs)
  BY <1>7, <1>10 DEF Covers
<1> QED
  BY <1>8, <1>9, <1>10, <1>11 DEF pairs, observers, count

\* Opening and resetting an observer.
Added(s, o, w) == [s EXCEPT !.watch[o] = w, !.state[o] = "opened"]
JoinsTo(s, o, w) == [H!Connect(Added(s, o, w), o) EXCEPT !.value[o] = H!Values(s.heap, w)]

\* The memory t is s after the observer o has joined a set.
JoinParts(s, o, w, t) ==
  /\ t \in Memory
  /\ t.heap = s.heap /\ t.all = s.all /\ t.tasks = s.tasks
  /\ t.state = [s.state EXCEPT ![o] = "opened"]
  /\ t.value = [s.value EXCEPT ![o] = H!Values(s.heap, w)]
  /\ t.watch = [s.watch EXCEPT ![o] = w]
  /\ t.set = [s.set EXCEPT ![o] = Chosen(s, w)]
  /\ t.sets = SetsWith(s, w, o)
  /\ t.cache = CacheLeft(s, w)
  /\ t.last = Chosen(s, w)

\* That is what opening and resetting do.
LEMMA JoinIs ==
  ASSUME H!PathAssumption, NEW s \in Memory, Linked(s), NEW o \in Observer, NEW w \in Watches,
         NEW t, t = JoinsTo(s, o, w)
  PROVE  JoinParts(s, o, w, t)
<1> DEFINE id == Chosen(s, w)
           sets == SetsWith(s, w, o)
           spare == CacheLeft(s, w)
           set == [s.set EXCEPT ![o] = id]
           states == [s.state EXCEPT ![o] = "opened"]
           valued == [s.value EXCEPT ![o] = H!Values(s.heap, w)]
           watch == [s.watch EXCEPT ![o] = w]
           a == Added(s, o, w)
<1>1. id \in 1..(Len(s.sets) + 1) /\ spare \in Seq(Nat)
  <2>1. id = Chosen(s, w) /\ spare = CacheLeft(s, w)
    OBVIOUS
  <2> HIDE DEF id, spare
  <2> QED
    BY <2>1, ChosenIs
<1>2. Joined(s, w, o) \in ObservedSet
  BY JoinedIs
<1>3. DOMAIN s.sets = 1..Len(s.sets) /\ Len(s.sets) \in Nat /\ s.sets \in Seq(ObservedSet)
  BY SetsParts DEF Memory
<1>4. sets \in Seq(ObservedSet)
  <2>1. CASE id > Len(s.sets)
    <3>1. sets = Append(s.sets, Joined(s, w, o))
      BY <2>1 DEF SetsWith
    <3> QED
      BY <1>2, <1>3, <3>1, AppendProperties
  <2>2. CASE ~(id > Len(s.sets))
    <3>1. sets = [s.sets EXCEPT ![id] = Joined(s, w, o)]
      BY <2>2 DEF SetsWith
    <3>2. sets \in [1..Len(s.sets) -> ObservedSet]
      BY <1>2, <1>3, <3>1, SetsParts
    <3> QED
      BY <1>3, <3>2, SeqDef
  <2> QED
    BY <2>1, <2>2
<1>5. w \in WatchList /\ H!Values(s.heap, w) \in Seq(Held)
  <2>1. w \in WatchList /\ s.heap \in Heap
    BY WatchIs DEF Memory
  <2> QED
    BY <2>1, ValuesType
<1>6. /\ states \in [Observer -> States] /\ valued \in [Observer -> Seq(Held)] /\ watch \in [Observer -> WatchList]
      /\ set \in [Observer -> Nat] /\ id \in Nat
  <2>1. id \in Nat
    BY <1>1, <1>3
  <2> HIDE DEF id
  <2> QED
    BY <1>5, <2>1 DEF Memory, States
<1>7. a = [s EXCEPT !.watch = watch, !.state = states] /\ a.watch[o] = w
  BY DEF Added, Memory
<1>8. /\ a.sets = s.sets /\ a.cache = s.cache /\ a.last = s.last /\ a.heap = s.heap /\ a.set = s.set
      /\ a.all = s.all /\ a.tasks = s.tasks /\ a.value = s.value /\ a.state = states /\ a.watch = watch
  BY <1>7 DEF Memory
<1>9. H!Connect(a, o) = [a EXCEPT !.sets = sets, !.cache = spare, !.last = id, !.set[o] = id]
  <2> HIDE DEF a
  <2>1. H!Connect(a, o) = [a EXCEPT !.sets = SetsWith(a, a.watch[o], o), !.cache = CacheLeft(a, a.watch[o]),
                                    !.last = Chosen(a, a.watch[o]), !.set[o] = Chosen(a, a.watch[o])]
    BY DEF H!Connect, SetsWith, CacheLeft, Chosen, Found, Joined, Fits
  <2>2. Fits(a, w) <=> Fits(s, w)
    BY <1>8 DEF Fits
  <2>3. Chosen(a, w) = Chosen(s, w) /\ CacheLeft(a, w) = CacheLeft(s, w)
    BY <1>8, <2>2 DEF Chosen, CacheLeft
  <2>4. Found(a, w) = Found(s, w)
    BY <1>8, <2>2, <2>3 DEF Found
  <2>5. Joined(a, w, o) = Joined(s, w, o)
    BY <1>8, <2>4 DEF Joined
  <2>6. SetsWith(a, w, o) = SetsWith(s, w, o)
    BY <1>8, <2>3, <2>5 DEF SetsWith
  <2> QED
    BY <1>7, <2>1, <2>3, <2>6
<1>10. t = [s EXCEPT !.sets = sets, !.cache = spare, !.last = id, !.set = set, !.state = states,
                     !.value = valued, !.watch = watch]
  <2>1. t = [H!Connect(a, o) EXCEPT !.value[o] = H!Values(s.heap, w)]
    BY DEF JoinsTo
  <2> DEFINE v == H!Values(s.heap, w)
  <2> HIDE DEF a, sets, spare, id, states, watch, v
  <2>2. t = [[a EXCEPT !.sets = sets, !.cache = spare, !.last = id, !.set[o] = id] EXCEPT !.value[o] = v]
    BY <1>9, <2>1 DEF v
  <2>3. a = [s EXCEPT !.watch = watch, !.state = states]
    BY <1>7
  <2>4. valued = [s.value EXCEPT ![o] = v]
    BY DEF v
  <2> HIDE DEF valued
  <2> QED
    BY ONLY s \in Memory, <2>2, <2>3, <2>4 DEF Memory
<1> HIDE DEF id, sets, spare, set, states, valued, watch
<1>11. t \in Memory
  BY ONLY s \in Memory, <1>1, <1>4, <1>6, <1>10 DEF Memory
<1>12. /\ t.heap = s.heap /\ t.all = s.all /\ t.tasks = s.tasks /\ t.state = states /\ t.value = valued
       /\ t.watch = watch /\ t.set = set /\ t.sets = sets /\ t.cache = spare /\ t.last = id
  BY ONLY s \in Memory, <1>10 DEF Memory
<1> QED
  BY <1>11, <1>12 DEF JoinParts, id, sets, spare, set, states, valued, watch

\* Who joins a set has what it watches observed, and takes nothing from the
\* others of the set.
LEMMA JoinNoticed ==
  ASSUME H!PathAssumption, NEW s, NEW r, Noticing(s, r), NEW o \in Observer, ~H!IsOpen(s, o),
         NEW w \in Watches, NEW t, t = JoinsTo(s, o, w)
  PROVE  Noticing(t, r)
<1> DEFINE id == Chosen(s, w)
           found == Found(s, w)
           joined == Joined(s, w, o)
           spare == CacheLeft(s, w)
<1>1. s \in Memory /\ Linked(s) /\ Going(s, r)
  BY DEF Noticing
<1>2. JoinParts(s, o, w, t)
  BY <1>1, JoinIs
<1>3. /\ t \in Memory
      /\ t.heap = s.heap /\ t.state = [s.state EXCEPT ![o] = "opened"]
      /\ t.value = [s.value EXCEPT ![o] = H!Values(s.heap, w)] /\ t.watch = [s.watch EXCEPT ![o] = w]
      /\ t.set = [s.set EXCEPT ![o] = id] /\ t.cache = spare /\ t.last = id
      /\ t.sets = IF id > Len(s.sets) THEN Append(s.sets, joined) ELSE [s.sets EXCEPT ![id] = joined]
  BY <1>2 DEF JoinParts, SetsWith
<1>4. id = Chosen(s, w) /\ found = Found(s, w) /\ joined = Joined(s, w, o) /\ spare = CacheLeft(s, w)
  OBVIOUS
<1> HIDE DEF id, found, joined, spare
<1>5. /\ id \in 1..(Len(s.sets) + 1) /\ IsFiniteSet(Users(s, id))
      /\ Fits(s, w) => id \in DOMAIN s.sets
      /\ ~Fits(s, w) => Users(s, id) = {}
      /\ spare \in Seq(Nat)
      /\ \A k \in DOMAIN spare : k \in DOMAIN s.cache /\ spare[k] = s.cache[k] /\ spare[k] # id
  BY <1>1, <1>4, ChosenIs
<1>6. /\ found \in ObservedSet /\ found.count = Cardinality(Users(s, id))
      /\ Fits(s, w) => found = s.sets[id]
  BY <1>1, <1>4, FoundIs
<1>7. /\ joined \in ObservedSet /\ joined.root = found.root /\ joined.queue = found.queue
      /\ joined.observers = Append(found.observers, o) /\ joined.count = found.count + 1
      /\ found.props \subseteq joined.props /\ found.objects \subseteq joined.objects
      /\ Covers(joined, H!OnPaths(s.heap, w))
  BY <1>1, <1>4, JoinedIs
<1>8. DOMAIN s.sets = 1..Len(s.sets) /\ Len(s.sets) \in Nat /\ s.sets \in Seq(ObservedSet)
  BY <1>1, SetsParts DEF Memory
<1>9. DOMAIN t.sets = DOMAIN s.sets \cup {id} /\ t.sets[id] = joined /\ \A i \in DOMAIN s.sets \ {id} : t.sets[i] = s.sets[i]
  <2>1. CASE id > Len(s.sets)
    <3>1. t.sets = Append(s.sets, joined) /\ id = Len(s.sets) + 1
      <4>1. id = Len(s.sets) + 1
        BY <1>5, <1>8, <2>1
      <4>2. t.sets = Append(s.sets, joined)
        BY <1>3, <2>1
      <4> QED
        BY <4>1, <4>2
    <3>2. /\ Len(t.sets) = Len(s.sets) + 1 /\ t.sets \in Seq(ObservedSet)
          /\ t.sets[Len(s.sets) + 1] = joined /\ \A i \in 1..Len(s.sets) : t.sets[i] = s.sets[i]
      BY <1>7, <1>8, <3>1, AppendProperties
    <3>3. DOMAIN t.sets = 1..(Len(s.sets) + 1) /\ 1..(Len(s.sets) + 1) = 1..Len(s.sets) \cup {Len(s.sets) + 1}
      BY <1>8, <3>2, LenProperties
    <3> QED
      BY <1>8, <3>1, <3>2, <3>3
  <2>2. CASE ~(id > Len(s.sets))
    <3>1. t.sets = [s.sets EXCEPT ![id] = joined] /\ id \in DOMAIN s.sets
      BY <1>3, <1>5, <1>8, <2>2
    <3> QED
      BY <3>1
  <2> QED
    BY <2>1, <2>2
<1>10. s.set[o] = 0 /\ t.set[o] = id /\ id # 0 /\ \A p \in Observer \ {o} : t.set[p] = s.set[p]
  BY <1>1, <1>3, <1>5 DEF Memory, Linked
<1>11. H!IsOpen(t, o) /\ \A p \in Observer \ {o} : H!IsOpen(t, p) <=> H!IsOpen(s, p)
  BY <1>1, <1>3 DEF H!IsOpen, Memory
<1>12. Users(t, id) = Users(s, id) \cup {o} /\ o \notin Users(s, id)
       /\ \A j \in DOMAIN s.sets \ {id} : Users(t, j) = Users(s, j)
  BY <1>5, <1>8, <1>10 DEF Users
<1>13. IsFiniteSet(Users(t, id)) /\ joined.count = Cardinality(Users(t, id))
  BY <1>5, <1>6, <1>7, <1>12, FS_AddElement
<1>14. \E i \in DOMAIN joined.observers : joined.observers[i] = o
  <2>1. found.observers \in Seq(Observer)
    BY <1>6 DEF ObservedSet
  <2>2. joined.observers = Append(found.observers, o)
    BY <1>7
  <2>3. joined.observers[Len(found.observers) + 1] = o /\ Len(joined.observers) = Len(found.observers) + 1
        /\ joined.observers \in Seq(Observer)
    BY <2>1, <2>2, AppendProperties
  <2>4. DOMAIN joined.observers = 1..(Len(found.observers) + 1) /\ Len(found.observers) \in Nat
    BY <2>1, <2>3, LenProperties
  <2> QED
    BY <2>3, <2>4
<1>15. ASSUME NEW i \in DOMAIN found.observers
       PROVE  i \in DOMAIN joined.observers /\ joined.observers[i] = found.observers[i]
  <2>1. found.observers \in Seq(Observer)
    BY <1>6 DEF ObservedSet
  <2>2. joined.observers = Append(found.observers, o)
    BY <1>7
  <2>3. \A k \in 1..Len(found.observers) : joined.observers[k] = found.observers[k]
    BY <2>1, <2>2, AppendProperties
  <2>4. Len(joined.observers) = Len(found.observers) + 1 /\ joined.observers \in Seq(Observer)
    BY <2>1, <2>2, AppendProperties
  <2>5. DOMAIN joined.observers = 1..(Len(found.observers) + 1) /\ DOMAIN found.observers = 1..Len(found.observers)
        /\ Len(found.observers) \in Nat
    BY <2>1, <2>4, LenProperties
  <2> QED
    BY <2>3, <2>5
\* The others of the set chosen were in the set found.
<1>16. ASSUME NEW p \in Observer, p # o, H!IsOpen(t, p), s.set[p] = id
       PROVE  found = s.sets[id] /\ id \in DOMAIN s.sets
  <2>1. p \in Users(s, id)
    BY <1>16 DEF Users
  <2> QED
    BY <1>5, <1>6, <2>1
<1>17. \A p \in Observer : H!IsOpen(t, p) <=> t.set[p] # 0
  BY <1>1, <1>10, <1>11 DEF Linked
<1>18. ASSUME NEW p \in Observer, H!IsOpen(t, p)
       PROVE  /\ t.set[p] \in DOMAIN t.sets
              /\ \E i \in DOMAIN t.sets[t.set[p]].observers : t.sets[t.set[p]].observers[i] = p
  <2>1. CASE p = o
    BY <1>9, <1>10, <1>14, <2>1
  <2>2. CASE p # o
    <3>1. /\ H!IsOpen(s, p) /\ t.set[p] = s.set[p] /\ s.set[p] \in DOMAIN s.sets
      BY <1>1, <1>10, <1>11, <1>18, <2>2 DEF Linked
    <3>2. PICK i \in DOMAIN s.sets[s.set[p]].observers : s.sets[s.set[p]].observers[i] = p
      BY <1>1, <3>1 DEF Linked
    <3>3. CASE s.set[p] = id
      <4>1. found = s.sets[id]
        BY <1>16, <1>18, <2>2, <3>3
      <4>2. i \in DOMAIN joined.observers /\ joined.observers[i] = p
        BY <1>15, <3>2, <3>3, <4>1
      <4> QED
        BY <1>9, <3>1, <3>3, <4>2
    <3>4. CASE s.set[p] # id
      BY <1>9, <3>1, <3>2, <3>4
    <3> QED
      BY <3>3, <3>4
  <2> QED
    BY <2>1, <2>2
<1>19. ASSUME NEW j \in DOMAIN t.sets
       PROVE  IsFiniteSet(Users(t, j)) /\ t.sets[j].count = Cardinality(Users(t, j))
  <2>1. CASE j = id
    BY <1>9, <1>13, <2>1
  <2>2. CASE j # id
    BY <1>1, <1>9, <1>12, <2>2 DEF Linked
  <2> QED
    BY <2>1, <2>2
<1>20. t.last \in DOMAIN t.sets \cup {0}
  BY <1>3, <1>9
<1>21. ASSUME NEW k \in DOMAIN t.cache
       PROVE  t.cache[k] \in DOMAIN t.sets /\ t.cache[k] # t.last /\ Users(t, t.cache[k]) = {}
  <2>1. k \in DOMAIN s.cache /\ t.cache[k] = s.cache[k] /\ t.cache[k] # id
    BY <1>3, <1>5
  <2>2. s.cache[k] \in DOMAIN s.sets /\ Users(s, s.cache[k]) = {}
    BY <1>1, <2>1 DEF Linked
  <2> QED
    BY <1>3, <1>9, <1>12, <2>1, <2>2
<1>22. ASSUME NEW j \in DOMAIN t.cache, NEW k \in DOMAIN t.cache, t.cache[j] = t.cache[k]
       PROVE  j = k
  <2>1. j \in DOMAIN s.cache /\ k \in DOMAIN s.cache /\ s.cache[j] = s.cache[k]
    BY <1>3, <1>5, <1>22
  <2> QED
    BY <1>1, <2>1 DEF Linked
<1>23. Linked(t)
  BY <1>17, <1>18, <1>19, <1>20, <1>21, <1>22 DEF Linked
<1>24. Going(t, r)
  BY <1>1, <1>9 DEF Going
<1>25. ASSUME NEW p \in Observer, H!IsOpen(t, p)
       PROVE  Kept(t, r, p)
  <2>1. CASE p = o
    <3>1. t.watch[p] = w /\ t.value[p] = H!Values(s.heap, w) /\ t.heap = s.heap
      BY <1>1, <1>3, <2>1 DEF Memory
    <3>2. ~H!Changed(t, p)
      BY <3>1 DEF H!Changed
    <3>3. Covers(t.sets[t.set[p]], H!OnPaths(t.heap, t.watch[p]))
      BY <1>7, <1>9, <1>10, <2>1, <3>1
    <3> QED
      BY <3>2, <3>3 DEF Kept
  <2>2. CASE p # o
    <3>1. H!IsOpen(s, p) /\ t.set[p] = s.set[p] /\ s.set[p] \in DOMAIN s.sets
      BY <1>1, <1>10, <1>11, <1>25, <2>2 DEF Linked
    <3>2. t.watch[p] = s.watch[p] /\ t.value[p] = s.value[p] /\ t.heap = s.heap
      BY <1>1, <1>3, <2>2 DEF Memory
    <3> DEFINE old == s.sets[s.set[p]]
               new == t.sets[s.set[p]]
    <3>3. /\ new.root = old.root /\ old.props \subseteq new.props /\ old.objects \subseteq new.objects
          /\ new.queue = old.queue
          /\ \A i \in DOMAIN old.observers : i \in DOMAIN new.observers /\ new.observers[i] = old.observers[i]
      <4>1. CASE s.set[p] = id
        <5>1. old = found /\ new = joined
          BY <1>9, <1>16, <1>25, <2>2, <4>1
        <5> HIDE DEF old, new
        <5> QED
          BY <1>7, <1>15, <5>1
      <4>2. CASE s.set[p] # id
        BY <1>9, <3>1, <4>2
      <4> QED
        BY <4>1, <4>2
    <3> HIDE DEF old, new
    <3>4. Noticed(old) => Noticed(new)
      BY <3>3 DEF Noticed
    <3>5. CASE Noticed(old)
      BY <3>1, <3>4, <3>5 DEF Kept, new
    <3>6. CASE ~Noticed(old)
      <4>1. Covers(old, H!OnPaths(s.heap, s.watch[p])) /\ (H!Changed(s, p) => Pending(s, r, p))
        BY <3>1, <3>6 DEF Noticing, Kept, old
      <4>2. H!Changed(t, p) <=> H!Changed(s, p)
        BY <3>2 DEF H!Changed
      <4>3. Pending(s, r, p) => Pending(t, r, p)
        BY <3>1, <3>3 DEF Pending, old, new
      <4> DEFINE pairs == H!OnPaths(s.heap, s.watch[p])
      <4>4. Covers(old, pairs)
        BY <4>1
      <4> HIDE DEF pairs
      <4>5. CASE Covers(new, pairs)
        <5>1. Covers(new, H!OnPaths(t.heap, t.watch[p]))
          BY <3>2, <4>5 DEF pairs
        <5> QED
          BY <3>1, <4>1, <4>2, <4>3, <5>1 DEF Kept, new
      <4>6. Covers(new, pairs)
        BY <3>3, <4>4 DEF Covers
      <4> QED
        BY <4>5, <4>6
    <3> QED
      BY <3>5, <3>6
  <2> QED
    BY <2>1, <2>2
<1> QED
  BY <1>3, <1>23, <1>24, <1>25 DEF Noticing

-----------------------------------------------------------------------------
(* What the program does, by itself or called back.                        *)

\* The way a record of the memory is written does not matter.
LEMMA OpenJoins ==
  ASSUME hasObserve, NEW s \in Memory, NEW o \in Observer, NEW w
  PROVE  H!OpenObserver(s, o, w) = JoinsTo(s, o, w)
<1>1. [s EXCEPT !.watch[o] = w, !.state[o] = "opened", !.all = IF hasObserve THEN s.all ELSE Append(s.all, o)]
        = Added(s, o, w)
  BY DEF Memory, Added
<1> QED
  BY <1>1 DEF H!OpenObserver, JoinsTo

\* Whatever the program does, an observer that is stale has a record.
LEMMA OutcomeNoticed ==
  ASSUME H!PathAssumption, hasObserve, NEW s, NEW r, Noticing(s, r), NEW q \in H!Outcomes(s)
  PROVE  Noticing(q.memory, r)
<1>1. s \in Memory
  BY DEF Noticing
<1>2. ASSUME NEW x \in Obj, NEW n \in Name, NEW v \in Obj \cup {Nil}, q = H!Result(H!Write(s, x, n, v), 1)
      PROVE  Noticing(q.memory, r)
  <2>1. q.memory = H!Write(s, x, n, v) /\ v \in Held
    BY <1>2 DEF H!Result, Held
  <2>2. Noticing(H!Write(s, x, n, v), r)
    BY <2>1, WriteNoticed
  <2> QED
    BY <2>1, <2>2
<1>3. ASSUME NEW o \in Observer, s.state[o] = "unopened", NEW w \in Watches, q = H!Result(H!OpenObserver(s, o, w), 0)
      PROVE  Noticing(q.memory, r)
  <2> DEFINE t == JoinsTo(s, o, w)
  <2>1. q.memory = t
    BY <1>1, <1>3, OpenJoins DEF H!Result
  <2>2. ~H!IsOpen(s, o) /\ t = JoinsTo(s, o, w)
    BY <1>3 DEF H!IsOpen
  <2> HIDE DEF t
  <2>3. Noticing(t, r)
    BY <2>2, JoinNoticed
  <2> QED
    BY <2>1, <2>3
<1>4. ASSUME NEW o \in Observer, H!IsOpen(s, o), q = H!Result(H!CloseObserver(s, o), 0)
      PROVE  Noticing(q.memory, r)
  <2> DEFINE t == LeftTo(s, o, "closed")
  <2>1. q.memory = t /\ t = LeftTo(s, o, "closed")
    BY <1>4 DEF H!Result, H!CloseObserver, LeftTo
  <2> HIDE DEF t
  <2>2. Noticing(t, r)
    BY <1>4, <2>1, LeaveNoticed
  <2> QED
    BY <2>1, <2>2
<1>5. ASSUME NEW o \in Observer, H!IsOpen(s, o), NEW t, t = H!StartReset(s, o)
      PROVE  Noticing(t, r) /\ ~H!IsOpen(t, o) /\ t \in Memory
  <2>1. t = LeftTo(s, o, "resetting")
    BY <1>5 DEF H!StartReset, LeftTo
  <2>2. Noticing(t, r) /\ ~H!IsOpen(t, o)
    BY <1>5, <2>1, LeaveNoticed
  <2> QED
    BY <2>2 DEF Noticing
<1>6. ASSUME NEW t, Noticing(t, r), NEW o \in Observer, ~H!IsOpen(t, o), NEW w \in Watches
      PROVE  Noticing(H!FinishReset(t, o, w), r)
  <2> DEFINE u == JoinsTo(t, o, w)
  <2>1. H!FinishReset(t, o, w) = u /\ u = JoinsTo(t, o, w)
    BY DEF H!FinishReset, JoinsTo, Added
  <2> HIDE DEF u
  <2>2. Noticing(u, r)
    BY <1>6, <2>1, JoinNoticed
  <2> QED
    BY <2>1, <2>2
<1>7. ASSUME NEW o \in Observer, H!IsOpen(s, o), q = H!Result(H!StartReset(s, o), 1)
      PROVE  Noticing(q.memory, r)
  BY <1>5, <1>7 DEF H!Result
<1>8. ASSUME NEW o \in Observer, s.state[o] = "resetting", NEW w \in Watches, q = H!Result(H!FinishReset(s, o, w), 0)
      PROVE  Noticing(q.memory, r)
  <2>1. ~H!IsOpen(s, o)
    BY <1>8 DEF H!IsOpen
  <2> QED
    BY <1>6, <1>8, <2>1 DEF H!Result
<1>9. ASSUME NEW o \in Observer, H!IsOpen(s, o), NEW w \in Watches,
             q = H!Result(H!FinishReset(H!StartReset(s, o), o, w), 1)
      PROVE  Noticing(q.memory, r)
  <2> DEFINE t == H!StartReset(s, o)
  <2>1. t = H!StartReset(s, o)
    OBVIOUS
  <2>2. q.memory = H!FinishReset(t, o, w)
    BY <1>9 DEF H!Result
  <2> HIDE DEF t
  <2>3. Noticing(t, r) /\ ~H!IsOpen(t, o)
    BY <1>5, <1>9, <2>1
  <2> QED
    BY <1>6, <2>2, <2>3
<1>10. \/ \E x \in Obj, n \in Name, v \in Obj \cup {Nil} : q = H!Result(H!Write(s, x, n, v), 1)
       \/ \E o \in Observer, w \in Watches : s.state[o] = "unopened" /\ q = H!Result(H!OpenObserver(s, o, w), 0)
       \/ \E o \in Observer : H!IsOpen(s, o) /\ q = H!Result(H!CloseObserver(s, o), 0)
       \/ \E o \in Observer : H!IsOpen(s, o) /\ q = H!Result(H!StartReset(s, o), 1)
       \/ \E o \in Observer, w \in Watches : s.state[o] = "resetting" /\ q = H!Result(H!FinishReset(s, o, w), 0)
       \/ \E o \in Observer, w \in Watches :
            H!IsOpen(s, o) /\ q = H!Result(H!FinishReset(H!StartReset(s, o), o, w), 1)
  BY DEF H!Outcomes
<1> QED
  BY <1>2, <1>3, <1>4, <1>7, <1>8, <1>9, <1>10

\* So is it whatever a callback does after a check.
LEMMA CallbackNoticed ==
  ASSUME H!PathAssumption, hasObserve, NEW s, NEW r, Noticing(s, r), NEW o, NEW q \in H!Callback(o, s)
  PROVE  Noticing(q.memory, r)
<1>1. q = H!Result(s, 0) \/ q \in H!Outcomes(s)
  BY DEF H!Callback
<1>2. CASE q = H!Result(s, 0)
  BY <1>2 DEF H!Result
<1>3. CASE q \in H!Outcomes(s)
  BY <1>3, OutcomeNoticed
<1> QED
  BY <1>1, <1>2, <1>3

\* Only the loop of a callback gives an observer its turn.
LEMMA NoTurn ==
  ASSUME NEW s, NEW r, NEW q, Noticing(s, r), r.kind # "callback", q.kind # "callback"
  PROVE  Noticing(s, q)
<1>1. Going(s, q)
  BY DEF Going
<1>2. ASSUME NEW o \in Observer, H!IsOpen(s, o) PROVE Kept(s, q, o)
  <2>1. Kept(s, r, o) /\ ~Pending(s, r, o)
    BY <1>2 DEF Noticing, Pending
  <2> QED
    BY <2>1 DEF Kept
<1> QED
  BY <1>1, <1>2 DEF Noticing

\* Another set in the place of a set.
SetIs(s, id, new) == [s EXCEPT !.sets[id] = new]

\* The new set has the users of the old one.
LEMMA SetReplaced ==
  ASSUME NEW s \in Memory, Linked(s), NEW id \in DOMAIN s.sets, NEW new \in ObservedSet,
         new.observers = s.sets[id].observers, new.count = s.sets[id].count, NEW t, t = SetIs(s, id, new)
  PROVE  /\ t \in Memory /\ Linked(t)
         /\ t.heap = s.heap /\ t.state = s.state /\ t.watch = s.watch /\ t.value = s.value /\ t.set = s.set
         /\ DOMAIN t.sets = DOMAIN s.sets /\ t.sets[id] = new /\ \A i \in DOMAIN s.sets \ {id} : t.sets[i] = s.sets[i]
<1> DEFINE sets == [s.sets EXCEPT ![id] = new]
<1>1. sets \in Seq(ObservedSet)
  <2>1. sets \in [1..Len(s.sets) -> ObservedSet] /\ Len(s.sets) \in Nat
    <3>1. DOMAIN s.sets = 1..Len(s.sets) /\ Len(s.sets) \in Nat /\ s.sets \in Seq(ObservedSet)
      BY SetsParts DEF Memory
    <3>2. s.sets \in [1..Len(s.sets) -> ObservedSet]
      BY <3>1, ElementOfSeq
    <3> QED
      BY <3>1, <3>2
  <2> HIDE DEF sets
  <2> QED
    BY <2>1, SeqDef
<1>2. t = [s EXCEPT !.sets = sets]
  BY DEF Memory, SetIs
<1>3. /\ DOMAIN sets = DOMAIN s.sets /\ sets[id] = new /\ \A i \in DOMAIN s.sets \ {id} : sets[i] = s.sets[i]
  OBVIOUS
<1> HIDE DEF sets
<1>4. t \in Memory
  BY ONLY s \in Memory, <1>1, <1>2 DEF Memory
<1>5. /\ t.heap = s.heap /\ t.state = s.state /\ t.watch = s.watch /\ t.value = s.value /\ t.set = s.set
      /\ t.sets = sets /\ t.cache = s.cache /\ t.last = s.last
  BY ONLY s \in Memory, <1>2 DEF Memory
<1>6. Linked(t)
  BY <1>3, <1>5, LinkedStill
<1> QED
  BY <1>3, <1>4, <1>5, <1>6

-----------------------------------------------------------------------------
(* The callbacks of Object.observe.                                        *)

\* The loops.
Kinds == {"idle", "dirtyCheck", "callback", "checkpoint"}
Loop == [kind : Kinds, list : Seq(Observer), set : Nat, at : Nat, any : BOOLEAN, cycles : Nat]
LoopIs(r) == r \in Loop /\ r.kind # "checkpoint" /\ (r.kind = "dirtyCheck" => r.list[1] \in Observer)

\* The inductive invariant, with the loop that runs.
StaleInv == hasObserve => Noticing(memory, run) /\ LoopIs(run)

\* What a set ignores is not noticed.
LEMMA IgnorableIs ==
  ASSUME NEW set, NEW records, records = set.queue
  PROVE  H!Ignorable(set, records) <=> ~Noticed(set)
BY DEF H!Ignorable, Noticed

\* The memory begins without observers.
LEMMA StartsTyped ==
  ASSUME H!Init PROVE memory \in Memory
<1>1. memory = [heap |-> [x \in Obj |-> [n \in Name |-> Nil]],
                state |-> [o \in Observer |-> "unopened"], watch |-> [o \in Observer |-> << >>],
                value |-> [o \in Observer |-> << >>], set |-> [o \in Observer |-> 0],
                sets |-> << >>, cache |-> << >>, last |-> 0, all |-> << >>, tasks |-> 0]
      /\ run = [kind |-> "idle", list |-> << >>, set |-> 0, at |-> 0, any |-> FALSE, cycles |-> 0]
  BY DEF H!Init, H!Idle
<1>2. << >> \in WatchList /\ << >> \in Seq(Held) /\ << >> \in Seq(ObservedSet) /\ << >> \in Seq(Nat) /\ << >> \in Seq(Observer)
  BY DEF WatchList
<1>3. [x \in Obj |-> [n \in Name |-> Nil]] \in Heap
  BY DEF Heap, Held
<1> HIDE DEF WatchList
<1> QED
  BY ONLY <1>1, <1>2, <1>3 DEF Memory, States

\* So nothing is stale at first.
LEMMA StaleInit ==
  ASSUME H!Init PROVE StaleInv
<1>1. /\ memory.set = [o \in Observer |-> 0] /\ memory.state = [o \in Observer |-> "unopened"]
      /\ memory.sets = << >> /\ memory.cache = << >> /\ memory.last = 0
      /\ run = [kind |-> "idle", list |-> << >>, set |-> 0, at |-> 0, any |-> FALSE, cycles |-> 0]
  BY DEF H!Init, H!Idle
<1>2. memory \in Memory
  BY StartsTyped
<1>3. \A o \in Observer : ~H!IsOpen(memory, o)
  BY <1>1 DEF H!IsOpen
<1>4. Linked(memory)
  <2>1. \A o \in Observer : memory.set[o] = 0
    BY <1>1
  <2>2. memory.sets = << >> /\ memory.cache = << >> /\ memory.last = 0
    BY <1>1
  <2>3. DOMAIN memory.sets = {} /\ DOMAIN memory.cache = {}
    BY <2>2
  <2> QED
    BY <1>3, <2>1, <2>2, <2>3 DEF Linked
<1>5. LoopIs(run) /\ run.kind = "idle"
  BY <1>1 DEF LoopIs, Loop, Kinds
<1> QED
  BY <1>2, <1>3, <1>4, <1>5 DEF StaleInv, Noticing, Going

\* The callback of a set gives every observer of the set its turn.
LEMMA CallbackStarts ==
  ASSUME H!PathAssumption, hasObserve, Noticing(memory, run), NEW id \in DOMAIN memory.sets, H!StartCallback(id)
  PROVE  Noticing(memory', run') /\ LoopIs(run')
<1> DEFINE s == memory
           was == s.sets[id]
           set == [was EXCEPT !.queue = {}]
           observers == {p \in H!ToSet(set.observers) : H!IsOpen(s, p)}
           pairs == UNION {H!OnPaths(s.heap, s.watch[o]) : o \in observers}
           seen == H!Observe(set, pairs)
<1>1. s \in Memory /\ Linked(s) /\ was \in ObservedSet /\ run.kind = "idle" /\ run = H!Idle
  BY SetsParts DEF Noticing, H!StartCallback, H!Idle
<1>2. \A o \in Observer : ~Pending(s, run, o)
  BY <1>1 DEF Pending
<1>3. /\ set \in ObservedSet /\ set.root = was.root /\ set.props = was.props /\ set.objects = was.objects
      /\ set.observers = was.observers /\ set.count = was.count
  <2> HIDE DEF was
  <2>1. {} \in SUBSET Asked
    OBVIOUS
  <2> QED
    BY ONLY <1>1, <2>1 DEF ObservedSet, set
<1>4. H!Ignorable(set, was.queue) <=> ~Noticed(was)
  BY <1>3 DEF H!Ignorable, Noticed
<1>5. CASE H!Ignorable(set, was.queue)
  <2>1. memory' = SetIs(s, id, set) /\ run' = run
    BY <1>5 DEF H!StartCallback, SetIs
  <2> DEFINE t == memory'
  <2> HIDE DEF set, was
  <2>2. /\ t \in Memory /\ Linked(t)
        /\ t.heap = s.heap /\ t.state = s.state /\ t.watch = s.watch /\ t.value = s.value /\ t.set = s.set
        /\ DOMAIN t.sets = DOMAIN s.sets /\ t.sets[id] = set /\ \A i \in DOMAIN s.sets \ {id} : t.sets[i] = s.sets[i]
    BY <1>1, <1>3, <2>1, SetReplaced DEF was
  <2> HIDE DEF t
  <2>3. ASSUME NEW p \in Observer, H!IsOpen(t, p) PROVE Kept(t, run, p)
    <3>1. H!IsOpen(s, p) /\ s.set[p] \in DOMAIN s.sets
      BY <1>1, <2>2, <2>3 DEF Linked, H!IsOpen
    <3>2. Kept(s, run, p) /\ ~Pending(s, run, p)
      BY <1>2, <3>1 DEF Noticing
    <3>3. H!Changed(t, p) <=> H!Changed(s, p)
      BY <2>2 DEF H!Changed
    <3>4. CASE s.set[p] = id
      <4>1. ~Noticed(was) /\ was = s.sets[s.set[p]]
        BY <1>4, <1>5, <3>4 DEF was
      <4>2. Covers(was, H!OnPaths(s.heap, s.watch[p])) /\ ~H!Changed(s, p)
        BY <3>2, <4>1 DEF Kept
      <4>3. Covers(set, H!OnPaths(s.heap, s.watch[p]))
        BY <1>3, <4>2 DEF Covers
      <4> QED
        BY <2>2, <3>3, <3>4, <4>2, <4>3 DEF Kept
    <3>5. CASE s.set[p] # id
      BY <2>2, <3>1, <3>2, <3>3, <3>5 DEF Kept
    <3> QED
      BY <3>4, <3>5
  <2>4. Going(t, run)
    BY <1>1 DEF Going
  <2>5. LoopIs(run)
    BY <1>1 DEF LoopIs, Loop, Kinds, H!Idle
  <2> QED
    BY <2>1, <2>2, <2>3, <2>4, <2>5 DEF Noticing, t
<1>6. CASE ~H!Ignorable(set, was.queue)
  <2>1. memory' = SetIs(s, id, seen) /\ run' = [H!Idle EXCEPT !.kind = "callback", !.set = id, !.at = 1]
    BY <1>6 DEF H!StartCallback, SetIs
  <2> DEFINE t == memory'
  <2>2. observers \subseteq Observer
    <3>1. set.observers \in Seq(Observer)
      BY <1>3 DEF ObservedSet
    <3>2. DOMAIN set.observers = 1..Len(set.observers)
      BY <3>1, LenProperties
    <3> HIDE DEF set
    <3> QED
      BY <3>1, <3>2, ElementOfSeq DEF H!ToSet
  <2>3. pairs \subseteq Obj \X Name
    <3>1. ASSUME NEW o \in observers PROVE H!OnPaths(s.heap, s.watch[o]) \subseteq Obj \X Name
      <4>1. s.heap \in Heap /\ s.watch[o] \in WatchList
        BY <1>1, <2>2 DEF Memory
      <4> QED
        BY <4>1, OnPathsType
    <3> HIDE DEF observers
    <3> QED
      BY <3>1
  <2> DEFINE objects == set.objects \cup {e[1] : e \in pairs}
             props == set.props \cup {e[2] : e \in {f \in pairs : f[1] = set.root}}
  <2>4. seen = [set EXCEPT !.objects = objects, !.props = props]
    BY DEF H!Observe
  <2>5. objects \subseteq Obj /\ props \subseteq Name
    <3>1. set.objects \subseteq Obj /\ set.props \subseteq Name
      BY <1>3 DEF ObservedSet
    <3> HIDE DEF set, pairs
    <3> QED
      BY <2>3, <3>1
  <2>6. \A e \in pairs : e[1] \in objects /\ (e[1] = set.root => e[2] \in props)
    OBVIOUS
  <2> HIDE DEF set, was, pairs, objects, props, seen
  <2>7. /\ seen \in ObservedSet /\ seen.root = set.root /\ seen.observers = set.observers
        /\ seen.count = set.count /\ seen.objects = objects /\ seen.props = props
    <3>1. seen \in ObservedSet
      BY ONLY <1>3, <2>4, <2>5 DEF ObservedSet
    <3> QED
      BY ONLY <1>3, <2>4, <3>1 DEF ObservedSet
  <2>8. /\ t \in Memory /\ Linked(t)
        /\ t.heap = s.heap /\ t.state = s.state /\ t.watch = s.watch /\ t.value = s.value /\ t.set = s.set
        /\ DOMAIN t.sets = DOMAIN s.sets /\ t.sets[id] = seen /\ \A i \in DOMAIN s.sets \ {id} : t.sets[i] = s.sets[i]
    BY <1>1, <1>3, <2>1, <2>7, SetReplaced DEF was
  <2>9. run'.kind = "callback" /\ run'.set = id /\ run'.at = 1
    BY <2>1 DEF H!Idle
  <2>10. SUFFICES /\ \A p \in Observer : H!IsOpen(t, p) => Kept(t, run', p)
                  /\ Going(t, run') /\ LoopIs(run')
    BY <2>8 DEF Noticing
  <2> HIDE DEF t
  <2>11. Going(t, run')
    BY <2>8, <2>9 DEF Going
  <2>12. LoopIs(run')
    <3>1. id \in Nat
      BY <1>1, SetsParts
    <3>2. run' = [kind |-> "callback", list |-> << >>, set |-> id, at |-> 1, any |-> FALSE, cycles |-> 0]
      BY <2>1 DEF H!Idle
    <3>3. << >> \in Seq(Observer)
      OBVIOUS
    <3>4. run' \in Loop
      BY ONLY <3>1, <3>2, <3>3 DEF Loop, Kinds
    <3> QED
      BY <2>9, <3>4 DEF LoopIs
  <2>13. ASSUME NEW p \in Observer, H!IsOpen(t, p) PROVE Kept(t, run', p)
    <3>1. H!IsOpen(s, p) /\ s.set[p] \in DOMAIN s.sets
      BY <1>1, <2>8, <2>13 DEF Linked, H!IsOpen
    <3>2. Kept(s, run, p) /\ ~Pending(s, run, p)
      BY <1>2, <3>1 DEF Noticing
    <3>3. H!Changed(t, p) <=> H!Changed(s, p)
      BY <2>8 DEF H!Changed
    <3>4. CASE s.set[p] = id
      <4>1. PICK i \in DOMAIN was.observers : was.observers[i] = p
        BY <1>1, <3>1, <3>4 DEF Linked, was
      <4>2. p \in observers
        BY <1>3, <3>1, <4>1 DEF H!ToSet
      <4>3. Covers(seen, H!OnPaths(s.heap, s.watch[p]))
        <5>1. H!OnPaths(s.heap, s.watch[p]) \subseteq pairs
          BY <4>2 DEF pairs
        <5> QED
          BY <2>6, <2>7, <5>1 DEF Covers
      <4>4. Pending(t, run', p)
        <5>1. i \in DOMAIN t.sets[id].observers /\ t.sets[id].observers[i] = p
          BY <1>3, <2>7, <2>8, <4>1
        <5>2. 1 <= i
          <6>1. was.observers \in Seq(Observer)
            BY <1>1 DEF ObservedSet
          <6> QED
            BY <4>1, <6>1, LenProperties
        <5> QED
          BY <2>8, <2>9, <3>4, <5>1, <5>2 DEF Pending
      <4> QED
        BY <2>8, <3>4, <4>3, <4>4 DEF Kept
    <3>5. CASE s.set[p] # id
      BY <2>8, <3>1, <3>2, <3>3, <3>5 DEF Kept
    <3> QED
      BY <3>4, <3>5
  <2> QED
    BY <2>11, <2>12, <2>13
<1> QED
  BY <1>5, <1>6

\* An observer that has its turn is checked.
LEMMA CallbackSteps ==
  ASSUME H!PathAssumption, hasObserve, Noticing(memory, run), LoopIs(run), H!StepCallback
  PROVE  Noticing(memory', run') /\ LoopIs(run')
<1> DEFINE s == memory
           list == s.sets[run.set].observers
           o == list[run.at]
           next == [run EXCEPT !.at = @ + 1]
<1>1. /\ run.kind = "callback" /\ run.set \in DOMAIN s.sets /\ run.at \in Nat \ {0} /\ run \in Loop
      /\ s \in Memory /\ Linked(s)
  BY DEF H!StepCallback, Noticing, Going, LoopIs
<1>2. list \in Seq(Observer)
  BY <1>1, SetsParts DEF ObservedSet
<1>3. DOMAIN list = 1..Len(list) /\ Len(list) \in Nat
  BY <1>2, LenProperties
<1>4. CASE run.at > Len(list)
  <2>1. run' = H!Idle /\ memory' = s
    BY <1>1, <1>3, <1>4 DEF H!StepCallback
  <2>2. ASSUME NEW p \in Observer, H!IsOpen(s, p) PROVE Kept(s, run', p)
    <3>1. ~Pending(s, run, p)
      BY <1>1, <1>3, <1>4 DEF Pending
    <3>2. Kept(s, run, p)
      BY <2>2 DEF Noticing
    <3> QED
      BY <3>1, <3>2 DEF Kept
  <2>3. Going(s, run') /\ LoopIs(run')
    BY <2>1 DEF Going, LoopIs, Loop, Kinds, H!Idle
  <2> QED
    BY <1>1, <2>1, <2>2, <2>3 DEF Noticing
<1>5. CASE run.at <= Len(list)
  <2>1. run' = next
    BY <1>1, <1>3, <1>5 DEF H!StepCallback
  <2>2. next \in Loop /\ next.kind = "callback" /\ next.set = run.set /\ next.at = run.at + 1
    BY <1>1 DEF Loop
  <2>3. o \in Observer
    BY <1>1, <1>2, <1>3, <1>5, ElementOfSeq
  <2> HIDE DEF next
  <2>4. LoopIs(run')
    BY <2>1, <2>2 DEF LoopIs
  \* Whoever is not up to date after o is still to come.
  <2>5. ASSUME NEW t, t \in Memory, Linked(t), t.sets = s.sets, t.set = s.set, ~(H!IsOpen(t, o) /\ H!Changed(t, o)),
               \A p \in Observer : H!IsOpen(t, p) => Kept(t, run, p)
        PROVE  Noticing(t, next)
    <3>1. Going(t, next)
      BY <1>1, <2>2, <2>5 DEF Going
    <3>2. ASSUME NEW p \in Observer, H!IsOpen(t, p), H!Changed(t, p), Pending(t, run, p)
          PROVE  Pending(t, next, p)
      <4>1. PICK i \in DOMAIN list : run.at <= i /\ list[i] = p
        BY <2>5, <3>2 DEF Pending
      <4>2. i # run.at
        BY <2>5, <3>2, <4>1
      <4>3. next.at <= i
        BY <1>1, <1>3, <2>2, <4>1, <4>2
      <4>4. next.set = t.set[p] /\ t.sets[next.set].observers = list
        BY <2>2, <2>5, <3>2 DEF Pending
      <4> QED
        BY <2>2, <4>1, <4>3, <4>4 DEF Pending
    <3>3. \A p \in Observer : H!IsOpen(t, p) => Kept(t, next, p)
      BY <2>5, <3>2 DEF Kept
    <3> QED
      BY <2>5, <3>1, <3>3 DEF Noticing
  <2>6. CASE H!IsOpen(s, o) /\ H!Changed(s, o)
    <3> DEFINE t == H!Check(s, o)
    <3>1. PICK r \in H!Callback(o, t) : memory' = r.memory
      BY <1>1, <1>3, <1>5, <2>6 DEF H!StepCallback, H!Take
    <3>2. t = H!Check(s, o) /\ Noticing(t, run) /\ ~H!Changed(t, o)
      BY <2>3, CheckNoticed
    <3>3. t.sets = s.sets /\ t.set = s.set
      BY <1>1 DEF H!Check, Memory
    <3> HIDE DEF t
    <3>4. Noticing(t, next)
      <4>1. t \in Memory /\ Linked(t) /\ \A p \in Observer : H!IsOpen(t, p) => Kept(t, run, p)
        BY <3>2 DEF Noticing
      <4> QED
        BY <2>5, <3>2, <3>3, <4>1
    <3>5. Noticing(r.memory, next)
      BY <3>1, <3>4, CallbackNoticed
    <3> QED
      BY <2>1, <2>4, <3>1, <3>5
  <2>7. CASE ~(H!IsOpen(s, o) /\ H!Changed(s, o))
    <3>1. memory' = s
      BY <1>1, <1>3, <1>5, <2>7 DEF H!StepCallback
    <3>2. \A p \in Observer : H!IsOpen(s, p) => Kept(s, run, p)
      BY DEF Noticing
    <3>3. Noticing(s, next)
      BY <1>1, <2>5, <2>7, <3>2
    <3> QED
      BY <2>1, <2>4, <3>1, <3>3
  <2> QED
    BY <2>6, <2>7
<1> QED
  BY <1>1, <1>3, <1>4, <1>5

\* The engine stays what it is.
LEMMA SameEngine ==
  ASSUME [H!Next]_(H!vars) PROVE hasObserve' = hasObserve
<1>1. CASE H!Program \/ (\E o \in Observer : H!Deliver(o)) \/ H!DirtyCheck
  BY <1>1 DEF H!Program, H!Deliver, H!DirtyCheck
<1>2. CASE (\E id \in DOMAIN memory.sets : H!StartCallback(id)) \/ H!StepCallback
  BY <1>2 DEF H!StartCallback, H!StepCallback
<1>3. CASE H!StartCheckpoint \/ H!StepCheckpoint \/ H!RunTask \/ H!EndCycle
  BY <1>3 DEF H!StartCheckpoint, H!StepCheckpoint, H!RunTask, H!EndCycle
<1>4. CASE UNCHANGED H!vars
  BY <1>4 DEF H!vars
<1> QED
  BY <1>1, <1>2, <1>3, <1>4 DEF H!Next

\* Every step keeps the invariant.
LEMMA StaleStep ==
  ASSUME H!PathAssumption, StaleInv, [H!Next]_(H!vars) PROVE StaleInv'
<1> SUFFICES ASSUME hasObserve' PROVE Noticing(memory', run') /\ LoopIs(run')
  BY DEF StaleInv
<1>1. hasObserve /\ Noticing(memory, run) /\ LoopIs(run)
  BY SameEngine DEF StaleInv
<1>2. CASE H!Program
  <2>1. PICK r \in H!Outcomes(memory) : memory' = r.memory
    BY <1>2 DEF H!Program, H!Take
  <2>2. run' = run
    BY <1>2 DEF H!Program
  <2>3. Noticing(r.memory, run)
    BY <1>1, OutcomeNoticed
  <2> QED
    BY <1>1, <2>1, <2>2, <2>3
<1>3. ASSUME NEW o \in Observer, H!Deliver(o) PROVE Noticing(memory', run') /\ LoopIs(run')
  <2>1. memory' = memory /\ run' = [H!Idle EXCEPT !.kind = "dirtyCheck", !.list = <<o>>] /\ run.kind = "idle"
    BY <1>3 DEF H!Deliver, H!Idle
  <2>2. run' = [kind |-> "dirtyCheck", list |-> <<o>>, set |-> 0, at |-> 0, any |-> FALSE, cycles |-> 0]
    BY <2>1 DEF H!Idle
  <2>3. <<o>> \in Seq(Observer)
    OBVIOUS
  <2>4. run' \in Loop
    BY ONLY <2>2, <2>3 DEF Loop, Kinds
  <2>5. run'.kind = "dirtyCheck" /\ run'.list[1] = o
    BY <2>2
  <2>6. Noticing(memory, run')
    BY <1>1, <2>1, <2>5, NoTurn
  <2> QED
    BY <2>1, <2>4, <2>5, <2>6 DEF LoopIs
<1>4. CASE H!DirtyCheck
  <2> DEFINE o == run.list[1]
             t == H!Check(memory, o)
  <2>1. run.kind = "dirtyCheck" /\ o \in Observer /\ run \in Loop
    BY <1>1, <1>4 DEF H!DirtyCheck, LoopIs
  <2>2. CASE run.cycles < MaxCycles /\ H!Changed(memory, o)
    <3>1. PICK r \in H!Callback(o, t) : memory' = r.memory
      BY <1>4, <2>2 DEF H!DirtyCheck, H!Take
    <3>2. run' = [run EXCEPT !.cycles = run.cycles + 1]
      BY <1>4, <2>2 DEF H!DirtyCheck
    <3>3. run'.kind = "dirtyCheck" /\ run'.list = run.list /\ run' \in Loop
      BY ONLY <2>1, <3>2 DEF Loop
    <3>4. Noticing(t, run)
      BY <1>1, <2>1, CheckNoticed
    <3>5. Noticing(r.memory, run)
      <4> HIDE DEF t
      <4> QED
        BY <1>1, <3>1, <3>4, CallbackNoticed
    <3>6. Noticing(r.memory, run')
      BY <2>1, <3>3, <3>5, NoTurn
    <3> QED
      BY <2>1, <3>1, <3>3, <3>6 DEF LoopIs
  <2>3. CASE ~(run.cycles < MaxCycles /\ H!Changed(memory, o))
    <3>1. run' = H!Idle /\ memory' = memory
      BY <1>4, <2>3 DEF H!DirtyCheck
    <3>2. run'.kind = "idle" /\ LoopIs(run')
      BY <3>1 DEF H!Idle, LoopIs, Loop, Kinds
    <3>3. Noticing(memory, run')
      BY <1>1, <2>1, <3>2, NoTurn
    <3> QED
      BY <3>1, <3>2, <3>3
  <2> QED
    BY <2>2, <2>3
<1>5. ASSUME NEW id \in DOMAIN memory.sets, H!StartCallback(id) PROVE Noticing(memory', run') /\ LoopIs(run')
  BY <1>1, <1>5, CallbackStarts
<1>6. CASE H!StepCallback
  BY <1>1, <1>6, CallbackSteps
<1>7. CASE H!StartCheckpoint \/ H!StepCheckpoint \/ H!RunTask \/ H!EndCycle
  BY <1>1, <1>7 DEF H!StartCheckpoint, H!StepCheckpoint, H!RunTask, H!EndCycle, LoopIs
<1>8. CASE UNCHANGED H!vars
  BY <1>1, <1>8 DEF H!vars
<1> QED
  BY <1>2, <1>3, <1>4, <1>5, <1>6, <1>7, <1>8 DEF H!Next

\* Between the loops nobody waits for a turn: who is stale is noticed.
LEMMA StaleIs ==
  ASSUME StaleInv PROVE H!StaleIsNoticed
<1> SUFFICES ASSUME hasObserve, run = H!Idle, NEW o \in Observer, H!Stale(o)
             PROVE  /\ memory.sets[memory.set[o]].queue # {}
                    /\ ~H!Ignorable(memory.sets[memory.set[o]], memory.sets[memory.set[o]].queue)
  BY DEF H!StaleIsNoticed
<1>1. Noticing(memory, run) /\ H!IsOpen(memory, o) /\ H!Changed(memory, o) /\ run.kind = "idle"
  BY DEF StaleInv, H!Stale, H!Idle
<1>2. Noticed(memory.sets[memory.set[o]])
  BY <1>1 DEF Noticing, Kept, Pending
<1> QED
  BY <1>2 DEF Noticed, H!Ignorable

\* In the scene of the paths nothing else moves.
LEMMA PathStep ==
  ASSUME [Next]_clientVars, scene = "path" PROVE [H!Next]_(H!vars)
  BY DEF Next, OthersKept, clientVars, pathVars, H!vars

\* With Object.observe, an observer that has an old value has a record on its way
\* that its set does not ignore, for any number of objects, names, observers and
\* paths (the observed sets of index.js:219-318).
THEOREM StaleObserversAreNoticed == Spec => []StaleIsNoticed
<1> DEFINE Inv == scene = "path" => StaleInv
<1> USE ClientAssumption
<1>1. Init => Inv
  BY StaleInit DEF Init
<1>2. Inv /\ [Next]_clientVars => Inv'
  <2> SUFFICES ASSUME Inv, [Next]_clientVars PROVE Inv'
    OBVIOUS
  <2>1. scene' = scene
    BY DEF Next, clientVars
  <2>2. ASSUME scene = "path" PROVE [H!Next]_(H!vars)
    BY <2>2, PathStep
  <2> QED
    BY <2>1, <2>2, StaleStep
<1>3. Inv => StaleIsNoticed
  BY StaleIs DEF StaleIsNoticed
<1> QED
  BY <1>1, <1>2, <1>3, PTL DEF Spec

-----------------------------------------------------------------------------
(* The checkpoints without it.                                             *)

\* A list has an observer.
Has(list, o) == \E i \in DOMAIN list : list[i] = o

\* Without Object.observe no observer is in a set.
Plain(s) ==
  s \in Memory /\ DOMAIN s.sets = {} /\ \A o \in Observer : s.set[o] = 0 /\ s.state[o] # "resetting"

\* Who is listed stays listed, and who is opened is.
Follows(s, t) ==
  /\ Plain(t)
  /\ \A o \in Observer : Has(s.all, o) => Has(t.all, o)
  /\ \A o \in Observer : H!IsOpen(t, o) => H!IsOpen(s, o) \/ Has(t.all, o)

\* The checkpoint has yet to come to an observer.
ToCome(r, o) == r.kind = "checkpoint" /\ \E i \in DOMAIN r.list : r.at <= i /\ r.list[i] = o

\* An open observer is listed, in what the checkpoint has left or in the list
\* of the next one; while nothing has changed the others are up to date.
Listing(s, r) ==
  /\ Plain(s) /\ r \in Loop /\ r.kind # "callback"
  /\ r.kind = "dirtyCheck" => r.list[1] \in Observer
  /\ r.kind = "checkpoint" => r.at # 0
  /\ \A o \in Observer : H!IsOpen(s, o) => Has(s.all, o) \/ ToCome(r, o)
  /\ r.kind = "checkpoint" /\ ~r.any => \A o \in Observer : H!IsOpen(s, o) /\ H!Changed(s, o) => ToCome(r, o)

\* The inductive invariant of CheckpointSettles.
CheckInv == ~hasObserve => Listing(memory, run)

\* Pushed on a list, an observer is in it with the others.
LEMMA HasAppend ==
  ASSUME NEW list \in Seq(Observer), NEW o \in Observer
  PROVE  Append(list, o) \in Seq(Observer) /\ Has(Append(list, o), o)
         /\ \A p : Has(list, p) => Has(Append(list, o), p)
<1> DEFINE longer == Append(list, o)
<1>1. /\ longer \in Seq(Observer) /\ Len(longer) = Len(list) + 1 /\ longer[Len(list) + 1] = o
      /\ \A i \in 1..Len(list) : longer[i] = list[i]
  BY AppendProperties
<1> HIDE DEF longer
<1>2. DOMAIN longer = 1..(Len(list) + 1) /\ DOMAIN list = 1..Len(list) /\ Len(list) \in Nat
  BY <1>1, LenProperties
<1>3. Has(longer, o)
  BY <1>1, <1>2 DEF Has
<1>4. ASSUME NEW p, Has(list, p) PROVE Has(longer, p)
  BY <1>1, <1>2, <1>4 DEF Has
<1> QED
  BY <1>1, <1>3, <1>4 DEF longer

\* An observer and the list with other parts.
With(s, o, status, watch, valued, all) ==
  [s EXCEPT !.state = [s.state EXCEPT ![o] = status], !.watch = [s.watch EXCEPT ![o] = watch],
            !.value = [s.value EXCEPT ![o] = valued], !.all = all]

\* A list that only grows has all that it had.
LEMMA WithFollows ==
  ASSUME NEW s, Plain(s), NEW o \in Observer, NEW status \in States \ {"resetting"}, NEW watch \in WatchList,
         NEW valued \in Seq(Held), NEW all \in Seq(Observer), \A p \in Observer : Has(s.all, p) => Has(all, p),
         status = "opened" => H!IsOpen(s, o) \/ Has(all, o), NEW t, t = With(s, o, status, watch, valued, all)
  PROVE  Follows(s, t)
<1> DEFINE states == [s.state EXCEPT ![o] = status]
           watches == [s.watch EXCEPT ![o] = watch]
           values == [s.value EXCEPT ![o] = valued]
<1>1. s \in Memory
  BY DEF Plain
<1>2. states \in [Observer -> States] /\ watches \in [Observer -> WatchList] /\ values \in [Observer -> Seq(Held)]
  BY <1>1 DEF Memory
<1>3. t = [s EXCEPT !.state = states, !.watch = watches, !.value = values, !.all = all]
  BY DEF With
<1>4. states[o] = status /\ \A p \in Observer \ {o} : states[p] = s.state[p]
  BY <1>1 DEF Memory
<1> HIDE DEF states, watches, values
<1>5. t \in Memory
  BY ONLY <1>1, <1>2, <1>3, all \in Seq(Observer) DEF Memory
<1>6. t.state = states /\ t.all = all /\ t.set = s.set /\ t.sets = s.sets
  BY ONLY <1>1, <1>3 DEF Memory
<1>7. \A p \in Observer : t.state[p] # "resetting"
  BY <1>4, <1>6 DEF Plain
<1>8. Plain(t)
  BY <1>5, <1>6, <1>7 DEF Plain
<1>9. \A p \in Observer : H!IsOpen(t, p) => H!IsOpen(s, p) \/ Has(t.all, p)
  BY <1>4, <1>6 DEF H!IsOpen
<1> QED
  BY <1>6, <1>8, <1>9 DEF Follows

\* A check changes no list.
LEMMA CheckFollows ==
  ASSUME NEW s, Plain(s), NEW o \in Observer, NEW t, t = H!Check(s, o)
  PROVE  Follows(s, t) /\ t.all = s.all /\ t.state = s.state
<1>1. s \in Memory
  BY DEF Plain
<1> DEFINE v == H!Values(s.heap, s.watch[o])
<1>2. v \in Seq(Held) /\ v = H!Values(s.heap, s.watch[o])
  BY <1>1, ValuesType DEF Memory
<1> HIDE DEF v
<1>3. /\ t \in Memory
      /\ t.heap = s.heap /\ t.sets = s.sets /\ t.state = s.state /\ t.watch = s.watch
      /\ t.value = [s.value EXCEPT ![o] = v]
      /\ t.set = s.set /\ t.cache = s.cache /\ t.last = s.last
      /\ t.all = s.all /\ t.tasks = s.tasks
  BY <1>1, <1>2, MemoryValue
<1> QED
  BY <1>3 DEF Follows, Plain, H!IsOpen

\* Nor does a change of a property.
LEMMA WriteFollows ==
  ASSUME NEW s, Plain(s), NEW x \in Obj, NEW n \in Name, NEW v \in Held
  PROVE  Follows(s, H!Write(s, x, n, v))
<1> DEFINE t == H!Write(s, x, n, v)
           rec == [object |-> x, name |-> n]
<1>1. s \in Memory
  BY DEF Plain
<1>2. t = H!Write(s, x, n, v) /\ rec = [object |-> x, name |-> n]
  OBVIOUS
<1> HIDE DEF t, rec
<1>3. Written(s, x, n, v, rec, t)
  BY <1>1, <1>2, WriteIs
<1>4. Follows(s, t)
  BY <1>3 DEF Written, Follows, Plain, H!IsOpen
<1> QED
  BY <1>4 DEF t

\* Whatever the program does, who is open is listed.
LEMMA OutcomeFollows ==
  ASSUME H!PathAssumption, ~hasObserve, NEW s, Plain(s), NEW q \in H!Outcomes(s)
  PROVE  Follows(s, q.memory)
<1>1. s \in Memory /\ s.all \in Seq(Observer)
  BY DEF Plain, Memory
<1>2. \A o \in Observer : H!Disconnect(s, o) = s
  BY DEF H!Disconnect, Plain
<1>3. << >> \in WatchList /\ << >> \in Seq(Held)
  BY DEF WatchList
<1>4. ASSUME NEW w \in Watches PROVE w \in WatchList /\ H!Values(s.heap, w) \in Seq(Held)
  <2>1. w \in WatchList /\ s.heap \in Heap
    BY <1>1, WatchIs DEF Memory
  <2> QED
    BY <2>1, ValuesType
<1>5. ASSUME NEW x \in Obj, NEW n \in Name, NEW v \in Obj \cup {Nil}, q = H!Result(H!Write(s, x, n, v), 1)
      PROVE  Follows(s, q.memory)
  <2>1. q.memory = H!Write(s, x, n, v) /\ v \in Held
    BY <1>5 DEF H!Result, Held
  <2> QED
    BY <2>1, WriteFollows
<1>6. ASSUME NEW o \in Observer, NEW w \in Watches, q = H!Result(H!OpenObserver(s, o, w), 0)
      PROVE  Follows(s, q.memory)
  <2> DEFINE all == Append(s.all, o)
             valued == H!Values(s.heap, w)
             t == With(s, o, "opened", w, valued, all)
             status == "opened"
  <2>1. q.memory = t
    <3>1. q.memory = [[s EXCEPT !.watch[o] = w, !.state[o] = "opened", !.all = all] EXCEPT !.value[o] = valued]
      BY <1>6 DEF H!Result, H!OpenObserver
    <3> HIDE DEF all, valued
    <3> QED
      BY ONLY <1>1, <3>1 DEF Memory, With, t
  <2>2. all \in Seq(Observer) /\ Has(all, o) /\ \A p \in Observer : Has(s.all, p) => Has(all, p)
    BY <1>1, HasAppend
  <2>3. valued \in Seq(Held) /\ w \in WatchList
    BY <1>4
  <2>4. t = With(s, o, status, w, valued, all) /\ status \in States \ {"resetting"}
    BY DEF States
  <2> HIDE DEF t, all, valued, status
  <2>5. Follows(s, t)
    BY <2>2, <2>3, <2>4, WithFollows
  <2> QED
    BY <2>1, <2>5
<1>7. ASSUME NEW o \in Observer, q = H!Result(H!CloseObserver(s, o), 0)
      PROVE  Follows(s, q.memory)
  <2> DEFINE t == With(s, o, "closed", << >>, << >>, s.all)
             status == "closed"
             none == << >>
             all == s.all
  <2>1. q.memory = t
    <3>1. q.memory = [s EXCEPT !.state[o] = "closed", !.value[o] = << >>, !.watch[o] = << >>]
      BY <1>2, <1>7 DEF H!Result, H!CloseObserver
    <3> QED
      BY ONLY <1>1, <3>1 DEF Memory, With, t
  <2>2. t = With(s, o, status, none, none, all) /\ status \in States \ {"resetting"} /\ status # "opened"
    BY DEF States
  <2>3. none \in WatchList /\ none \in Seq(Held) /\ all \in Seq(Observer) /\ all = s.all
    BY <1>1, <1>3
  <2> HIDE DEF t, all, status, none
  <2>4. Follows(s, t)
    BY <2>2, <2>3, WithFollows
  <2> QED
    BY <2>1, <2>4
<1>8. ASSUME NEW o \in Observer, H!IsOpen(s, o), NEW w \in Watches,
             q = H!Result(H!FinishReset(H!StartReset(s, o), o, w), 1)
      PROVE  Follows(s, q.memory)
  <2> DEFINE all == s.all
             valued == H!Values(s.heap, w)
             t == With(s, o, "opened", w, valued, all)
             status == "opened"
             u == H!StartReset(s, o)
  <2>1. q.memory = t
    <3>1. u = [s EXCEPT !.state[o] = "resetting", !.value[o] = << >>, !.watch[o] = << >>]
      BY <1>2 DEF H!StartReset
    <3>2. u.heap = s.heap
      BY ONLY <1>1, <3>1 DEF Memory
    <3>3. q.memory = [[u EXCEPT !.watch[o] = w, !.state[o] = "opened"] EXCEPT !.value[o] = valued]
      <4> HIDE DEF u
      <4>1. q.memory = H!FinishReset(u, o, w)
        BY <1>8 DEF H!Result, u
      <4> QED
        BY <3>2, <4>1 DEF H!FinishReset
    <3> HIDE DEF valued, u
    <3>4. /\ [[s.state EXCEPT ![o] = "resetting"] EXCEPT ![o] = "opened"] = [s.state EXCEPT ![o] = "opened"]
          /\ [[s.value EXCEPT ![o] = << >>] EXCEPT ![o] = valued] = [s.value EXCEPT ![o] = valued]
          /\ [[s.watch EXCEPT ![o] = << >>] EXCEPT ![o] = w] = [s.watch EXCEPT ![o] = w]
      BY <1>1 DEF Memory
    <3>5. /\ u.state = [s.state EXCEPT ![o] = "resetting"] /\ u.value = [s.value EXCEPT ![o] = << >>]
          /\ u.watch = [s.watch EXCEPT ![o] = << >>]
          /\ u = [s EXCEPT !.state = u.state, !.value = u.value, !.watch = u.watch]
      BY ONLY <1>1, <3>1 DEF Memory
    <3>6. q.memory = [s EXCEPT !.watch = [u.watch EXCEPT ![o] = w], !.state = [u.state EXCEPT ![o] = "opened"],
                               !.value = [u.value EXCEPT ![o] = valued]]
      BY ONLY <1>1, <3>3, <3>5 DEF Memory
    <3>7. q.memory = [s EXCEPT !.state = [s.state EXCEPT ![o] = "opened"], !.watch = [s.watch EXCEPT ![o] = w],
                               !.value = [s.value EXCEPT ![o] = valued], !.all = s.all]
      BY ONLY <1>1, <3>4, <3>5, <3>6 DEF Memory
    <3> QED
      BY <3>7 DEF With, t, all
  <2>2. t = With(s, o, status, w, valued, all) /\ status \in States \ {"resetting"}
    BY DEF States
  <2>3. valued \in Seq(Held) /\ w \in WatchList /\ all \in Seq(Observer) /\ all = s.all
    BY <1>1, <1>4
  <2> HIDE DEF t, all, valued, status
  <2>4. Follows(s, t)
    BY <1>8, <2>2, <2>3, WithFollows
  <2> QED
    BY <2>1, <2>4
<1>9. ASSUME q = H!Result([s EXCEPT !.tasks = 1], 0)
      PROVE  Follows(s, q.memory)
  <2> DEFINE t == q.memory
  <2>1. t = [s EXCEPT !.tasks = 1]
    BY <1>9 DEF H!Result
  <2> HIDE DEF t
  <2>2. t \in Memory /\ t.state = s.state /\ t.set = s.set /\ t.all = s.all /\ t.sets = s.sets
    BY ONLY <1>1, <2>1 DEF Memory
  <2> QED
    BY <2>2 DEF Follows, Plain, H!IsOpen, t
<1>10. \/ \E x \in Obj, n \in Name, v \in Obj \cup {Nil} : q = H!Result(H!Write(s, x, n, v), 1)
       \/ \E o \in Observer, w \in Watches : q = H!Result(H!OpenObserver(s, o, w), 0)
       \/ \E o \in Observer : q = H!Result(H!CloseObserver(s, o), 0)
       \/ \E o \in Observer : s.state[o] = "resetting"
       \/ \E o \in Observer, w \in Watches :
            H!IsOpen(s, o) /\ q = H!Result(H!FinishReset(H!StartReset(s, o), o, w), 1)
       \/ q = H!Result([s EXCEPT !.tasks = 1], 0)
  BY DEF H!Outcomes
<1> QED
  BY <1>5, <1>6, <1>7, <1>8, <1>9, <1>10 DEF Plain

\* Nor does a callback take anyone from the list.
LEMMA CallbackFollows ==
  ASSUME H!PathAssumption, ~hasObserve, NEW s, Plain(s), NEW o, NEW q \in H!Callback(o, s)
  PROVE  Follows(s, q.memory)
<1>1. q = H!Result(s, 0) \/ q \in H!Outcomes(s)
  BY DEF H!Callback
<1>2. CASE q = H!Result(s, 0)
  BY <1>2 DEF H!Result, Follows
<1>3. CASE q \in H!Outcomes(s)
  BY <1>3, OutcomeFollows
<1> QED
  BY <1>1, <1>2, <1>3

\* A cycle takes the list of all.
LEMMA CycleLists ==
  ASSUME NEW s, Plain(s), NEW r \in Loop, \A o \in Observer : H!IsOpen(s, o) => Has(s.all, o),
         NEW t, t = [s EXCEPT !.all = << >>], NEW q, q = H!Cycle(s, r)
  PROVE  Listing(t, q) /\ q.kind = "checkpoint"
<1>1. s \in Memory /\ s.all \in Seq(Observer) /\ << >> \in Seq(Observer)
  BY DEF Plain, Memory
<1>2. t \in Memory /\ t.state = s.state /\ t.set = s.set /\ t.sets = s.sets
  BY ONLY <1>1, t = [s EXCEPT !.all = << >>] DEF Memory
<1>3. q \in Loop /\ q.kind = "checkpoint" /\ q.list = s.all /\ q.at = 1
  <2>1. r.cycles + 1 \in Nat
    BY DEF Loop
  <2>2. q = [r EXCEPT !.kind = "checkpoint", !.list = s.all, !.at = 1, !.any = FALSE, !.cycles = r.cycles + 1]
    BY DEF H!Cycle
  <2> QED
    BY ONLY r \in Loop, <1>1, <2>1, <2>2 DEF Loop, Kinds
<1>4. ASSUME NEW o \in Observer, H!IsOpen(t, o) PROVE ToCome(q, o)
  <2>1. Has(s.all, o)
    BY <1>2, <1>4 DEF H!IsOpen
  <2>2. DOMAIN s.all = 1..Len(s.all) /\ Len(s.all) \in Nat
    BY <1>1, LenProperties
  <2>3. PICK i \in DOMAIN q.list : q.list[i] = o
    BY <1>3, <2>1 DEF Has
  <2>4. q.at <= i
    BY <1>3, <2>2, <2>3
  <2> QED
    BY <1>3, <2>3, <2>4 DEF ToCome
<1> QED
  BY <1>2, <1>3, <1>4 DEF Listing, Plain

\* The checkpoint goes on to the next observer.
LEMMA CheckpointSteps ==
  ASSUME H!PathAssumption, ~hasObserve, Listing(memory, run), H!StepCheckpoint
  PROVE  Listing(memory', run') /\ run'.kind = "checkpoint"
<1> DEFINE s == memory
           o == run.list[run.at]
           next == run'
<1>1. /\ Plain(s) /\ run \in Loop /\ run.kind = "checkpoint" /\ run.at \in Nat \ {0} /\ run.at <= Len(run.list)
      /\ run.list \in Seq(Observer)
  BY DEF Listing, H!StepCheckpoint, Loop
<1>2. DOMAIN run.list = 1..Len(run.list) /\ Len(run.list) \in Nat
  BY <1>1, LenProperties
<1>3. o \in Observer
  BY <1>1, <1>2, ElementOfSeq
<1>4. /\ next \in Loop /\ next.kind = "checkpoint" /\ next.at = run.at + 1 /\ next.list = run.list
      /\ ~next.any => ~run.any
  <2>1. run' = [run EXCEPT !.at = run.at + 1] \/ run' = [run EXCEPT !.at = run.at + 1, !.any = TRUE]
    BY DEF H!StepCheckpoint
  <2>2. CASE run' = [run EXCEPT !.at = run.at + 1]
    BY ONLY <1>1, <2>2 DEF Loop
  <2>3. CASE run' = [run EXCEPT !.at = run.at + 1, !.any = TRUE]
    <3>1. run.at + 1 \in Nat
      BY <1>1
    <3>2. run' \in Loop
      BY ONLY <1>1, <2>3, <3>1 DEF Loop, Kinds
    <3>3. run'.kind = "checkpoint" /\ run'.at = run.at + 1 /\ run'.list = run.list
      BY ONLY <1>1, <2>3, <3>1 DEF Loop, Kinds
    <3>4. run'.any
      BY ONLY <1>1, <2>3, <3>1 DEF Loop, Kinds
    <3> QED
      BY <3>2, <3>3, <3>4
  <2> QED
    BY <2>1, <2>2, <2>3
<1> HIDE DEF next
<1>5. ASSUME NEW p \in Observer, p # o, ToCome(run, p) PROVE ToCome(next, p)
  <2>1. PICK i \in DOMAIN run.list : run.at <= i /\ run.list[i] = p
    BY <1>5 DEF ToCome
  <2>2. next.at <= i
    BY <1>1, <1>2, <1>4, <1>5, <2>1
  <2> QED
    BY <1>4, <2>1, <2>2 DEF ToCome
<1>6. \A p \in Observer : H!IsOpen(s, p) => Has(s.all, p) \/ ToCome(run, p)
  BY DEF Listing
<1>7. ~run.any => \A p \in Observer : H!IsOpen(s, p) /\ H!Changed(s, p) => ToCome(run, p)
  BY <1>1 DEF Listing
<1>8. CASE ~H!IsOpen(s, o)
  <2>1. memory' = s
    BY <1>8 DEF H!StepCheckpoint
  <2>2. \A p \in Observer : H!IsOpen(s, p) => Has(s.all, p) \/ ToCome(next, p)
    BY <1>5, <1>6, <1>8
  <2>3. ~next.any => \A p \in Observer : H!IsOpen(s, p) /\ H!Changed(s, p) => ToCome(next, p)
    BY <1>4, <1>5, <1>7, <1>8
  <2>4. Listing(s, next)
    BY <1>1, <1>4, <2>2, <2>3 DEF Listing
  <2> QED
    BY <1>4, <2>1, <2>4 DEF next
\* The memory u, with o put back.
<1>9. ASSUME NEW u, Follows(s, u), NEW t, t = H!Kept(u, o),
             ~next.any => u = s /\ ~H!Changed(s, o)
      PROVE  Listing(t, next)
  <2>1. u \in Memory /\ u.all \in Seq(Observer)
    BY <1>9 DEF Follows, Plain, Memory
  <2> DEFINE all == Append(u.all, o)
  <2>2. all \in Seq(Observer) /\ Has(all, o) /\ \A p \in Observer : Has(u.all, p) => Has(all, p)
    BY <1>3, <2>1, HasAppend
  <2>3. t = [u EXCEPT !.all = all]
    BY <1>9 DEF H!Kept
  <2> HIDE DEF all
  <2>4. /\ t \in Memory /\ t.state = u.state /\ t.set = u.set /\ t.sets = u.sets /\ t.all = all
        /\ t.heap = u.heap /\ t.watch = u.watch /\ t.value = u.value
    BY ONLY <2>1, <2>2, <2>3 DEF Memory
  <2>5. Plain(t)
    BY <1>9, <2>4 DEF Follows, Plain
  <2>6. ASSUME NEW p \in Observer, H!IsOpen(t, p) PROVE Has(t.all, p) \/ ToCome(next, p)
    <3>1. H!IsOpen(s, p) \/ Has(u.all, p)
      BY <1>9, <2>4, <2>6 DEF Follows, H!IsOpen
    <3>2. Has(s.all, p) => Has(u.all, p)
      BY <1>9 DEF Follows
    <3> QED
      BY <1>5, <1>6, <2>2, <2>4, <3>1, <3>2
  <2>7. ASSUME ~next.any, NEW p \in Observer, H!IsOpen(t, p), H!Changed(t, p) PROVE ToCome(next, p)
    <3>1. u = s /\ ~H!Changed(s, o) /\ ~run.any
      BY <1>4, <1>9, <2>7
    <3>2. H!IsOpen(s, p) /\ H!Changed(s, p)
      BY <2>4, <2>7, <3>1 DEF H!IsOpen, H!Changed
    <3> QED
      BY <1>5, <1>7, <3>1, <3>2
  <2>8. next \in Loop /\ next.kind = "checkpoint" /\ next.at # 0
    BY <1>1, <1>4
  <2> QED
    BY ONLY <2>5, <2>6, <2>7, <2>8 DEF Listing
<1>10. CASE H!IsOpen(s, o) /\ ~H!Changed(s, o)
  <2>1. memory' = H!Kept(s, o)
    BY <1>10 DEF H!StepCheckpoint
  <2>2. Follows(s, s)
    BY <1>1 DEF Follows
  <2>3. Listing(memory', next)
    BY <1>9, <1>10, <2>1, <2>2
  <2> QED
    BY <1>4, <2>3 DEF next
<1>11. CASE H!IsOpen(s, o) /\ H!Changed(s, o)
  <2> DEFINE c == H!Check(s, o)
  <2>1. PICK r \in H!Callback(o, c) : memory' = H!Kept(r.memory, o)
    BY <1>11 DEF H!StepCheckpoint, H!Take, H!Result
  <2>2. next.any
    <3>1. run' = [run EXCEPT !.at = run.at + 1, !.any = TRUE]
      BY <1>11 DEF H!StepCheckpoint
    <3> QED
      BY <1>1, <3>1 DEF Loop, next
  <2>3. c = H!Check(s, o)
    OBVIOUS
  <2> HIDE DEF c
  <2>4. Follows(s, c)
    BY <1>1, <1>3, <2>3, CheckFollows
  <2>5. Follows(c, r.memory)
    BY <2>1, <2>4, CallbackFollows DEF Follows
  <2>6. Follows(s, r.memory)
    BY <2>4, <2>5 DEF Follows
  <2>7. Listing(memory', next)
    BY <1>9, <2>1, <2>2, <2>6
  <2> QED
    BY <1>4, <2>7 DEF next
<1> QED
  BY <1>8, <1>10, <1>11

\* Every step keeps the list.
LEMMA CheckStep ==
  ASSUME H!PathAssumption, CheckInv, [H!Next]_(H!vars) PROVE CheckInv'
<1> SUFFICES ASSUME ~hasObserve' PROVE Listing(memory', run')
  BY DEF CheckInv
<1>1. ~hasObserve /\ Listing(memory, run)
  BY SameEngine DEF CheckInv
<1>2. Plain(memory) /\ run \in Loop /\ \A o \in Observer : H!IsOpen(memory, o) => Has(memory.all, o) \/ ToCome(run, o)
  BY <1>1 DEF Listing
\* Outside the checkpoint who is open is in the list of all.
<1>3. ASSUME NEW t, Follows(memory, t), NEW r \in Loop, run.kind # "checkpoint", r.kind \in {"idle", "dirtyCheck"},
             r.kind = "dirtyCheck" => r.list[1] \in Observer
      PROVE  Listing(t, r)
  <2>1. \A o \in Observer : ~ToCome(run, o)
    BY <1>3 DEF ToCome
  <2>2. ASSUME NEW o \in Observer, H!IsOpen(t, o) PROVE Has(t.all, o)
    BY <1>2, <1>3, <2>1, <2>2 DEF Follows
  <2> QED
    BY <1>3, <2>2 DEF Listing, Follows
<1>4. Follows(memory, memory)
  BY <1>2 DEF Follows
<1>5. H!Idle \in Loop /\ H!Idle.kind = "idle"
  BY DEF H!Idle, Loop, Kinds
<1>6. CASE H!Program
  <2>1. PICK r \in H!Outcomes(memory) : memory' = r.memory
    BY <1>6 DEF H!Program, H!Take
  <2>2. run' = run /\ run = H!Idle
    BY <1>6 DEF H!Program
  <2>3. Follows(memory, r.memory)
    BY <1>1, <1>2, OutcomeFollows
  <2> QED
    BY <1>2, <1>3, <1>5, <2>1, <2>2, <2>3
<1>7. ASSUME NEW o \in Observer, H!Deliver(o) PROVE Listing(memory', run')
  <2>1. memory' = memory /\ run' = [H!Idle EXCEPT !.kind = "dirtyCheck", !.list = <<o>>] /\ run = H!Idle
    BY <1>7 DEF H!Deliver
  <2>2. run' = [kind |-> "dirtyCheck", list |-> <<o>>, set |-> 0, at |-> 0, any |-> FALSE, cycles |-> 0]
    BY <2>1 DEF H!Idle
  <2>3. <<o>> \in Seq(Observer)
    OBVIOUS
  <2>4. run' \in Loop
    BY ONLY <2>2, <2>3 DEF Loop, Kinds
  <2>5. run'.kind = "dirtyCheck" /\ run'.list[1] = o
    BY <2>2
  <2> QED
    BY <1>3, <1>4, <1>5, <2>1, <2>4, <2>5
<1>8. CASE H!DirtyCheck
  <2> DEFINE o == run.list[1]
             c == H!Check(memory, o)
  <2>1. run.kind = "dirtyCheck" /\ o \in Observer
    BY <1>1, <1>8 DEF H!DirtyCheck, Listing
  <2>2. CASE run.cycles < MaxCycles /\ H!Changed(memory, o)
    <3>1. PICK r \in H!Callback(o, c) : memory' = r.memory
      BY <1>8, <2>2 DEF H!DirtyCheck, H!Take
    <3>2. run' = [run EXCEPT !.cycles = run.cycles + 1]
      BY <1>8, <2>2 DEF H!DirtyCheck
    <3>3. run'.kind = "dirtyCheck" /\ run'.list = run.list /\ run' \in Loop
      BY ONLY <1>2, <2>1, <3>2 DEF Loop
    <3>4. c = H!Check(memory, o)
      OBVIOUS
    <3> HIDE DEF c
    <3>5. Follows(memory, c)
      BY <1>2, <2>1, <3>4, CheckFollows
    <3>6. Follows(c, r.memory)
      BY <1>1, <3>1, <3>5, CallbackFollows DEF Follows
    <3>7. Follows(memory, r.memory)
      BY <3>5, <3>6 DEF Follows
    <3> QED
      BY <1>3, <2>1, <3>1, <3>3, <3>7
  <2>3. CASE ~(run.cycles < MaxCycles /\ H!Changed(memory, o))
    <3>1. run' = H!Idle /\ memory' = memory
      BY <1>8, <2>3 DEF H!DirtyCheck
    <3> QED
      BY <1>3, <1>4, <1>5, <2>1, <3>1
  <2> QED
    BY <2>2, <2>3
<1>9. ~(\E id \in DOMAIN memory.sets : H!StartCallback(id)) /\ ~H!StepCallback
  BY <1>1 DEF Listing, Plain, H!StepCallback
<1>10. CASE H!StartCheckpoint
  <2>1. run = H!Idle /\ run' = H!Cycle(memory, H!Idle) /\ memory' = [memory EXCEPT !.all = << >>]
    BY <1>10 DEF H!StartCheckpoint
  <2>2. \A o \in Observer : H!IsOpen(memory, o) => Has(memory.all, o)
    BY <1>2, <1>5, <2>1 DEF ToCome
  <2> QED
    BY <1>2, <1>5, <2>1, <2>2, CycleLists
<1>11. CASE H!StepCheckpoint
  BY <1>1, <1>11, CheckpointSteps
<1>12. CASE H!RunTask
  <2> DEFINE s == [memory EXCEPT !.tasks = 0]
  <2>1. PICK q \in {H!Result(s, 0)} \cup H!Outcomes(s) : memory' = q.memory
    BY <1>12 DEF H!RunTask, H!Take
  <2>2. run' = [run EXCEPT !.any = TRUE] /\ run.kind = "checkpoint"
    BY <1>12 DEF H!RunTask
  <2>3. /\ run' \in Loop /\ run'.kind = "checkpoint" /\ run'.any /\ run'.list = run.list /\ run'.at = run.at
    BY ONLY <1>2, <2>2 DEF Loop, Kinds
  <2>4. memory \in Memory
    BY <1>2 DEF Plain
  <2>5. s \in Memory /\ s.state = memory.state /\ s.set = memory.set /\ s.sets = memory.sets /\ s.all = memory.all
    BY ONLY <2>4 DEF Memory
  <2> HIDE DEF s
  <2>6. Follows(memory, s)
    BY <1>2, <2>5 DEF Follows, Plain, H!IsOpen
  <2>7. Follows(s, q.memory)
    <3>1. CASE q = H!Result(s, 0)
      BY <2>6, <3>1 DEF H!Result, Follows
    <3>2. CASE q \in H!Outcomes(s)
      BY <1>1, <2>6, <3>2, OutcomeFollows DEF Follows
    <3> QED
      BY <2>1, <3>1, <3>2
  <2>8. Follows(memory, q.memory)
    BY <2>6, <2>7 DEF Follows
  <2>9. ASSUME NEW o \in Observer, H!IsOpen(q.memory, o) PROVE Has(q.memory.all, o) \/ ToCome(run', o)
    <3>1. ToCome(run, o) => ToCome(run', o)
      BY <2>3 DEF ToCome
    <3> QED
      BY <1>2, <2>8, <2>9, <3>1 DEF Follows
  <2>10. run'.at # 0
    BY <1>1, <2>2, <2>3 DEF Listing
  <2> QED
    BY <2>1, <2>3, <2>8, <2>9, <2>10 DEF Listing, Follows
<1>13. CASE H!EndCycle
  <2>1. run.kind = "checkpoint" /\ run.at > Len(run.list)
    BY <1>13 DEF H!EndCycle
  <2>2. \A o : ~ToCome(run, o)
    <3>1. DOMAIN run.list = 1..Len(run.list) /\ Len(run.list) \in Nat /\ run.at \in Nat
      BY <1>2, LenProperties DEF Loop
    <3> QED
      BY <2>1, <3>1 DEF ToCome
  <2>3. \A o \in Observer : H!IsOpen(memory, o) => Has(memory.all, o)
    BY <1>2, <2>2
  <2>4. CASE run.any /\ run.cycles < MaxCycles
    <3>1. run' = H!Cycle(memory, run) /\ memory' = [memory EXCEPT !.all = << >>]
      BY <1>13, <2>4 DEF H!EndCycle
    <3> QED
      BY <1>2, <2>3, <3>1, CycleLists
  <2>5. CASE ~(run.any /\ run.cycles < MaxCycles)
    <3>1. run' = H!Idle /\ memory' = memory
      BY <1>13, <2>5 DEF H!EndCycle
    <3> QED
      BY <1>2, <1>5, <2>3, <3>1 DEF Listing
  <2> QED
    BY <2>4, <2>5
<1>14. CASE UNCHANGED H!vars
  BY <1>1, <1>14 DEF H!vars
<1> QED
  BY <1>6, <1>7, <1>8, <1>9, <1>10, <1>11, <1>12, <1>13, <1>14 DEF H!Next

\* At first nobody is open.
LEMMA CheckInit ==
  ASSUME H!Init PROVE CheckInv
<1>1. memory.set = [o \in Observer |-> 0] /\ memory.state = [o \in Observer |-> "unopened"] /\ memory.sets = << >>
  BY DEF H!Init
<1>2. memory \in Memory
  BY StartsTyped
<1>3. Plain(memory) /\ \A o \in Observer : ~H!IsOpen(memory, o)
  BY <1>1, <1>2 DEF Plain, H!IsOpen
<1>4. run \in Loop /\ run.kind = "idle"
  BY DEF H!Init, H!Idle, Loop, Kinds
<1> QED
  BY <1>3, <1>4 DEF CheckInv, Listing

\* A checkpoint that ends without a change has come to every observer.
LEMMA SettleStep ==
  ASSUME StaleInv, CheckInv, [H!Next]_(H!vars) PROVE [H!Settles]_(H!vars)
<1> SUFFICES ASSUME H!Next, run.kind = "checkpoint", run'.kind = "idle", ~run.any, NEW o \in Observer
             PROVE  ~H!Stale(o)
  BY DEF H!Settles
<1>1. ~hasObserve /\ Listing(memory, run)
  BY DEF StaleInv, LoopIs, CheckInv
<1>2. run \in Loop
  BY <1>1 DEF Listing
<1>3. ~H!StepCheckpoint /\ ~H!RunTask
  <2>1. CASE H!StepCheckpoint
    <3>1. run' = [run EXCEPT !.at = run.at + 1] \/ run' = [run EXCEPT !.at = run.at + 1, !.any = TRUE]
      BY <2>1 DEF H!StepCheckpoint
    <3>2. run'.kind = run.kind
      BY <1>2, <3>1 DEF Loop
    <3> QED
      BY <3>2
  <2>2. CASE H!RunTask
    <3>1. run' = [run EXCEPT !.any = TRUE]
      BY <2>2 DEF H!RunTask
    <3>2. run'.kind = run.kind
      BY <1>2, <3>1 DEF Loop
    <3> QED
      BY <3>2
  <2> QED
    BY <2>1, <2>2
<1>4. H!EndCycle
  <2>1. run # H!Idle
    BY DEF H!Idle
  <2>2. /\ ~H!Program /\ ~H!DirtyCheck /\ ~H!StepCallback /\ ~H!StartCheckpoint
        /\ \A p \in Observer : ~H!Deliver(p)
        /\ \A id \in DOMAIN memory.sets : ~H!StartCallback(id)
    BY <2>1 DEF H!Program, H!Deliver, H!DirtyCheck, H!StartCallback, H!StepCallback, H!StartCheckpoint
  <2> QED
    BY <1>3, <2>2 DEF H!Next
<1>5. DOMAIN run.list = 1..Len(run.list) /\ Len(run.list) \in Nat /\ run.at \in Nat
  BY <1>2, LenProperties DEF Loop
<1>6. ~ToCome(run, o)
  BY <1>4, <1>5 DEF H!EndCycle, ToCome
<1> QED
  BY <1>1, <1>6 DEF Listing, H!Stale

\* Without Object.observe, a checkpoint that ends because nothing has changed
\* leaves no open observer with an old value, whatever the callbacks opened, closed
\* and changed (performMicrotaskCheckpoint, index.js:324-360).
THEOREM CheckpointsSettle == Spec => CheckpointSettles
<1> DEFINE Inv == scene = "path" => StaleInv /\ CheckInv
<1> USE ClientAssumption
<1>1. Init => Inv
  BY StaleInit, CheckInit DEF Init
<1>2. Inv /\ [Next]_clientVars => Inv' /\ [scene = "path" => H!Settles]_clientVars
  <2> SUFFICES ASSUME Inv, [Next]_clientVars PROVE Inv' /\ [scene = "path" => H!Settles]_clientVars
    OBVIOUS
  <2>1. scene' = scene
    BY DEF Next, clientVars
  <2>2. ASSUME scene = "path" PROVE [H!Next]_(H!vars)
    BY <2>2, PathStep
  <2>3. Inv'
    BY <2>1, <2>2, StaleStep, CheckStep
  <2>4. ASSUME scene = "path" PROVE [H!Settles]_(H!vars)
    BY <2>2, <2>4, SettleStep
  <2>5. scene = "path" /\ UNCHANGED H!vars => UNCHANGED clientVars
    BY DEF Next, OthersKept, clientVars, pathVars, H!vars
  <2> QED
    BY <2>3, <2>4, <2>5
<1> QED
  BY <1>1, <1>2, PTL DEF Spec, CheckpointSettles

-----------------------------------------------------------------------------
(* The listeners of a model.                                               *)

\* Two models of which the same is read.
Alike(d, e) == \A k \in W!Keys : W!read(d, k) = W!read(e, k)

\* A listener reads the keys and nothing else.
LEMMA AlikeIsEnough ==
  ASSUME NEW d, NEW e, Alike(d, e), NEW w PROVE W!get(d, w) = W!get(e, w)
BY DEF Alike, W!get, W!Keys

\* A key that is written is read, the others stay.
LEMMA WrittenIsRead ==
  ASSUME NEW d, NEW k \in W!Keys, NEW x, NEW j \in W!Keys
  PROVE  W!read(W!With(d, k, x), j) = IF j = k THEN x ELSE W!read(d, j)
BY DEF W!read, W!has, W!With

\* A change of the key k to x of a model that was read as d before.
Now(d, k, x, w) == <<W!get(W!With(d, k, x), w), W!get(d, w)>>

\* A listener is told the old value and the new one, when its key may have changed.
LEMMA ListenerTells ==
  ASSUME NEW m, NEW w, NEW k \in W!Keys, NEW x, NEW old, NEW d, Alike(W!With(m.data, k, old), d),
         NEW n, n = W!listener(m, w, k, x, old)
  PROVE  /\ n.told = [m.told EXCEPT ![w] = Now(d, k, x, w)]
         /\ Alike(n.data, W!With(d, k, x)) /\ Alike(W!With(n.data, k, old), d)
<1> DEFINE before == W!With(m.data, k, old)
           after == W!With(before, k, x)
           tells == [m.told EXCEPT ![w] = <<W!get(after, w), W!get(before, w)>>]
<1>1. n = [data |-> after, told |-> tells]
  BY DEF W!listener, W!restored
<1>2. Alike(after, W!With(d, k, x)) /\ Alike(W!With(after, k, old), d)
  BY WrittenIsRead DEF Alike
<1>3. W!get(after, w) = W!get(W!With(d, k, x), w) /\ W!get(before, w) = W!get(d, w)
  BY <1>2, AlikeIsEnough
<1> HIDE DEF before, after
<1>4. tells = [m.told EXCEPT ![w] = Now(d, k, x, w)]
  BY <1>3 DEF Now
<1> HIDE DEF tells
<1>5. n.data = after /\ n.told = tells
  BY <1>1
<1> QED
  BY <1>2, <1>4, <1>5

\* Everyone who depends on the key is told, and nobody else.
Tells(t, u, d, k, x) ==
  /\ u = [w \in W!Watched |-> u[w]]
  /\ \A w \in W!Watched : u[w] = IF W!Listens(w, k) THEN Now(d, k, x, w) ELSE t[w]

\* One listener is told more, the others what they were.
LEMMA Told ==
  ASSUME NEW t, t = [w \in W!Watched |-> t[w]], NEW w, NEW x, NEW u, u = [t EXCEPT ![w] = x]
  PROVE  u = [z \in W!Watched |-> u[z]] /\ \A z \in W!Watched : u[z] = IF z = w THEN x ELSE t[z]
<1>1. DOMAIN t = W!Watched
  OBVIOUS
<1>2. DOMAIN u = W!Watched
  BY <1>1
<1>3. u = [z \in DOMAIN u |-> u[z]]
  OBVIOUS
<1>4. ASSUME NEW z \in W!Watched PROVE u[z] = IF z = w THEN x ELSE t[z]
  BY <1>1
<1> QED
  BY <1>2, <1>3, <1>4

\* A change tells it.
LEMMA ChangeTells ==
  ASSUME NEW m, m.told = [w \in W!Watched |-> m.told[w]], NEW k \in W!Keys, NEW x, NEW old,
         NEW d, Alike(W!With(m.data, k, old), d), NEW c, c = W!change(m, k, x, old)
  PROVE  Alike(c.data, W!With(d, k, x)) /\ Tells(m.told, c.told, d, k, x)
<1> DEFINE n == W!listener(m, "own", k, x, old)
<1>0. k \in W!Keys /\ Alike(W!With(m.data, k, old), d)
  OBVIOUS
<1>1. CASE k = "p"
  <2>1. c = W!listener(n, "both", k, x, old)
    BY <1>1 DEF W!change, W!Tell, W!Listens, W!Dependencies
  <2>2. n = W!listener(m, "own", k, x, old)
    OBVIOUS
  <2> HIDE DEF n
  <2>3. n.told = [m.told EXCEPT !["own"] = Now(d, k, x, "own")] /\ Alike(W!With(n.data, k, old), d)
    BY ONLY <1>0, <2>2, ListenerTells
  <2>4. c.told = [n.told EXCEPT !["both"] = Now(d, k, x, "both")] /\ Alike(c.data, W!With(d, k, x))
    <3>1. Alike(W!With(n.data, k, old), d)
      BY <2>3
    <3> QED
      BY ONLY <1>0, <2>1, <3>1, ListenerTells
  <2>5. n.told = [w \in W!Watched |-> n.told[w]]
        /\ \A w \in W!Watched : n.told[w] = IF w = "own" THEN Now(d, k, x, "own") ELSE m.told[w]
    BY <2>3, Told
  <2>6. c.told = [w \in W!Watched |-> c.told[w]]
        /\ \A w \in W!Watched : c.told[w] = IF w = "both" THEN Now(d, k, x, "both") ELSE n.told[w]
    BY <2>4, <2>5, Told
  <2>7. \A w \in W!Watched : c.told[w] = Now(d, k, x, w) /\ W!Listens(w, k)
    BY <1>1, <2>5, <2>6 DEF W!Watched, W!Listens, W!Dependencies
  <2> QED
    BY <2>4, <2>6, <2>7 DEF Tells
<1>2. CASE k = "q"
  <2>1. c = W!listener(m, "both", k, x, old)
    BY <1>2 DEF W!change, W!Tell, W!Listens, W!Dependencies
  <2>2. c.told = [m.told EXCEPT !["both"] = Now(d, k, x, "both")] /\ Alike(c.data, W!With(d, k, x))
    BY ONLY <1>0, <2>1, ListenerTells
  <2>3. c.told = [w \in W!Watched |-> c.told[w]]
        /\ \A w \in W!Watched : c.told[w] = IF w = "both" THEN Now(d, k, x, "both") ELSE m.told[w]
    BY <2>2, Told
  <2>5. \A w \in W!Watched : W!Listens(w, k) <=> w = "both"
    BY <1>2 DEF W!Watched, W!Listens, W!Dependencies
  <2> QED
    BY <2>2, <2>3, <2>5 DEF Tells
<1> QED
  BY <1>1, <1>2 DEF W!Keys

\* Those who listen stay.
Model(m) == m = [data |-> m.data, told |-> m.told] /\ m.told = [w \in W!Watched |-> m.told[w]]

\* A listener that runs, or is told, leaves the others there.
LEMMA ListenersStay ==
  ASSUME NEW m, Model(m), NEW w, NEW k, NEW x, NEW old
  PROVE  Model(W!listener(m, w, k, x, old)) /\ Model(W!Tell(m, w, k, x, old))
<1> DEFINE n == W!listener(m, w, k, x, old)
<1>1. PICK d, u : n = [data |-> d, told |-> [m.told EXCEPT ![w] = u]]
  BY DEF W!listener
<1> HIDE DEF n
<1>2. n.data = d /\ n.told = [m.told EXCEPT ![w] = u]
  BY <1>1
<1>3. n.told = [z \in W!Watched |-> n.told[z]]
  BY <1>2 DEF Model
<1>4. Model(n)
  BY <1>1, <1>2, <1>3 DEF Model
<1> QED
  BY <1>4 DEF W!Tell, n

\* The listeners are those there are.
WatchInv == told = [w \in W!Watched |-> told[w]]

\* What is told of one change is the change.
LEMMA TellsTheChange ==
  ASSUME NEW k \in W!Keys, NEW x, Tells(told, told', data, k, x), Alike(data', W!With(data, k, x))
  PROVE  WatchInv' /\ W!TellsOldAndNew
<1>1. WatchInv'
  BY DEF Tells, WatchInv
<1>2. ASSUME NEW w \in W!Watched
      PROVE  /\ W!get(data', w) # W!get(data, w) => told'[w] = <<W!get(data', w), W!get(data, w)>>
             /\ told'[w] # told[w] => told'[w] = <<W!get(data', w), W!get(data, w)>>
  <2>1. W!get(data', w) = W!get(W!With(data, k, x), w)
    BY AlikeIsEnough
  <2>2. CASE W!Listens(w, k)
    BY <2>1, <2>2 DEF Tells, Now
  <2>3. CASE ~W!Listens(w, k)
    <3>1. w = "own" /\ k = "q"
      BY <2>3 DEF W!Listens, W!Dependencies, W!Watched, W!Keys
    <3>2. W!get(W!With(data, k, x), w) = W!get(data, w)
      BY <3>1, WrittenIsRead DEF W!get, W!Keys
    <3> QED
      BY <2>1, <2>3, <3>2 DEF Tells
  <2> QED
    BY <2>2, <2>3
<1> QED
  BY <1>1, <1>2 DEF W!TellsOldAndNew

\* set tells its change.
LEMMA SetStep ==
  ASSUME WatchInv, NEW k \in W!Keys, NEW x, W!set(k, x) PROVE WatchInv' /\ W!TellsOldAndNew
<1> DEFINE m == [data |-> data, told |-> told]
           c == W!change(m, k, x, W!read(data, k))
<1>1. data' = W!With(c.data, k, x) /\ told' = c.told
  <2>1. data' = W!Written(m, k, x).data /\ told' = W!Written(m, k, x).told
    BY DEF W!set
  <2>2. W!Written(m, k, x) = [c EXCEPT !.data = W!With(c.data, k, x)]
    BY DEF W!Written
  <2>3. Model(c)
    <3>1. Model(m)
      BY DEF Model, WatchInv
    <3> HIDE DEF m
    <3> QED
      BY <3>1, ListenersStay DEF W!change
  <2> HIDE DEF c
  <2> QED
    BY <2>1, <2>2, <2>3 DEF Model
<1>2. Alike(W!With(data, k, W!read(data, k)), data)
  BY WrittenIsRead DEF Alike
<1>3. Alike(c.data, W!With(data, k, x)) /\ Tells(told, c.told, data, k, x)
  BY <1>2, ChangeTells DEF WatchInv
<1> HIDE DEF c
<1>4. Alike(data', W!With(data, k, x))
  BY <1>1, <1>3, WrittenIsRead DEF Alike
<1> QED
  BY <1>1, <1>3, <1>4, TellsTheChange

\* unset tells its change.
LEMMA UnsetStep ==
  ASSUME WatchInv, NEW k \in W!Keys, W!unset(k) PROVE WatchInv' /\ W!TellsOldAndNew
<1> DEFINE r == [j \in DOMAIN data \ {k} |-> data[j]]
           m == [data |-> r, told |-> told]
           c == W!change(m, k, Undefined, data[k])
<1>1. data' = c.data /\ told' = c.told
  BY DEF W!unset
<1>2. Alike(W!With(r, k, data[k]), data)
  <2>1. ASSUME NEW j \in W!Keys, j # k PROVE W!read(r, j) = W!read(data, j)
    BY <2>1 DEF W!read, W!has
  <2>2. W!read(data, k) = data[k]
    BY DEF W!unset, W!read
  <2> HIDE DEF r
  <2> QED
    BY <2>1, <2>2, WrittenIsRead DEF Alike
<1> HIDE DEF r
<1>3. Alike(c.data, W!With(data, k, Undefined)) /\ Tells(told, c.told, data, k, Undefined)
  BY <1>2, ChangeTells DEF WatchInv
<1> QED
  BY <1>1, <1>3, TellsTheChange

\* A listener that sets another value tells more, and leaves the listeners there.
LEMMA SetInsideStep ==
  ASSUME WatchInv, NEW k \in W!Keys, NEW x, NEW y, W!setInside(k, x, y)
  PROVE  WatchInv' /\ W!TellsOldAndNew
<1> DEFINE m == [data |-> data, told |-> told]
           old == W!read(data, k)
           first == IF W!Listens("own", k) THEN "own" ELSE "both"
           n == W!listener(m, first, k, x, old)
           c == W!change(n, k, y, W!read(n.data, k))
           inner == W!Written(n, k, y)
           rest == IF first = "own" THEN W!Tell(inner, "both", k, x, old) ELSE inner
<1>1. told' = rest.told /\ by' = "setInside"
  BY DEF W!setInside
<1>2. Model(m)
  BY DEF Model, WatchInv
<1>3. Model(n)
  BY <1>2, ListenersStay
<1>4. Model(c)
  BY <1>3, ListenersStay DEF W!change
<1>5. inner = [c EXCEPT !.data = W!With(c.data, k, y)]
  BY DEF W!Written
<1> HIDE DEF c, inner
<1>6. Model(inner)
  <2>1. inner = [data |-> W!With(c.data, k, y), told |-> c.told]
    BY <1>4, <1>5 DEF Model
  <2> QED
    BY <1>4, <2>1 DEF Model
<1>7. Model(rest)
  BY <1>6, ListenersStay
<1> QED
  BY <1>1, <1>7 DEF Model, WatchInv, W!TellsOldAndNew

\* Every step tells its change.
LEMMA WatchStep == WatchInv /\ [W!Next]_(W!vars) => WatchInv' /\ [W!TellsOldAndNew]_(W!vars)
<1> SUFFICES ASSUME WatchInv, [W!Next]_(W!vars) PROVE WatchInv' /\ [W!TellsOldAndNew]_(W!vars)
  OBVIOUS
<1>1. CASE UNCHANGED W!vars
  BY <1>1 DEF W!vars, WatchInv
<1>2. ASSUME NEW k \in W!Keys, W!unset(k) PROVE WatchInv' /\ W!TellsOldAndNew
  BY <1>2, UnsetStep
<1>3. ASSUME NEW k \in W!Keys, NEW x, W!set(k, x) PROVE WatchInv' /\ W!TellsOldAndNew
  BY <1>3, SetStep
<1>4. ASSUME NEW k \in W!Keys, NEW x, NEW y, W!setInside(k, x, y) PROVE WatchInv' /\ W!TellsOldAndNew
  BY <1>4, SetInsideStep
<1>5. ASSUME NEW d, W!setData(d) PROVE WatchInv' /\ W!TellsOldAndNew
  BY <1>5 DEF W!setData, WatchInv, W!TellsOldAndNew
<1> QED
  BY <1>1, <1>2, <1>3, <1>4, <1>5 DEF W!Next

\* A listener is told the value of its getter before and after every change of the
\* keys it depends on that is not made inside another one, and misses none
\* (view.js:111-165, model.js:31-77).
THEOREM ListenersAreTold == Spec => ToldOldAndNew
<1> DEFINE Inv == scene = "watch" => WatchInv
<1>1. Init => Inv
  BY DEF W!Init, WatchInv, Init
<1>2. Inv /\ [Next]_clientVars => Inv' /\ [scene = "watch" => W!TellsOldAndNew]_clientVars
  <2> SUFFICES ASSUME Inv, [Next]_clientVars PROVE Inv' /\ [scene = "watch" => W!TellsOldAndNew]_clientVars
    OBVIOUS
  <2>1. scene' = scene
    BY DEF Next, clientVars
  <2>2. ASSUME scene = "watch" PROVE [W!Next]_(W!vars)
    BY <2>2 DEF Next, clientVars, watchVars, W!vars
  <2>3. Inv'
    BY <2>1, <2>2, WatchStep
  <2>4. ASSUME scene = "watch" PROVE [W!TellsOldAndNew]_(W!vars)
    BY <2>1, <2>2, <2>3, <2>4, WatchStep
  <2>5. scene = "watch" /\ UNCHANGED W!vars => UNCHANGED clientVars
    BY DEF Next, OthersKept, clientVars, watchVars, W!vars
  <2> QED
    BY <2>3, <2>4, <2>5
<1> QED
  BY <1>1, <1>2, PTL DEF Spec, ToldOldAndNew

-----------------------------------------------------------------------------
(* The difference that records make.                                       *)

\* The types of ObjectObserver.
Val == Value \cup {Absent}
Record == [name : Property, old : Val, type : {"add", "update", "delete"}]
DiffSet == [added : SUBSET Property, removed : SUBSET Property, seen : SUBSET Property, oldValues : [Property -> Val]]

\* One more record makes a difference of a difference.
LEMMA NextDiffType ==
  ASSUME NEW d \in DiffSet, NEW r \in Record PROVE G!NextDiff(d, r) \in DiffSet
<1> DEFINE old == IF r.name \in d.seen THEN d.oldValues ELSE [d.oldValues EXCEPT ![r.name] = r.old]
           was == [d EXCEPT !.oldValues = old, !.seen = @ \cup {r.name}]
<1>1. old \in [Property -> Val]
  BY DEF DiffSet, Record
<1> HIDE DEF old
<1>2. was \in DiffSet
  BY <1>1 DEF DiffSet, Record
<1>3. G!NextDiff(d, r) =
        CASE r.type = "update" -> was
          [] r.type = "add" /\ r.name \in d.removed -> [was EXCEPT !.removed = @ \ {r.name}]
          [] r.type = "add" /\ r.name \notin d.removed -> [was EXCEPT !.added = @ \cup {r.name}]
          [] r.type = "delete" /\ r.name \in d.added ->
               [was EXCEPT !.added = @ \ {r.name}, !.seen = @ \ {r.name}]
          [] OTHER -> [was EXCEPT !.removed = @ \cup {r.name}]
  BY DEF G!NextDiff, old
<1> HIDE DEF was
<1>4. r.name \in Property
  BY DEF Record
<1>5. /\ [was EXCEPT !.removed = @ \ {r.name}] \in DiffSet
      /\ [was EXCEPT !.added = @ \cup {r.name}] \in DiffSet
      /\ [was EXCEPT !.added = @ \ {r.name}, !.seen = @ \ {r.name}] \in DiffSet
      /\ [was EXCEPT !.removed = @ \cup {r.name}] \in DiffSet
  BY <1>2, <1>4 DEF DiffSet
<1> QED
  BY <1>2, <1>3, <1>5

\* The step along that list.
DiffStep == [d \in DiffSet |-> [r \in Record |-> G!NextDiff(d, r)]]

\* The difference of all the records goes along their list.
LEMMA DiffOfAllWalks ==
  ASSUME NEW list \in Seq(Record)
  PROVE  \E f \in [0..Len(list) -> DiffSet] :
           Walks(f, DiffStep, G!NoDiff, list, Len(list)) /\ G!DiffOfAll(list) = f[Len(list)]
<1> DEFINE Is(f) == f = [i \in 0..Len(list) |-> IF i = 0 THEN G!NoDiff ELSE G!NextDiff(f[i - 1], list[i])]
<1>1. DiffStep \in [DiffSet -> [Record -> DiffSet]]
  BY NextDiffType DEF DiffStep
<1>2. Len(list) \in Nat /\ \A i \in 1..Len(list) : list[i] \in Record
  BY LenProperties
<1>3. G!NoDiff \in DiffSet
  BY DEF G!NoDiff, G!Blank, DiffSet, Val
<1>4. PICK f \in [0..Len(list) -> DiffSet] : Walks(f, DiffStep, G!NoDiff, list, Len(list))
  <2>1. Len(list) \in 0..Len(list)
    BY <1>2
  <2> QED
    BY <1>1, <1>3, <2>1, WalkExists
<1>5. Is(f)
  <2>1. ASSUME NEW i \in 0..Len(list) PROVE f[i] = IF i = 0 THEN G!NoDiff ELSE G!NextDiff(f[i - 1], list[i])
    <3>1. CASE i = 0
      BY <1>4, <3>1 DEF Walks
    <3>2. CASE i # 0
      <4>1. i \in 1..Len(list) /\ i - 1 \in 0..Len(list)
        BY <1>2, <3>2
      <4>2. f[i] = DiffStep[f[i - 1]][list[i]] /\ f[i - 1] \in DiffSet /\ list[i] \in Record
        BY <1>2, <1>4, <4>1 DEF Walks
      <4> QED
        BY <3>2, <4>2 DEF DiffStep
    <3> QED
      BY <3>1, <3>2
  <2> QED
    BY <2>1
<1>6. PICK g : Is(g) /\ G!DiffOfAll(list) = g[Len(list)]
  BY <1>5 DEF G!DiffOfAll
<1> DEFINE bad == {i \in 0..Len(list) : g[i] \notin DiffSet}
<1>7. \A i \in 1..Len(list) : g[i] = G!NextDiff(g[i - 1], list[i])
  BY <1>2, <1>6
<1>8. bad = {}
  <2> SUFFICES ASSUME bad # {} PROVE FALSE
    OBVIOUS
  <2>1. bad \in SUBSET Nat
    BY <1>2
  <2>2. PICK k \in bad : \A y \in bad : k <= y
    <3> HIDE DEF bad
    <3> QED
      BY <2>1, LeastNat
  <2>3. k \in 0..Len(list) /\ g[k] \notin DiffSet
    OBVIOUS
  <2>4. g[0] = G!NoDiff
    BY <1>2, <1>6
  <2>5. k \in 1..Len(list) /\ k - 1 \in 0..Len(list) /\ ~(k <= k - 1)
    BY <1>2, <1>3, <2>3, <2>4
  <2>6. g[k - 1] \in DiffSet
    BY <2>2, <2>5
  <2> QED
    BY <1>2, <1>7, <2>3, <2>5, <2>6, NextDiffType
<1>9. g \in [0..Len(list) -> DiffSet]
  <2>1. g = [i \in 0..Len(list) |-> g[i]]
    BY <1>6
  <2> QED
    BY <1>8, <2>1
<1>10. Walks(g, DiffStep, G!NoDiff, list, Len(list))
  <2>1. g[0] = G!NoDiff
    BY <1>2, <1>6
  <2>2. ASSUME NEW i \in 1..Len(list) PROVE g[i] = DiffStep[g[i - 1]][list[i]]
    <3>1. i - 1 \in 0..Len(list)
      BY <1>2
    <3> QED
      BY <1>2, <1>7, <1>9, <3>1 DEF DiffStep
  <2> QED
    BY <2>1, <2>2 DEF Walks
<1> QED
  BY <1>6, <1>9, <1>10

\* No records, no difference; one more record, one more difference.
LEMMA DiffOfAllSteps ==
  /\ G!DiffOfAll(<< >>) = G!NoDiff
  /\ \A list \in Seq(Record), r \in Record :
       /\ G!DiffOfAll(list) \in DiffSet
       /\ G!DiffOfAll(Append(list, r)) = G!NextDiff(G!DiffOfAll(list), r)
<1>1. G!DiffOfAll(<< >>) = G!NoDiff
  <2>1. << >> \in Seq(Record) /\ Len(<< >>) = 0
    BY EmptySeq
  <2> QED
    BY <2>1, DiffOfAllWalks DEF Walks
<1>2. ASSUME NEW list \in Seq(Record), NEW r \in Record
      PROVE  /\ G!DiffOfAll(list) \in DiffSet
             /\ G!DiffOfAll(Append(list, r)) = G!NextDiff(G!DiffOfAll(list), r)
  <2> DEFINE more == Append(list, r)
             n == Len(list)
  <2>1. /\ more \in Seq(Record) /\ Len(more) = n + 1 /\ n \in Nat
        /\ more[n + 1] = r /\ \A i \in 1..n : more[i] = list[i]
    BY AppendProperties, LenProperties
  <2> HIDE DEF more
  <2>2. PICK f \in [0..n -> DiffSet] : Walks(f, DiffStep, G!NoDiff, list, n) /\ G!DiffOfAll(list) = f[n]
    BY DiffOfAllWalks
  <2>3. PICK g \in [0..(n + 1) -> DiffSet] : Walks(g, DiffStep, G!NoDiff, more, n + 1) /\ G!DiffOfAll(more) = g[n + 1]
    BY <2>1, DiffOfAllWalks
  <2> HIDE DEF n
  <2>4. Walks(g, DiffStep, G!NoDiff, more, n)
    <3>1. n \in Nat
      BY <2>1
    <3>2. 1..n \subseteq 1..(n + 1)
      BY <3>1
    <3> QED
      BY <2>3, <3>2 DEF Walks
  <2>5. \A i \in 0..n : g[i] = f[i]
    BY <2>1, <2>2, <2>4, WalksAgree
  <2>6. g[n] = f[n] /\ f[n] \in DiffSet
    BY <2>1, <2>2, <2>5
  <2>7. g[n + 1] = DiffStep[g[n]][r]
    <3>1. n + 1 \in 1..(n + 1) /\ (n + 1) - 1 = n
      BY <2>1
    <3> QED
      BY <2>1, <2>3, <3>1 DEF Walks
  <2> QED
    BY <2>2, <2>3, <2>6, <2>7 DEF DiffStep, more
<1> QED
  BY <1>1, <1>2

\* What a record does to a difference.
LEMMA NextDiffFields ==
  ASSUME NEW d \in DiffSet, NEW r \in Record, NEW c, c = G!NextDiff(d, r)
  PROVE  /\ \A n \in Property : c.oldValues[n] = IF n = r.name /\ n \notin d.seen THEN r.old ELSE d.oldValues[n]
         /\ r.type = "update" =>
              c.added = d.added /\ c.removed = d.removed /\ c.seen = d.seen \cup {r.name}
         /\ r.type = "add" /\ r.name \in d.removed =>
              c.added = d.added /\ c.removed = d.removed \ {r.name} /\ c.seen = d.seen \cup {r.name}
         /\ r.type = "add" /\ r.name \notin d.removed =>
              c.added = d.added \cup {r.name} /\ c.removed = d.removed /\ c.seen = d.seen \cup {r.name}
         /\ r.type = "delete" /\ r.name \in d.added =>
              c.added = d.added \ {r.name} /\ c.removed = d.removed /\ c.seen = d.seen \ {r.name}
         /\ r.type = "delete" /\ r.name \notin d.added =>
              c.added = d.added /\ c.removed = d.removed \cup {r.name} /\ c.seen = d.seen \cup {r.name}
<1> DEFINE old == IF r.name \in d.seen THEN d.oldValues ELSE [d.oldValues EXCEPT ![r.name] = r.old]
           was == [d EXCEPT !.oldValues = old, !.seen = @ \cup {r.name}]
<1>1. old \in [Property -> Val] /\ \A n \in Property : old[n] = IF n = r.name /\ n \notin d.seen THEN r.old ELSE d.oldValues[n]
  BY DEF DiffSet, Record
<1>2. r.type \in {"add", "update", "delete"}
  BY DEF Record
<1> HIDE DEF old
<1>3. /\ was \in DiffSet /\ was.oldValues = old /\ was.seen = d.seen \cup {r.name}
      /\ was.added = d.added /\ was.removed = d.removed
  BY <1>1 DEF DiffSet, Record
<1>4. c = CASE r.type = "update" -> was
            [] r.type = "add" /\ r.name \in d.removed -> [was EXCEPT !.removed = @ \ {r.name}]
            [] r.type = "add" /\ r.name \notin d.removed -> [was EXCEPT !.added = @ \cup {r.name}]
            [] r.type = "delete" /\ r.name \in d.added ->
                 [was EXCEPT !.added = @ \ {r.name}, !.seen = @ \ {r.name}]
            [] OTHER -> [was EXCEPT !.removed = @ \cup {r.name}]
  BY DEF G!NextDiff, old
<1> HIDE DEF was
<1>5. CASE r.type = "update"
  BY <1>1, <1>3, <1>4, <1>5
<1>6. CASE r.type = "add" /\ r.name \in d.removed
  <2>1. c = [was EXCEPT !.removed = @ \ {r.name}]
    BY <1>4, <1>6
  <2> QED
    BY <1>1, <1>3, <1>6, <2>1 DEF DiffSet
<1>7. CASE r.type = "add" /\ r.name \notin d.removed
  <2>1. c = [was EXCEPT !.added = @ \cup {r.name}]
    BY <1>4, <1>7
  <2> QED
    BY <1>1, <1>3, <1>7, <2>1 DEF DiffSet
<1>8. CASE r.type = "delete" /\ r.name \in d.added
  <2>1. c = [was EXCEPT !.added = @ \ {r.name}, !.seen = @ \ {r.name}]
    BY <1>4, <1>8
  <2>2. (d.seen \cup {r.name}) \ {r.name} = d.seen \ {r.name}
    OBVIOUS
  <2> QED
    BY <1>1, <1>3, <1>8, <2>1, <2>2 DEF DiffSet
<1>9. CASE r.type = "delete" /\ r.name \notin d.added
  <2>1. c = [was EXCEPT !.removed = @ \cup {r.name}]
    BY <1>4, <1>9
  <2> QED
    BY <1>1, <1>3, <1>9, <2>1 DEF DiffSet
<1> QED
  BY <1>2, <1>5, <1>6, <1>7, <1>8, <1>9

\* A difference leads from one version of an object to another.
Agrees(d, old, new) ==
  /\ d \in DiffSet
  /\ \A n \in Property :
       /\ n \in d.seen => d.oldValues[n] = old[n]
       /\ n \notin d.seen => new[n] = old[n]
       /\ n \in d.added <=> G!Has(new, n) /\ ~G!Has(old, n)
       /\ n \in d.removed <=> G!Has(old, n) /\ ~G!Has(new, n)

LEMMA AgreesStart == ASSUME NEW x \in [Property -> Val] PROVE Agrees(G!NoDiff, x, x)
BY DEF Agrees, G!NoDiff, G!Blank, DiffSet, Val

\* The record of a change leads to the next version.
RecordOf(new, n, v) ==
  [name |-> n, old |-> new[n],
   type |-> CASE v = Absent -> "delete" [] new[n] = Absent -> "add" [] OTHER -> "update"]

LEMMA AgreesNext ==
  ASSUME NEW d, NEW old \in [Property -> Val], NEW new \in [Property -> Val], Agrees(d, old, new),
         NEW n \in Property, NEW v \in Val, v # new[n]
  PROVE  /\ RecordOf(new, n, v) \in Record
         /\ Agrees(G!NextDiff(d, RecordOf(new, n, v)), old, [new EXCEPT ![n] = v])
<1> DEFINE r == RecordOf(new, n, v)
           c == G!NextDiff(d, r)
           next == [new EXCEPT ![n] = v]
<1>1. /\ r.name = n /\ r.old = new[n] /\ r.type \in {"add", "update", "delete"}
      /\ r.type = "delete" <=> v = Absent
      /\ r.type = "add" <=> new[n] = Absent
  BY DEF RecordOf
<1>2. r \in Record
  BY DEF RecordOf, Record
<1>3. d \in DiffSet
  BY DEF Agrees
<1> HIDE DEF r
<1>4. c \in DiffSet
  BY <1>2, <1>3, NextDiffType
<1>5. /\ \A i \in Property : c.oldValues[i] = IF i = n /\ i \notin d.seen THEN new[n] ELSE d.oldValues[i]
      /\ r.type = "update" => c.added = d.added /\ c.removed = d.removed /\ c.seen = d.seen \cup {n}
      /\ r.type = "add" /\ n \in d.removed =>
           c.added = d.added /\ c.removed = d.removed \ {n} /\ c.seen = d.seen \cup {n}
      /\ r.type = "add" /\ n \notin d.removed =>
           c.added = d.added \cup {n} /\ c.removed = d.removed /\ c.seen = d.seen \cup {n}
      /\ r.type = "delete" /\ n \in d.added =>
           c.added = d.added \ {n} /\ c.removed = d.removed /\ c.seen = d.seen \ {n}
      /\ r.type = "delete" /\ n \notin d.added =>
           c.added = d.added /\ c.removed = d.removed \cup {n} /\ c.seen = d.seen \cup {n}
  BY <1>1, <1>2, <1>3, NextDiffFields
<1> HIDE DEF c
<1>6. next[n] = v /\ \A i \in Property : i # n => next[i] = new[i]
  OBVIOUS
<1> HIDE DEF next
<1>7. ASSUME NEW i \in Property
      PROVE  /\ i \in c.seen => c.oldValues[i] = old[i]
             /\ i \notin c.seen => next[i] = old[i]
             /\ i \in c.added <=> G!Has(next, i) /\ ~G!Has(old, i)
             /\ i \in c.removed <=> G!Has(old, i) /\ ~G!Has(next, i)
  <2>1. /\ i \in d.seen => d.oldValues[i] = old[i]
        /\ i \notin d.seen => new[i] = old[i]
        /\ i \in d.added <=> G!Has(new, i) /\ ~G!Has(old, i)
        /\ i \in d.removed <=> G!Has(old, i) /\ ~G!Has(new, i)
    BY DEF Agrees
  <2>2. CASE i # n
    BY <1>1, <1>5, <1>6, <2>1, <2>2 DEF G!Has
  <2>3. CASE i = n
    <3>1. CASE r.type = "update"
      BY <1>1, <1>5, <1>6, <2>1, <2>3, <3>1 DEF G!Has
    <3>2. CASE r.type = "add" /\ n \in d.removed
      BY <1>1, <1>5, <1>6, <2>1, <2>3, <3>2 DEF G!Has
    <3>3. CASE r.type = "add" /\ n \notin d.removed
      BY <1>1, <1>5, <1>6, <2>1, <2>3, <3>3 DEF G!Has
    <3>4. CASE r.type = "delete" /\ n \in d.added
      BY <1>1, <1>5, <1>6, <2>1, <2>3, <3>4 DEF G!Has
    <3>5. CASE r.type = "delete" /\ n \notin d.added
      BY <1>1, <1>5, <1>6, <2>1, <2>3, <3>5 DEF G!Has
    <3> QED
      BY <1>1, <3>1, <3>2, <3>3, <3>4, <3>5
  <2> QED
    BY <2>2, <2>3
<1>8. Agrees(c, old, next)
  BY <1>4, <1>7 DEF Agrees
<1> QED
  BY <1>2, <1>8 DEF c, r, next

-----------------------------------------------------------------------------
(* The observers of an object.                                             *)

\* What the engine keeps for an observer.
EntrySet == [observer : Observer \cup {None}, observes : SUBSET Obj, records : Seq(Record)]

\* The types of the variables.
ObjectType ==
  /\ hasObserve \in BOOLEAN /\ object \in [Obj -> [Property -> Val]]
  /\ state \in [Observer -> {"opened", "unopened"}] /\ value \in [Observer -> Obj \cup {None}]
  /\ direct \in [Observer -> Nat \cup {None}]
  /\ oldObject \in [Observer -> [Property -> Val]] /\ known \in [Observer -> [Property -> Val]]
  /\ entries \in Seq(EntrySet) /\ cache \in Seq(Nat)

\* The entries in the cache are there once, and nobody has them.
CacheTrue ==
  /\ \A i \in DOMAIN cache :
       cache[i] \in DOMAIN entries /\ entries[cache[i]].observer = None /\ entries[cache[i]].observes = {}
  /\ \A i \in DOMAIN cache : \A j \in DOMAIN cache : cache[i] = cache[j] => i = j

\* Who has an entry is open, and it is his.
Owned(e) ==
  entries[e].observer # None =>
    entries[e].observer \in Observer /\ state[entries[e].observer] = "opened" /\ direct[entries[e].observer] = e

\* What an observer has been given since it last heard is what happened since.
Followed(o) ==
  state[o] = "opened" =>
    /\ value[o] \in Obj
    /\ hasObserve =>
         /\ direct[o] \in DOMAIN entries
         /\ entries[direct[o]].observer = o /\ entries[direct[o]].observes = {value[o]}
         /\ Agrees(G!DiffOfAll(entries[direct[o]].records), known[o], object[value[o]])
    /\ ~hasObserve => oldObject[o] = known[o]

\* The inductive invariant of ToldTheDifference.
ObjectInv ==
  /\ None \notin Observer
  /\ ObjectType /\ CacheTrue
  /\ \A e \in DOMAIN entries : Owned(e)
  /\ \A o \in Observer : Followed(o)
  /\ ~hasObserve => entries = << >>

\* At first nobody observes.
LEMMA ObjectInit == None \notin Observer /\ G!Init => ObjectInv
<1> SUFFICES ASSUME None \notin Observer, G!Init PROVE ObjectInv
  OBVIOUS
<1>1. /\ << >> \in Seq(EntrySet) /\ << >> \in Seq(Nat) /\ DOMAIN << >> = {}
  BY EmptySeq
<1>2. G!Blank \in [Property -> Val]
  BY DEF G!Blank, Val
<1>3. ObjectType
  BY <1>1, <1>2 DEF G!Init, ObjectType
<1>4. CacheTrue /\ \A e \in DOMAIN entries : Owned(e)
  BY <1>1 DEF G!Init, CacheTrue
<1>5. \A o \in Observer : Followed(o)
  BY DEF G!Init, Followed
<1> QED
  BY <1>3, <1>4, <1>5 DEF ObjectInv, G!Init

\* The entries are a list of entries.
LEMMA EntriesOf ==
  ASSUME ObjectType, NEW e \in DOMAIN entries
  PROVE  entries[e] \in EntrySet /\ DOMAIN entries = 1..Len(entries) /\ Len(entries) \in Nat
BY LenProperties DEF ObjectType

\* A record is put in the queue of those who observe the object.
LEMMA QueuedIs ==
  ASSUME ObjectType, NEW x \in Obj, NEW r \in Record
  PROVE  /\ G!Queued(x, r) \in Seq(EntrySet) /\ DOMAIN G!Queued(x, r) = DOMAIN entries
         /\ \A e \in DOMAIN entries :
              /\ G!Queued(x, r)[e].observer = entries[e].observer
              /\ G!Queued(x, r)[e].observes = entries[e].observes
              /\ G!Queued(x, r)[e].records =
                   IF x \in entries[e].observes THEN Append(entries[e].records, r) ELSE entries[e].records
<1> DEFINE q == G!Queued(x, r)
<1>1. q = [e \in DOMAIN entries |->
            IF x \in entries[e].observes THEN [entries[e] EXCEPT !.records = Append(@, r)] ELSE entries[e]]
  BY DEF G!Queued
<1> HIDE DEF q
<1>2. ASSUME NEW e \in DOMAIN entries
      PROVE  /\ q[e] \in EntrySet
             /\ q[e].observer = entries[e].observer /\ q[e].observes = entries[e].observes
             /\ q[e].records = IF x \in entries[e].observes THEN Append(entries[e].records, r) ELSE entries[e].records
  <2>1. entries[e] \in EntrySet
    BY EntriesOf
  <2>2. Append(entries[e].records, r) \in Seq(Record)
    BY <2>1, AppendProperties DEF EntrySet
  <2>3. CASE x \in entries[e].observes
    <3>1. q[e] = [entries[e] EXCEPT !.records = Append(entries[e].records, r)]
      BY <1>1, <2>3
    <3> QED
      BY <2>1, <2>2, <2>3, <3>1 DEF EntrySet
  <2>4. CASE x \notin entries[e].observes
    BY <1>1, <2>1, <2>4
  <2> QED
    BY <2>3, <2>4
<1>3. DOMAIN entries = 1..Len(entries) /\ Len(entries) \in Nat
  BY LenProperties DEF ObjectType
<1>4. q \in [1..Len(entries) -> EntrySet]
  BY <1>1, <1>2, <1>3
<1>5. q \in Seq(EntrySet)
  BY <1>3, <1>4, SeqDef
<1> QED
  BY <1>1, <1>2, <1>5 DEF q

\* A change is a record for every observer of the object.
LEMMA WriteStep ==
  ASSUME ObjectInv, NEW x \in Obj, NEW n \in Property, NEW v \in Val, G!Write(x, n, v)
  PROVE  ObjectInv'
<1> DEFINE r == RecordOf(object[x], n, v)
<1>1. /\ entries' = G!Queued(x, r) /\ object' = [object EXCEPT ![x][n] = v] /\ v # object[x][n]
      /\ UNCHANGED <<hasObserve, state, value, direct, oldObject, cache, known>>
  BY DEF G!Write, RecordOf
<1>2. ObjectType /\ object[x] \in [Property -> Val]
  BY DEF ObjectInv, ObjectType
<1>3. r \in Record
  <2>1. r.type \in {"add", "update", "delete"}
    BY DEF RecordOf
  <2> QED
    BY <1>2, <2>1 DEF RecordOf, Record
<1>4. /\ entries' \in Seq(EntrySet) /\ DOMAIN entries' = DOMAIN entries
      /\ \A e \in DOMAIN entries :
           /\ entries'[e].observer = entries[e].observer
           /\ entries'[e].observes = entries[e].observes
           /\ entries'[e].records =
                IF x \in entries[e].observes THEN Append(entries[e].records, r) ELSE entries[e].records
  BY <1>1, <1>2, <1>3, QueuedIs
<1>5. ObjectType'
  BY <1>1, <1>2, <1>4 DEF ObjectType
<1>6. CacheTrue'
  BY <1>1, <1>4 DEF ObjectInv, CacheTrue
<1>7. \A e \in DOMAIN entries' : Owned(e)'
  BY <1>1, <1>4 DEF ObjectInv, Owned
<1>8. ASSUME NEW o \in Observer PROVE Followed(o)'
  <2> SUFFICES ASSUME state[o] = "opened" PROVE Followed(o)'
    BY <1>1 DEF Followed
  <2>1. Followed(o) /\ value[o] \in Obj
    BY DEF ObjectInv, Followed
  <2>2. CASE ~hasObserve
    BY <1>1, <2>1, <2>2 DEF Followed
  <2>3. CASE hasObserve
    <3> DEFINE d == direct[o]
               list == entries[d].records
    <3>1. /\ d \in DOMAIN entries /\ entries[d].observer = o /\ entries[d].observes = {value[o]}
          /\ Agrees(G!DiffOfAll(list), known[o], object[value[o]])
      BY <2>1, <2>3 DEF Followed
    <3>2. list \in Seq(Record)
      BY <1>2, <3>1, EntriesOf DEF EntrySet
    <3>3. known[o] \in [Property -> Val]
      BY <1>2 DEF ObjectType
    <3> HIDE DEF list, d, r
    <3>4. CASE value[o] = x
      <4>1. entries'[d].records = Append(list, r)
        BY <1>4, <3>1, <3>4 DEF list
      <4>2. G!DiffOfAll(Append(list, r)) = G!NextDiff(G!DiffOfAll(list), r)
        BY <1>3, <3>2, DiffOfAllSteps
      <4>3. Agrees(G!NextDiff(G!DiffOfAll(list), r), known[o], [object[x] EXCEPT ![n] = v])
        BY <1>1, <1>2, <3>1, <3>3, <3>4, AgreesNext DEF r
      <4>4. object'[x] = [object[x] EXCEPT ![n] = v]
        BY <1>1, <1>2 DEF ObjectType
      <4>5. Agrees(G!DiffOfAll(entries'[d].records), known[o], object'[value[o]])
        BY <3>4, <4>1, <4>2, <4>3, <4>4
      <4> QED
        BY <1>1, <1>4, <2>1, <2>3, <3>1, <4>5 DEF Followed, d
    <3>5. CASE value[o] # x
      <4>1. entries'[d].records = list
        BY <1>4, <3>1, <3>5 DEF list
      <4>2. object'[value[o]] = object[value[o]]
        BY <1>1, <1>2, <2>1, <3>5 DEF ObjectType
      <4> QED
        BY <1>1, <1>4, <2>1, <2>3, <3>1, <4>1, <4>2 DEF Followed, d
    <3> QED
      BY <3>4, <3>5
  <2> QED
    BY <2>2, <2>3
<1>9. ~hasObserve' => entries' = << >>
  <2> SUFFICES ASSUME ~hasObserve PROVE entries' = << >>
    BY <1>1
  <2>1. entries = << >>
    BY DEF ObjectInv
  <2>2. Len(entries') = 0
    BY <1>4, <2>1, LenProperties
  <2> QED
    BY <1>4, <2>2, EmptySeq
<1> QED
  BY <1>5, <1>6, <1>7, <1>8, <1>9 DEF ObjectInv

\* An observer hears of everything.
LEMMA HeardStep ==
  ASSUME ObjectInv, NEW o \in Observer, state[o] = "opened", G!Heard(o)
  PROVE  ObjectInv'
<1>1. ObjectType /\ Followed(o) /\ value[o] \in Obj
  BY DEF ObjectInv, Followed
<1>2. object[value[o]] \in [Property -> Val]
  BY <1>1 DEF ObjectType
<1>3. /\ known' = [known EXCEPT ![o] = object[value[o]]]
      /\ UNCHANGED <<hasObserve, object, state, value, direct, cache>>
  BY DEF G!Heard
<1>4. CASE ~hasObserve
  <2>1. oldObject' = [oldObject EXCEPT ![o] = object[value[o]]] /\ entries' = entries
    BY <1>4 DEF G!Heard
  <2>2. ObjectType'
    BY <1>1, <1>2, <1>3, <2>1 DEF ObjectType
  <2>3. ASSUME NEW z \in Observer PROVE Followed(z)'
    BY <1>1, <1>3, <1>4, <2>1 DEF ObjectInv, Followed, ObjectType
  <2> QED
    BY <1>3, <2>1, <2>2, <2>3 DEF ObjectInv, CacheTrue, Owned
<1>5. CASE hasObserve
  <2> DEFINE d == direct[o]
  <2>1. entries' = [entries EXCEPT ![d].records = << >>] /\ oldObject' = oldObject
    BY <1>5 DEF G!Heard
  <2>2. d \in DOMAIN entries /\ entries[d].observer = o /\ entries[d].observes = {value[o]}
    BY <1>1, <1>5 DEF Followed
  <2>3. entries[d] \in EntrySet /\ DOMAIN entries = 1..Len(entries) /\ << >> \in Seq(Record)
    BY <1>1, <2>2, EntriesOf, EmptySeq
  <2>4. [entries[d] EXCEPT !.records = << >>] \in EntrySet
    BY <2>3 DEF EntrySet
  <2>5. entries' \in Seq(EntrySet) /\ DOMAIN entries' = DOMAIN entries
    <3>1. entries' = [entries EXCEPT ![d] = [entries[d] EXCEPT !.records = << >>]]
      BY <2>1
    <3> QED
      BY <1>1, <2>2, <2>3, <2>4, <3>1, ExceptSeq DEF ObjectType
  <2>6. /\ \A e \in DOMAIN entries : entries'[e].observer = entries[e].observer /\ entries'[e].observes = entries[e].observes
        /\ \A e \in DOMAIN entries : e # d => entries'[e] = entries[e]
        /\ entries'[d].records = << >>
    BY <2>1, <2>2, <2>3 DEF EntrySet
  <2>7. ObjectType'
    BY <1>1, <1>2, <1>3, <2>1, <2>5 DEF ObjectType
  <2>8. CacheTrue' /\ \A e \in DOMAIN entries' : Owned(e)'
    BY <1>3, <2>5, <2>6 DEF ObjectInv, CacheTrue, Owned
  <2>9. ASSUME NEW z \in Observer PROVE Followed(z)'
    <3>1. CASE z = o
      <4>1. known'[o] = object[value[o]]
        BY <1>1, <1>3 DEF ObjectType
      <4>2. Agrees(G!DiffOfAll(entries'[d].records), known'[o], object[value[o]])
        BY <1>2, <2>6, <4>1, AgreesStart, DiffOfAllSteps
      <4> QED
        BY <1>1, <1>3, <1>5, <2>2, <2>5, <2>6, <3>1, <4>2 DEF Followed
    <3>2. CASE z # o
      <4>1. known'[z] = known[z]
        BY <1>1, <1>3, <3>2 DEF ObjectType
      <4>2. state[z] = "opened" => direct[z] # d
        BY <1>5, <2>2, <3>2 DEF ObjectInv, Followed
      <4>3. Followed(z)
        BY DEF ObjectInv
      <4> QED
        BY <1>3, <1>5, <2>5, <2>6, <4>1, <4>2, <4>3 DEF Followed
    <3> QED
      BY <3>1, <3>2
  <2> QED
    BY <1>3, <1>5, <2>7, <2>8, <2>9 DEF ObjectInv
<1> QED
  BY <1>4, <1>5

\* The callback of an entry empties its queue.
LEMMA CallbackStep ==
  ASSUME ObjectInv, NEW e \in DOMAIN entries, G!Callback(e)
  PROVE  ObjectInv'
<1>1. ObjectType /\ Owned(e)
  BY DEF ObjectInv
<1>2. CASE entries[e].observer # None
  <2>1. entries[e].observer \in Observer /\ state[entries[e].observer] = "opened" /\ G!Heard(entries[e].observer)
    BY <1>1, <1>2 DEF Owned, G!Callback
  <2> QED
    BY <2>1, HeardStep
<1>3. CASE entries[e].observer = None
  <2>1. /\ entries' = [entries EXCEPT ![e].records = << >>]
        /\ UNCHANGED <<hasObserve, object, state, value, direct, oldObject, cache, known>>
    BY <1>3 DEF G!Callback
  <2>2. entries[e] \in EntrySet /\ DOMAIN entries = 1..Len(entries) /\ << >> \in Seq(Record)
    BY <1>1, EntriesOf, EmptySeq
  <2>3. [entries[e] EXCEPT !.records = << >>] \in EntrySet
    BY <2>2 DEF EntrySet
  <2>4. entries' \in Seq(EntrySet) /\ DOMAIN entries' = DOMAIN entries
    <3>1. entries' = [entries EXCEPT ![e] = [entries[e] EXCEPT !.records = << >>]]
      BY <2>1
    <3> QED
      BY <1>1, <2>2, <2>3, <3>1, ExceptSeq DEF ObjectType
  <2>5. /\ \A j \in DOMAIN entries : entries'[j].observer = entries[j].observer /\ entries'[j].observes = entries[j].observes
        /\ \A j \in DOMAIN entries : j # e => entries'[j] = entries[j]
    BY <2>1, <2>2 DEF EntrySet
  <2>6. ObjectType'
    BY <1>1, <2>1, <2>4 DEF ObjectType
  <2>7. CacheTrue' /\ \A j \in DOMAIN entries' : Owned(j)'
    BY <2>1, <2>4, <2>5 DEF ObjectInv, CacheTrue, Owned
  <2>8. ASSUME NEW z \in Observer PROVE Followed(z)'
    <3>1. Followed(z) /\ z # None
      BY DEF ObjectInv
    <3>2. state[z] = "opened" /\ hasObserve => direct[z] # e
      BY <1>3, <3>1 DEF Followed
    <3> QED
      BY <2>1, <2>4, <2>5, <3>1, <3>2 DEF Followed
  <2>9. ~hasObserve' => entries' = << >>
    <3> SUFFICES ASSUME ~hasObserve PROVE FALSE
      BY <2>1
    <3>1. DOMAIN entries = {}
      BY EmptySeq DEF ObjectInv
    <3> QED
      BY <3>1
  <2> QED
    BY <2>6, <2>7, <2>8, <2>9 DEF ObjectInv
<1> QED
  BY <1>2, <1>3

\* Closing gives the entry to the cache.
LEMMA CloseObjectStep ==
  ASSUME ObjectInv, NEW o \in Observer, G!Close(o)
  PROVE  ObjectInv'
<1>1. ObjectType /\ Followed(o) /\ state[o] = "opened" /\ None \notin Observer
  BY DEF ObjectInv, G!Close
<1>2. /\ state' = [state EXCEPT ![o] = "unopened"] /\ value' = [value EXCEPT ![o] = None]
      /\ known' = [known EXCEPT ![o] = G!Blank] /\ UNCHANGED <<hasObserve, object>>
  BY DEF G!Close
<1>3. G!Blank \in [Property -> Val]
  BY DEF G!Blank, Val
<1>4. CASE ~hasObserve
  <2>1. oldObject' = [oldObject EXCEPT ![o] = G!Blank] /\ UNCHANGED <<direct, entries, cache>>
    BY <1>4 DEF G!Close
  <2>2. ObjectType'
    BY <1>1, <1>2, <1>3, <2>1 DEF ObjectType
  <2>3. entries = << >> /\ DOMAIN entries = {}
    BY <1>4, EmptySeq DEF ObjectInv
  <2>4. ASSUME NEW z \in Observer PROVE Followed(z)'
    BY <1>1, <1>2, <1>4, <2>1 DEF ObjectInv, Followed, ObjectType
  <2> QED
    BY <1>1, <1>2, <2>1, <2>2, <2>3, <2>4 DEF ObjectInv, CacheTrue, Owned
<1>5. CASE hasObserve
  <2> DEFINE d == direct[o]
             left == [entries[d] EXCEPT !.observer = None, !.observes = {}]
  <2>1. /\ entries' = [entries EXCEPT ![d].observer = None, ![d].observes = {}]
        /\ direct' = [direct EXCEPT ![o] = None] /\ cache' = Append(cache, d) /\ oldObject' = oldObject
    BY <1>5 DEF G!Close
  <2>2. d \in DOMAIN entries /\ entries[d].observer = o
    BY <1>1, <1>5 DEF Followed
  <2>3. entries[d] \in EntrySet /\ DOMAIN entries = 1..Len(entries) /\ d \in Nat
    BY <1>1, <2>2, EntriesOf
  <2>4. left \in EntrySet /\ left.observer = None /\ left.observes = {}
    BY <2>3 DEF EntrySet
  <2>5. entries' \in Seq(EntrySet) /\ DOMAIN entries' = DOMAIN entries
        /\ \A e \in DOMAIN entries : entries'[e] = IF e = d THEN left ELSE entries[e]
    <3>1. entries' = [entries EXCEPT ![d] = left]
      BY <1>1, <2>1, <2>2
    <3> HIDE DEF left
    <3> QED
      BY <1>1, <2>2, <2>3, <2>4, <3>1, ExceptSeq DEF ObjectType
  <2> HIDE DEF left
  <2>6. /\ cache' \in Seq(Nat) /\ Len(cache') = Len(cache) + 1 /\ Len(cache) \in Nat
        /\ DOMAIN cache = 1..Len(cache) /\ DOMAIN cache' = 1..(Len(cache) + 1)
        /\ cache'[Len(cache) + 1] = d /\ \A i \in 1..Len(cache) : cache'[i] = cache[i]
    BY <1>1, <2>1, <2>3, AppendProperties, LenProperties DEF ObjectType
  <2>7. ObjectType'
    BY <1>1, <1>2, <1>3, <2>1, <2>5, <2>6 DEF ObjectType
  <2>8. CacheTrue'
    <3>1. CacheTrue
      BY DEF ObjectInv
    <3>2. \A i \in DOMAIN cache : cache[i] # d
      BY <1>1, <2>2, <3>1 DEF CacheTrue
    <3>3. ASSUME NEW i \in DOMAIN cache'
          PROVE  cache'[i] \in DOMAIN entries' /\ entries'[cache'[i]].observer = None /\ entries'[cache'[i]].observes = {}
      <4>1. CASE i = Len(cache) + 1
        BY <2>2, <2>4, <2>5, <2>6, <4>1
      <4>2. CASE i # Len(cache) + 1
        <5>1. i \in DOMAIN cache /\ cache'[i] = cache[i]
          BY <2>6, <4>2
        <5> QED
          BY <2>5, <3>1, <3>2, <5>1 DEF CacheTrue
      <4> QED
        BY <4>1, <4>2
    <3>4. ASSUME NEW i \in DOMAIN cache', NEW j \in DOMAIN cache', cache'[i] = cache'[j] PROVE i = j
      <4>1. CASE i \in DOMAIN cache /\ j \in DOMAIN cache
        BY <2>6, <3>1, <3>4, <4>1 DEF CacheTrue
      <4>2. CASE i \notin DOMAIN cache \/ j \notin DOMAIN cache
        BY <2>6, <3>2, <3>4, <4>2
      <4> QED
        BY <4>1, <4>2
    <3> QED
      BY <3>3, <3>4 DEF CacheTrue
  <2>9. ASSUME NEW e \in DOMAIN entries' PROVE Owned(e)'
    <3>1. Owned(e)
      BY <2>5 DEF ObjectInv
    <3>2. CASE e = d
      BY <2>2, <2>4, <2>5, <3>2 DEF Owned
    <3>3. CASE e # d
      BY <1>1, <1>2, <2>1, <2>5, <3>1, <3>3 DEF Owned, ObjectType
    <3> QED
      BY <3>2, <3>3
  <2>10. ASSUME NEW z \in Observer PROVE Followed(z)'
    <3>1. CASE z = o
      BY <1>1, <1>2, <3>1 DEF Followed, ObjectType
    <3>2. CASE z # o
      <4>1. Followed(z)
        BY DEF ObjectInv
      <4>2. state[z] = "opened" => direct[z] # d
        BY <1>5, <2>2, <3>2, <4>1 DEF Followed
      <4>3. state'[z] = state[z] /\ value'[z] = value[z] /\ known'[z] = known[z] /\ direct'[z] = direct[z]
        BY <1>1, <1>2, <2>1, <3>2 DEF ObjectType
      <4> QED
        BY <1>2, <1>5, <2>5, <4>1, <4>2, <4>3 DEF Followed
    <3> QED
      BY <3>1, <3>2
  <2> QED
    BY <1>1, <1>2, <1>5, <2>7, <2>8, <2>9, <2>10 DEF ObjectInv
<1> QED
  BY <1>4, <1>5

\* Opening takes one of the cache, or a new one.
LEMMA OpenObjectStep ==
  ASSUME ObjectInv, NEW o \in Observer, NEW x \in Obj, G!Open(o, x)
  PROVE  ObjectInv'
<1>1. ObjectType /\ CacheTrue /\ state[o] = "unopened" /\ None \notin Observer
  BY DEF ObjectInv, G!Open
<1>2. /\ state' = [state EXCEPT ![o] = "opened"] /\ value' = [value EXCEPT ![o] = x]
      /\ known' = [known EXCEPT ![o] = object[x]] /\ UNCHANGED <<hasObserve, object>>
  BY DEF G!Open
<1>3. object[x] \in [Property -> Val]
  BY <1>1 DEF ObjectType
<1>4. /\ state'[o] = "opened" /\ value'[o] = x /\ known'[o] = object[x]
      /\ \A z \in Observer : z # o => state'[z] = state[z] /\ value'[z] = value[z] /\ known'[z] = known[z]
  BY <1>1, <1>2 DEF ObjectType
<1>5. CASE ~hasObserve
  <2>1. oldObject' = [oldObject EXCEPT ![o] = object[x]] /\ UNCHANGED <<direct, entries, cache>>
    BY <1>5 DEF G!Open
  <2>2. ObjectType'
    BY <1>1, <1>2, <1>3, <2>1 DEF ObjectType
  <2>3. entries = << >> /\ DOMAIN entries = {}
    BY <1>5, EmptySeq DEF ObjectInv
  <2>4. ASSUME NEW z \in Observer PROVE Followed(z)'
    BY <1>1, <1>2, <1>4, <1>5, <2>1 DEF ObjectInv, Followed, ObjectType
  <2> QED
    BY <1>1, <1>2, <2>1, <2>2, <2>3, <2>4 DEF ObjectInv, CacheTrue, Owned
<1>6. CASE hasObserve
  <2> DEFINE opened == [observer |-> o, observes |-> {x}, records |-> << >>]
             d == IF cache = << >> THEN Len(entries) + 1 ELSE G!Last(cache)
  <2>1. /\ direct' = [direct EXCEPT ![o] = d] /\ oldObject' = oldObject
        /\ entries' = IF cache = << >> THEN Append(entries, opened) ELSE [entries EXCEPT ![d] = opened]
        /\ cache' = IF cache = << >> THEN cache ELSE G!Front(cache)
    BY <1>6 DEF G!Open, G!Taken
  <2>2. opened \in EntrySet /\ opened.observer = o /\ opened.observes = {x} /\ opened.records = << >>
    BY EmptySeq DEF EntrySet
  <2> HIDE DEF opened
  <2>3. /\ DOMAIN entries = 1..Len(entries) /\ Len(entries) \in Nat
        /\ DOMAIN cache = 1..Len(cache) /\ Len(cache) \in Nat
    BY <1>1, LenProperties DEF ObjectType
  <2>4. /\ d \in Nat /\ entries' \in Seq(EntrySet) /\ d \in DOMAIN entries' /\ entries'[d] = opened
        /\ DOMAIN entries \subseteq DOMAIN entries' /\ DOMAIN entries' \subseteq DOMAIN entries \cup {d}
        /\ \A e \in DOMAIN entries : e # d => entries'[e] = entries[e]
        /\ d \in DOMAIN entries => entries[d].observer = None
        /\ cache' \in Seq(Nat)
        /\ \A i \in DOMAIN cache' : i \in DOMAIN cache /\ cache'[i] = cache[i] /\ cache'[i] # d
    <3>1. CASE cache = << >>
      <4>1. d = Len(entries) + 1 /\ entries' = Append(entries, opened) /\ cache' = cache /\ Len(cache) = 0
        BY <2>1, <3>1, EmptySeq
      <4>2. /\ entries' \in Seq(EntrySet) /\ Len(entries') = Len(entries) + 1
            /\ \A i \in 1..Len(entries) : entries'[i] = entries[i]
            /\ entries'[Len(entries) + 1] = opened
        BY <1>1, <2>2, <4>1, AppendProperties DEF ObjectType
      <4>3. DOMAIN entries' = 1..(Len(entries) + 1)
        BY <4>2, LenProperties
      <4> HIDE DEF d
      <4> QED
        BY <1>1, <2>3, <4>1, <4>2, <4>3 DEF ObjectType
    <3>2. CASE cache # << >>
      <4>1. d = cache[Len(cache)] /\ entries' = [entries EXCEPT ![d] = opened] /\ cache' = SubSeq(cache, 1, Len(cache) - 1)
        BY <2>1, <3>2 DEF G!Last, G!Front
      <4> HIDE DEF d
      <4>2. Len(cache) > 0 /\ Len(cache) \in DOMAIN cache
        BY <1>1, <2>3, <3>2, EmptySeq DEF ObjectType
      <4>3. d \in DOMAIN entries /\ d \in Nat /\ entries[d].observer = None
        BY <1>1, <2>3, <4>1, <4>2 DEF CacheTrue
      <4>4. entries' \in Seq(EntrySet) /\ DOMAIN entries' = DOMAIN entries
            /\ \A e \in DOMAIN entries : entries'[e] = IF e = d THEN opened ELSE entries[e]
        BY <1>1, <2>2, <2>3, <4>1, <4>3, ExceptSeq DEF ObjectType
      <4>5. \A i \in 1..(Len(cache) - 1) : cache[i] \in Nat
        BY <1>1, <2>3, LenProperties DEF ObjectType
      <4>6. /\ cache' \in Seq(Nat) /\ Len(cache') = Len(cache) - 1
            /\ \A i \in 1..(Len(cache) - 1) : cache'[i] = cache[i]
        <5>1. /\ cache' \in Seq(Nat) /\ Len(cache') = IF 1 <= Len(cache) - 1 THEN (Len(cache) - 1) - 1 + 1 ELSE 0
              /\ \A i \in 1..((Len(cache) - 1) - 1 + 1) : cache'[i] = cache[1 + i - 1]
          BY <2>3, <4>1, <4>5, SubSeqProperties
        <5>2. (Len(cache) - 1) - 1 + 1 = Len(cache) - 1 /\ \A i \in Nat : 1 + i - 1 = i
          BY <2>3
        <5>3. Len(cache') = Len(cache) - 1
          <6>1. CASE 1 <= Len(cache) - 1
            <7>1. Len(cache') = (Len(cache) - 1) - 1 + 1
              BY <5>1, <6>1
            <7> QED
              BY <2>3, <7>1
          <6>2. CASE ~(1 <= Len(cache) - 1)
            <7>1. Len(cache') = 0
              BY <5>1, <6>2
            <7> QED
              BY <2>3, <4>2, <6>2, <7>1
          <6> QED
            BY <6>1, <6>2
        <5>4. ASSUME NEW i \in 1..(Len(cache) - 1) PROVE cache'[i] = cache[i]
          <6>1. i \in 1..((Len(cache) - 1) - 1 + 1) /\ 1 + i - 1 = i
            BY <5>2
          <6>2. cache'[i] = cache[1 + i - 1]
            BY <5>1, <6>1
          <6> QED
            BY <6>1, <6>2
        <5> QED
          BY <5>1, <5>3, <5>4
      <4>7. DOMAIN cache' = 1..(Len(cache) - 1)
        BY <4>6, LenProperties
      <4>8. ASSUME NEW i \in DOMAIN cache' PROVE i \in DOMAIN cache /\ cache'[i] = cache[i] /\ cache'[i] # d
        BY <1>1, <2>3, <4>1, <4>2, <4>6, <4>7 DEF CacheTrue
      <4> QED
        BY <4>3, <4>4, <4>6, <4>8
    <3> QED
      BY <3>1, <3>2
  <2> HIDE DEF d
  <2>5. direct'[o] = d /\ \A z \in Observer : z # o => direct'[z] = direct[z]
    BY <1>1, <2>1 DEF ObjectType
  <2>6. ObjectType'
    BY <1>1, <1>2, <1>3, <2>1, <2>4 DEF ObjectType
  <2>7. CacheTrue'
    BY <1>1, <2>4 DEF CacheTrue
  <2>8. ASSUME NEW e \in DOMAIN entries' PROVE Owned(e)'
    <3>1. CASE e = d
      BY <1>4, <2>2, <2>4, <2>5, <3>1 DEF Owned
    <3>2. CASE e # d
      <4>1. e \in DOMAIN entries /\ entries'[e] = entries[e] /\ Owned(e)
        BY <2>4, <3>2 DEF ObjectInv
      <4> QED
        BY <1>1, <1>4, <2>5, <4>1 DEF Owned
    <3> QED
      BY <3>1, <3>2
  <2>9. ASSUME NEW z \in Observer PROVE Followed(z)'
    <3>1. CASE z = o
      <4>1. Agrees(G!DiffOfAll(entries'[d].records), known'[o], object[x])
        BY <1>3, <1>4, <2>2, <2>4, AgreesStart, DiffOfAllSteps
      <4> QED
        BY <1>2, <1>4, <1>6, <2>2, <2>4, <2>5, <3>1, <4>1 DEF Followed
    <3>2. CASE z # o
      <4>1. Followed(z) /\ z # None
        BY DEF ObjectInv
      <4>2. state[z] = "opened" => direct[z] \in DOMAIN entries /\ direct[z] # d
        <5>1. state[z] = "opened" => direct[z] \in DOMAIN entries /\ entries[direct[z]].observer = z
          BY <1>6, <4>1 DEF Followed
        <5>2. d \in DOMAIN entries => entries[d].observer = None
          BY <2>4
        <5> QED
          BY <4>1, <5>1, <5>2
      <4>3. state'[z] = state[z] /\ value'[z] = value[z] /\ known'[z] = known[z] /\ direct'[z] = direct[z]
        BY <1>4, <2>5, <3>2
      <4>4. state[z] = "opened" =>
              direct[z] \in DOMAIN entries' /\ entries'[direct[z]] = entries[direct[z]]
        BY <2>4, <4>2
      <4> QED
        BY <1>2, <1>6, <4>1, <4>3, <4>4 DEF Followed
    <3> QED
      BY <3>1, <3>2
  <2> QED
    BY <1>1, <1>2, <1>6, <2>6, <2>7, <2>8, <2>9 DEF ObjectInv
<1> QED
  BY <1>5, <1>6

\* Every step keeps the invariant.
LEMMA ObjectStep == ObjectInv /\ [G!Next]_(G!vars) => ObjectInv'
<1> SUFFICES ASSUME ObjectInv, [G!Next]_(G!vars) PROVE ObjectInv'
  OBVIOUS
<1>1. CASE UNCHANGED G!vars
  BY <1>1 DEF G!vars, ObjectInv, ObjectType, CacheTrue, Owned, Followed
<1>2. ASSUME NEW x \in Obj, NEW n \in Property, NEW v \in Value \cup {Absent}, G!Write(x, n, v) PROVE ObjectInv'
  BY <1>2, WriteStep DEF Val
<1>3. ASSUME NEW o \in Observer, NEW x \in Obj, G!Open(o, x) PROVE ObjectInv'
  BY <1>3, OpenObjectStep
<1>4. ASSUME NEW o \in Observer, G!Close(o) PROVE ObjectInv'
  BY <1>4, CloseObjectStep
<1>5. ASSUME NEW o \in Observer, G!Deliver(o) PROVE ObjectInv'
  BY <1>5, HeardStep DEF G!Deliver
<1>6. ASSUME NEW e \in DOMAIN entries, G!Callback(e) PROVE ObjectInv'
  BY <1>6, CallbackStep
<1> QED
  BY <1>1, <1>2, <1>3, <1>4, <1>5, <1>6 DEF G!Next

\* A difference that leads from one version to another is that of the two.
LEMMA AgreesIsDifference ==
  ASSUME NEW old \in [Property -> Val], NEW new \in [Property -> Val], NEW records,
         Agrees(G!DiffOfAll(records), old, new)
  PROVE  LET diff == G!DiffFromChangeRecords(new, records)
             true == G!DiffFromOldObject(new, old)
         IN /\ diff.added = true.added /\ diff.removed = true.removed /\ diff.changed = true.changed
            /\ \A n \in diff.removed \cup diff.changed : diff.oldValues[n] = old[n]
<1> DEFINE d == G!DiffOfAll(records)
           diff == G!DiffFromChangeRecords(new, records)
           true == G!DiffFromOldObject(new, old)
           changed == {n \in d.seen \ (d.added \cup d.removed) : d.oldValues[n] # new[n]}
<1>1. /\ diff.added = d.added /\ diff.removed = d.removed /\ diff.oldValues = d.oldValues
      /\ diff.changed = changed
  BY DEF G!DiffFromChangeRecords
<1>2. /\ true.added = {n \in Property : G!Has(new, n) /\ ~G!Has(old, n)}
      /\ true.removed = {n \in Property : G!Has(old, n) /\ ~G!Has(new, n)}
      /\ true.changed = {n \in Property : G!Has(old, n) /\ G!Has(new, n) /\ new[n] # old[n]}
  BY DEF G!DiffFromOldObject
<1> HIDE DEF d, diff, true
<1>3. d.added \subseteq Property /\ d.removed \subseteq Property /\ d.seen \subseteq Property
  BY DEF Agrees, DiffSet, d
<1>4. ASSUME NEW n \in Property
      PROVE  /\ n \in d.seen => d.oldValues[n] = old[n]
             /\ n \notin d.seen => new[n] = old[n]
             /\ n \in d.added <=> G!Has(new, n) /\ ~G!Has(old, n)
             /\ n \in d.removed <=> G!Has(old, n) /\ ~G!Has(new, n)
  BY DEF Agrees, d
<1>5. diff.added = true.added /\ diff.removed = true.removed
  BY <1>1, <1>2, <1>3, <1>4
<1>6. diff.changed = true.changed
  <2>1. ASSUME NEW n \in Property PROVE n \in changed <=> n \in true.changed
    BY <1>2, <1>4 DEF G!Has
  <2>2. changed \subseteq Property /\ true.changed \subseteq Property
    BY <1>2, <1>3
  <2> QED
    BY <1>1, <2>1, <2>2
<1>7. ASSUME NEW n \in diff.removed \cup diff.changed PROVE diff.oldValues[n] = old[n]
  <2>1. n \in Property
    BY <1>1, <1>3, <1>7
  <2>2. n \in d.seen
    BY <1>1, <1>4, <1>7, <2>1 DEF G!Has
  <2> QED
    BY <1>1, <1>4, <2>1, <2>2
<1> QED
  BY <1>5, <1>6, <1>7 DEF diff, true

\* Which says what an observer is told, with and without Object.observe.
LEMMA ObjectSays == ObjectInv => G!ToldTheDifference
<1> SUFFICES ASSUME ObjectInv, NEW o \in Observer, state[o] = "opened"
             PROVE  LET diff == G!Diff(o)
                        true == G!DiffFromOldObject(object[value[o]], known[o])
                    IN /\ diff.added = true.added /\ diff.removed = true.removed /\ diff.changed = true.changed
                       /\ \A n \in diff.removed \cup diff.changed : diff.oldValues[n] = known[o][n]
  BY DEF G!ToldTheDifference, G!Opened
<1>1. known[o] \in [Property -> Val] /\ value[o] \in Obj /\ object[value[o]] \in [Property -> Val] /\ Followed(o)
  BY DEF ObjectInv, ObjectType, Followed
<1>2. CASE hasObserve
  BY <1>1, <1>2, AgreesIsDifference DEF Followed, G!Diff, G!Queue
<1>3. CASE ~hasObserve
  <2>1. G!Diff(o) = G!DiffFromOldObject(object[value[o]], known[o])
    BY <1>1, <1>3 DEF Followed, G!Diff
  <2> QED
    BY <2>1 DEF G!DiffFromOldObject
<1> QED
  BY <1>2, <1>3

\* An observer of an object is told the difference between what it knew and what
\* the object is, from the records of Object.observe or from a copy, through any
\* changes, closes and reuses of the entries (Object.observe/index.js, ObjectObserver.js).
THEOREM ObserversAreTold == Spec => []ToldTheDifference
<1> DEFINE Inv == scene = "object" => ObjectInv
<1> USE ClientAssumption
<1>1. Init => Inv
  BY ObjectInit DEF Init
<1>2. Inv /\ [Next]_clientVars => Inv'
  <2> SUFFICES ASSUME Inv, [Next]_clientVars PROVE Inv'
    OBVIOUS
  <2>1. scene' = scene
    BY DEF Next, clientVars
  <2>2. ASSUME scene = "object" PROVE [G!Next]_(G!vars)
    BY <2>2 DEF Next, clientVars, objectVars, G!vars
  <2> QED
    BY <2>1, <2>2, ObjectStep
<1>3. Inv => ToldTheDifference
  BY ObjectSays DEF ToldTheDifference
<1> QED
  BY <1>1, <1>2, <1>3, PTL DEF Spec
=============================================================================
