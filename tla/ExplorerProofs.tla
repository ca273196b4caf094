--------------------------- MODULE ExplorerProofs ---------------------------
(***************************************************************************)
(* For any set of nodes and any events: what the explorer does to its tree *)
(* leaves a tree, and a moved node lands where it was asked.  What is      *)
(* undone leads back, and both menus keep one option of each kind.         *)
(*                                                                         *)
(* The drawing, the states and the selection are framed out first: they    *)
(* leave the children and the parents as they are (Same), so that an       *)
(* action comes to a node that leaves its parent (Leaves), that gets one   *)
(* (Joins), or both.  A node that leaves puts nobody above another, one    *)
(* that joins p is above p only if it was, which move prevents and which   *)
(* the root being above p excludes for a node out of the tree.  The places *)
(* in a list come from RemoveFirst and InsertAt taking the list apart at   *)
(* an index (Without, With), whatever side of it the node came from.       *)
(*                                                                         *)
(* Then what the user asks of the tree (Controls), for any places, sides   *)
(* and menus.  UndoLeadsBack speaks of the demon at rest.  DemonInv says,  *)
(* while a stack is treated, where the rest of its calls and the deferred  *)
(* stacks lead, and that the entries of the list they came from lead on    *)
(* from there; of the other list, that its entries start where the calls   *)
(* that were done lead when they are undone.  Every call of undo and redo  *)
(* can then pass, as its reverse could.  ManagerInv says which messages    *)
(* there are on either way, and that of demand, action and result there is *)
(* one.                                                                    *)
(*                                                                         *)
(* A step of a menu is made of operations that call one another.  MenuFit  *)
(* and TreeMenuFit say what each of them keeps, also in the middle of a    *)
(* step: the open groups, the chosen radios, the timers that are about     *)
(* groups, the option lit for the menu of a tree and, in TreeMenuLent,     *)
(* that a separator is lent to the option before a hidden one only.  What  *)
(* else is lit or open is put right by the end of the step (MenuLit,       *)
(* TreeMenuOpen).  Opening the menu of a tree asks its options one by one  *)
(* what they are for a node: what each answer keeps, the last one has kept *)
(* (WalkExists).                                                           *)
(***************************************************************************)
EXTENDS Explorer, Controls, FiniteSetTheorems, SequenceTheorems, WellFoundedInduction, TLAPS

-----------------------------------------------------------------------------
(***************************************************************************)
(* The nodes above a node.                                                 *)
(***************************************************************************)
\* The fields of a tree.
TypeOK(t) == t.kids \in [Node -> Seq(Node)] /\ t.up \in [Node -> Node \cup {None}]

\* A set with the parents of its nodes.
Upward(t, S) == S \subseteq Node /\ \A x \in S : t.up[x] \in S \cup {None}

\* A node is above itself, and Above is the least set with the parents of its nodes.
LEMMA AboveBasics ==
  ASSUME NEW t, TypeOK(t), NEW n \in Node
  PROVE  /\ n \in Above(t, n)
         /\ Upward(t, Above(t, n))
         /\ \A S : Upward(t, S) /\ n \in S => Above(t, n) \subseteq S
<1>1. n \in Above(t, n)
  BY DEF Above
<1>2. Above(t, n) \subseteq Node
  BY DEF Above
<1>3. ASSUME NEW x \in Above(t, n) PROVE t.up[x] \in Above(t, n) \cup {None}
  <2>1. t.up[x] \in Node \cup {None}
    BY <1>2 DEF TypeOK
  <2> QED
    BY <2>1 DEF Above
<1>4. ASSUME NEW S, Upward(t, S), n \in S PROVE Above(t, n) \subseteq S
  BY <1>4 DEF Upward, Above
<1> QED
  BY <1>1, <1>2, <1>3, <1>4 DEF Upward

\* Whoever is above a node above n is above n.
LEMMA AboveMonotonic ==
  ASSUME NEW t, TypeOK(t), NEW n \in Node, NEW m \in Above(t, n)
  PROVE  Above(t, m) \subseteq Above(t, n)
<1>1. Upward(t, Above(t, n)) /\ m \in Node
  BY AboveBasics DEF Upward
<1> QED
  BY <1>1, AboveBasics

\* Another node above n is above the parent of n.
LEMMA AboveParent ==
  ASSUME NEW t, TypeOK(t), NEW n \in Node, NEW m \in Above(t, n), m # n
  PROVE  t.up[n] \in Node /\ m \in Above(t, t.up[n])
<1>1. CASE t.up[n] = None
  <2>1. Upward(t, {n})
    BY <1>1 DEF Upward
  <2> QED
    BY <2>1, AboveBasics
<1>2. CASE t.up[n] \in Node
  <2> DEFINE S == {n} \cup Above(t, t.up[n])
  <2>1. Upward(t, Above(t, t.up[n])) /\ t.up[n] \in Above(t, t.up[n])
    BY <1>2, AboveBasics
  <2>2. Upward(t, S)
    BY <2>1 DEF Upward
  <2>3. Above(t, n) \subseteq S
    BY <2>2, AboveBasics
  <2> QED
    BY <1>2, <2>3
<1> QED
  BY <1>1, <1>2 DEF TypeOK

\* Two trees with the same parents have the same nodes above each.
LEMMA AboveSame ==
  ASSUME NEW t, NEW w, w.up = t.up, NEW n
  PROVE  Above(w, n) = Above(t, n)
BY DEF Above

\* A node that leaves: nobody gets another node above.
LEMMA AboveLess ==
  ASSUME NEW t, TypeOK(t), NEW w, TypeOK(w), NEW n \in Node,
         w.up = [t.up EXCEPT ![n] = None], NEW m \in Node
  PROVE  Above(w, m) \subseteq Above(t, m)
<1>1. Upward(t, Above(t, m)) /\ m \in Above(t, m)
  BY AboveBasics
<1>2. Upward(w, Above(t, m))
  BY <1>1 DEF Upward, TypeOK
<1> QED
  BY <1>1, <1>2, AboveBasics

\* A node without a parent gets one: it is above the same nodes as before, and
\* what is above it now is above them.
LEMMA AboveMore ==
  ASSUME NEW t, TypeOK(t), NEW w, TypeOK(w), NEW n \in Node, NEW p \in Node,
         w.up = [t.up EXCEPT ![n] = p], t.up[n] = None, NEW m \in Node
  PROVE  Above(w, m) \subseteq Above(t, m) \cup Above(t, p) /\ (n \notin Above(t, m) => Above(w, m) = Above(t, m))
<1>1. /\ Upward(t, Above(t, m)) /\ m \in Above(t, m)
      /\ Upward(t, Above(t, p)) /\ p \in Above(t, p)
  BY AboveBasics
<1>2. Upward(w, Above(t, m) \cup Above(t, p))
  BY <1>1 DEF Upward, TypeOK
<1>3. ASSUME n \notin Above(t, m) PROVE Above(w, m) = Above(t, m)
  <2>1. Upward(w, Above(t, m))
    BY <1>1, <1>3 DEF Upward, TypeOK
  <2>2. Above(w, m) \subseteq Above(t, m)
    BY <2>1, <1>1, AboveBasics
  <2>3. Upward(w, Above(w, m)) /\ m \in Above(w, m)
    BY AboveBasics
  <2>4. Upward(t, Above(w, m))
    BY <2>2, <2>3, <1>3 DEF Upward, TypeOK
  <2> QED
    BY <2>2, <2>3, <2>4, AboveBasics
<1> QED
  BY <1>1, <1>2, <1>3, AboveBasics

-----------------------------------------------------------------------------
(***************************************************************************)
(* Lists without repetition.                                               *)
(***************************************************************************)
Once(s) == \A i, j \in 1..Len(s) : s[i] = s[j] => i = j

\* What a list of children is.
LEMMA ListProperties ==
  ASSUME NEW s \in Seq(Node)
  PROVE  /\ Len(s) \in Nat /\ DOMAIN s = 1..Len(s)
         /\ \A i \in 1..Len(s) : s[i] \in Node
BY LenProperties

\* IsTree counts a list to say that it has no repetition.
LEMMA OnceCardinality ==
  ASSUME NEW s \in Seq(Node)
  PROVE  Cardinality(ToSet(s)) = Len(s) <=> Once(s)
<1>1. Len(s) \in Nat /\ DOMAIN s = 1..Len(s) /\ s \in [1..Len(s) -> Node]
  BY LenProperties
<1>2. s \in Surjection(1..Len(s), ToSet(s))
  BY <1>1 DEF Surjection, ToSet
<1>3. IsFiniteSet(1..Len(s)) /\ Cardinality(1..Len(s)) = Len(s)
  BY <1>1, FS_Interval
<1>4. Cardinality(ToSet(s)) = Len(s) <=> s \in Injection(1..Len(s), ToSet(s))
  BY <1>2, <1>3, FS_Surjection
<1>5. s \in [1..Len(s) -> ToSet(s)]
  BY <1>1 DEF ToSet
<1>6. s \in Injection(1..Len(s), ToSet(s)) <=> Once(s)
  BY <1>5 DEF Injection, IsInjective, Once
<1> QED
  BY <1>4, <1>6

\* The place that a list without repetition has for one of its nodes.
LEMMA PlaceInOnce ==
  ASSUME NEW s \in Seq(Node), Once(s), NEW i \in 1..Len(s)
  PROVE  SelectInSeq(s, LAMBDA m : m = s[i]) = i
<1> DEFINE I == {j \in 1..Len(s) : s[j] = s[i]}
<1>1. I = {i}
  BY DEF Once
<1>2. Min({i}) = i
  BY ListProperties DEF Min
<1> QED
  BY <1>1, <1>2 DEF SelectInSeq

\* indexOf from 0.
LEMMA IndexInOnce ==
  ASSUME NEW s \in Seq(Node), Once(s), NEW i \in 1..Len(s)
  PROVE  IndexIn(s, s[i]) = i - 1
BY PlaceInOnce DEF IndexIn

\* What is left without the node at a place.
Without(s, i) == [j \in 1..(Len(s) - 1) |-> IF j < i THEN s[j] ELSE s[j + 1]]

\* What a list is with a node put at a place.
With(s, k, n) ==
  [j \in 1..(Len(s) + 1) |-> IF j < k THEN s[j] ELSE IF j = k THEN n ELSE s[j - 1]]

\* One place less holds the same nodes but one.
LEMMA WithoutList ==
  ASSUME NEW s \in Seq(Node), Once(s), NEW i \in 1..Len(s)
  PROVE  /\ Without(s, i) \in Seq(Node)
         /\ Len(Without(s, i)) = Len(s) - 1
         /\ Once(Without(s, i))
         /\ \A m : Contains(Without(s, i), m) <=> Contains(s, m) /\ m # s[i]
<1> DEFINE r == Without(s, i)
<1>1. Len(s) \in Nat /\ \A j \in 1..Len(s) : s[j] \in Node
  BY ListProperties
<1>2. r \in [1..(Len(s) - 1) -> Node]
  BY <1>1 DEF Without
<1>3. r \in Seq(Node) /\ Len(r) = Len(s) - 1
  BY <1>1, <1>2
<1>4. \A j \in 1..Len(r) : r[j] = IF j < i THEN s[j] ELSE s[j + 1]
  BY <1>3 DEF Without
<1>5. Once(r)
  <2> DEFINE from(j) == IF j < i THEN j ELSE j + 1
  <2>1. \A j \in 1..Len(r) : from(j) \in 1..Len(s) /\ r[j] = s[from(j)]
    BY <1>1, <1>3, <1>4
  <2>2. \A j, k \in 1..Len(r) : from(j) = from(k) => j = k
    BY <1>1, <1>3
  <2> HIDE DEF r, from
  <2> QED
    BY <2>1, <2>2 DEF Once
<1>6. ASSUME NEW m, Contains(r, m) PROVE Contains(s, m) /\ m # s[i]
  <2>1. PICK j \in 1..Len(r) : r[j] = m
    BY <1>6 DEF Contains
  <2>2. CASE j < i
    <3>1. j \in 1..Len(s) /\ s[j] = m /\ j # i
      BY <1>1, <1>3, <1>4, <2>1, <2>2
    <3> QED
      BY <3>1 DEF Contains, Once
  <2>3. CASE ~(j < i)
    <3>1. j + 1 \in 1..Len(s) /\ s[j + 1] = m /\ j + 1 # i
      BY <1>1, <1>3, <1>4, <2>1, <2>3
    <3> QED
      BY <3>1 DEF Contains, Once
  <2> QED
    BY <2>2, <2>3
<1>7. ASSUME NEW m, Contains(s, m), m # s[i] PROVE Contains(r, m)
  <2>1. PICK j \in 1..Len(s) : s[j] = m
    BY <1>7 DEF Contains
  <2>2. CASE j < i
    <3>1. j \in 1..Len(r) /\ r[j] = m
      BY <1>1, <1>3, <1>4, <2>1, <2>2
    <3> QED
      BY <3>1 DEF Contains
  <2>3. CASE j > i
    <3>1. j - 1 \in 1..Len(r) /\ r[j - 1] = m
      BY <1>1, <1>3, <1>4, <2>1, <2>3
    <3> QED
      BY <3>1 DEF Contains
  <2> QED
    BY <1>7, <2>1, <2>2, <2>3
<1> HIDE DEF r
<1> QED
  BY <1>3, <1>5, <1>6, <1>7 DEF r

\* The first occurrence is the only one.
LEMMA RemoveFirstOnce ==
  ASSUME NEW s \in Seq(Node), Once(s), NEW i \in 1..Len(s)
  PROVE  RemoveFirst(s, s[i]) = Without(s, i)
<1>1. Len(s) \in Nat /\ \A j \in 1..Len(s) : s[j] \in Node
  BY ListProperties
<1>2. RemoveFirst(s, s[i]) = SubSeq(s, 1, i - 1) \o SubSeq(s, i + 1, Len(s))
  BY PlaceInOnce DEF RemoveFirst, RemoveAt
<1> DEFINE a == SubSeq(s, 1, i - 1)
           b == SubSeq(s, i + 1, Len(s))
<1>3. /\ a \in Seq(Node) /\ Len(a) = i - 1
      /\ \A j \in 1..(i - 1) : a[j] = s[j]
  BY <1>1, SubSeqProperties
<1>4. /\ b \in Seq(Node) /\ Len(b) = Len(s) - i
      /\ \A j \in 1..(Len(s) - i) : b[j] = s[j + i]
  BY <1>1, SubSeqProperties
<1> HIDE DEF a, b
<1>5. /\ a \o b \in Seq(Node) /\ Len(a \o b) = Len(s) - 1
      /\ \A j \in 1..(Len(s) - 1) : (a \o b)[j] = IF j < i THEN s[j] ELSE s[j + 1]
  <2>1. /\ a \o b \in Seq(Node) /\ Len(a \o b) = Len(a) + Len(b)
        /\ \A j \in 1..(Len(a) + Len(b)) : (a \o b)[j] = IF j <= Len(a) THEN a[j] ELSE b[j - Len(a)]
    BY <1>3, <1>4, ConcatProperties
  <2>2. Len(a) + Len(b) = Len(s) - 1
    BY <1>1, <1>3, <1>4
  <2>3. ASSUME NEW j \in 1..(Len(s) - 1), j < i PROVE (a \o b)[j] = s[j]
    BY <1>1, <1>3, <2>1, <2>2, <2>3
  <2>4. ASSUME NEW j \in 1..(Len(s) - 1), ~(j < i) PROVE (a \o b)[j] = s[j + 1]
    <3>1. (a \o b)[j] = b[j - (i - 1)] /\ j - (i - 1) \in 1..(Len(s) - i)
      BY <1>1, <1>3, <2>1, <2>2, <2>4
    <3>2. b[j - (i - 1)] = s[(j - (i - 1)) + i] /\ (j - (i - 1)) + i = j + 1
      BY <1>1, <1>4, <3>1
    <3> QED
      BY <3>1, <3>2
  <2> QED
    BY <2>1, <2>2, <2>3, <2>4
<1>6. /\ Without(s, i) \in Seq(Node) /\ Len(Without(s, i)) = Len(s) - 1
      /\ \A j \in 1..(Len(s) - 1) : Without(s, i)[j] = IF j < i THEN s[j] ELSE s[j + 1]
  BY WithoutList DEF Without
<1>7. a \o b = Without(s, i)
  BY <1>5, <1>6, SeqEqual
<1> QED
  BY <1>2, <1>7 DEF a, b

\* insertAt, place by place.
LEMMA InsertAtWith ==
  ASSUME NEW s \in Seq(Node), NEW k \in 1..(Len(s) + 1), NEW n \in Node
  PROVE  InsertAt(s, k, n) = With(s, k, n)
<1>1. Len(s) \in Nat /\ \A j \in 1..Len(s) : s[j] \in Node
  BY ListProperties
<1> DEFINE a == SubSeq(s, 1, k - 1)
           b == SubSeq(s, k, Len(s))
           c == a \o <<n>>
<1>2. /\ a \in Seq(Node) /\ Len(a) = k - 1
      /\ \A j \in 1..(k - 1) : a[j] = s[j]
  BY <1>1, SubSeqProperties
<1>3. /\ b \in Seq(Node) /\ Len(b) = Len(s) - k + 1
      /\ \A j \in 1..(Len(s) - k + 1) : b[j] = s[j + k - 1]
  BY <1>1, SubSeqProperties
<1> HIDE DEF a, b
<1>4. <<n>> \in Seq(Node) /\ Len(<<n>>) = 1 /\ <<n>>[1] = n
  OBVIOUS
<1>5. /\ c \in Seq(Node) /\ Len(c) = k
      /\ \A j \in 1..k : c[j] = IF j < k THEN s[j] ELSE n
  <2>1. c \in Seq(Node) /\ Len(c) = k
    BY <1>2, <1>4, ConcatProperties
  <2>2. \A j \in 1..(Len(a) + Len(<<n>>)) : c[j] = IF j <= Len(a) THEN a[j] ELSE <<n>>[j - Len(a)]
    BY <1>2, <1>4, ConcatProperties
  <2> QED
    BY <1>2, <1>4, <2>1, <2>2
<1> HIDE DEF c
<1>6. /\ c \o b \in Seq(Node) /\ Len(c \o b) = Len(s) + 1
      /\ \A j \in 1..(Len(s) + 1) :
           (c \o b)[j] = IF j < k THEN s[j] ELSE IF j = k THEN n ELSE s[j - 1]
  <2>1. c \o b \in Seq(Node) /\ Len(c \o b) = Len(s) + 1
    <3>1. c \o b \in Seq(Node) /\ Len(c \o b) = Len(c) + Len(b)
      BY <1>3, <1>5, ConcatProperties
    <3>2. Len(c) + Len(b) = Len(s) + 1
      BY <1>1, <1>3, <1>5
    <3> QED
      BY <3>1, <3>2
  <2>2. \A j \in 1..(Len(c) + Len(b)) : (c \o b)[j] = IF j <= Len(c) THEN c[j] ELSE b[j - Len(c)]
    BY <1>3, <1>5, ConcatProperties
  <2>3. ASSUME NEW j \in 1..(Len(s) + 1)
        PROVE (c \o b)[j] = IF j < k THEN s[j] ELSE IF j = k THEN n ELSE s[j - 1]
    <3>1. CASE j <= k
      BY <1>1, <1>3, <1>5, <2>2, <3>1
    <3>2. CASE j > k
      <4>1. (c \o b)[j] = b[j - k] /\ j - k \in 1..(Len(s) - k + 1)
        BY <1>1, <1>3, <1>5, <2>2, <3>2
      <4>2. b[j - k] = s[(j - k) + k - 1] /\ (j - k) + k - 1 = j - 1
        BY <1>1, <1>3, <4>1
      <4> QED
        BY <3>2, <4>1, <4>2
    <3>3. j <= k \/ j > k
      BY <1>1
    <3> QED
      BY <3>1, <3>2, <3>3
  <2> QED
    BY <2>1, <2>3
<1>7. With(s, k, n) \in [1..(Len(s) + 1) -> Node]
  BY <1>1 DEF With
<1>8. /\ With(s, k, n) \in Seq(Node) /\ Len(With(s, k, n)) = Len(s) + 1
      /\ \A j \in 1..(Len(s) + 1) :
           With(s, k, n)[j] = IF j < k THEN s[j] ELSE IF j = k THEN n ELSE s[j - 1]
  BY <1>1, <1>7 DEF With
<1>9. c \o b = With(s, k, n)
  BY <1>6, <1>8, SeqEqual
<1> QED
  BY <1>9 DEF InsertAt, a, b, c

\* One place more holds the same nodes and the new one, once if it was not there.
LEMMA WithList ==
  ASSUME NEW s \in Seq(Node), NEW k \in 1..(Len(s) + 1), NEW n \in Node
  PROVE  /\ With(s, k, n) \in Seq(Node)
         /\ Len(With(s, k, n)) = Len(s) + 1
         /\ \A m : Contains(With(s, k, n), m) <=> Contains(s, m) \/ m = n
         /\ Once(s) /\ ~Contains(s, n) => Once(With(s, k, n))
<1> DEFINE r == With(s, k, n)
<1>1. Len(s) \in Nat /\ \A j \in 1..Len(s) : s[j] \in Node
  BY ListProperties
<1>2. r \in [1..(Len(s) + 1) -> Node]
  BY <1>1 DEF With
<1>3. r \in Seq(Node) /\ Len(r) = Len(s) + 1
  BY <1>1, <1>2
<1>4. \A j \in 1..Len(r) : r[j] = IF j < k THEN s[j] ELSE IF j = k THEN n ELSE s[j - 1]
  BY <1>3 DEF With
<1> HIDE DEF r
<1>5. ASSUME NEW m, Contains(r, m) PROVE Contains(s, m) \/ m = n
  <2>1. PICK j \in 1..Len(r) : r[j] = m
    BY <1>5 DEF Contains
  <2>2. CASE j < k
    BY <1>1, <1>3, <1>4, <2>1, <2>2 DEF Contains
  <2>3. CASE j = k
    BY <1>4, <2>1, <2>3
  <2>4. CASE j > k
    <3>1. j - 1 \in 1..Len(s) /\ s[j - 1] = m
      BY <1>1, <1>3, <1>4, <2>1, <2>4
    <3> QED
      BY <3>1 DEF Contains
  <2> QED
    BY <1>1, <1>3, <2>2, <2>3, <2>4
<1>6. ASSUME NEW m, Contains(s, m) \/ m = n PROVE Contains(r, m)
  <2>1. CASE m = n
    <3>1. k \in 1..Len(r) /\ r[k] = n
      BY <1>1, <1>3, <1>4
    <3> QED
      BY <2>1, <3>1 DEF Contains
  <2>2. CASE Contains(s, m)
    <3>1. PICK j \in 1..Len(s) : s[j] = m
      BY <2>2 DEF Contains
    <3>2. CASE j < k
      <4>1. j \in 1..Len(r) /\ r[j] = m
        BY <1>1, <1>3, <1>4, <3>1, <3>2
      <4> QED
        BY <4>1 DEF Contains
    <3>3. CASE j >= k
      <4>1. j + 1 \in 1..Len(r) /\ r[j + 1] = m
        BY <1>1, <1>3, <1>4, <3>1, <3>3
      <4> QED
        BY <4>1 DEF Contains
    <3> QED
      BY <1>1, <3>2, <3>3
  <2> QED
    BY <1>6, <2>1, <2>2
<1>7. ASSUME Once(s), ~Contains(s, n), NEW i \in 1..Len(r), NEW j \in 1..Len(r), r[i] = r[j]
      PROVE  i = j
  <2>1. \A x \in 1..Len(s) : s[x] # n
    BY <1>7 DEF Contains
  <2>2. \A x, y \in 1..Len(s) : s[x] = s[y] => x = y
    BY <1>7 DEF Once
  <2> DEFINE Old(x) == IF x < k THEN x ELSE x - 1
  <2>3. \A x \in 1..Len(r) : x # k => Old(x) \in 1..Len(s) /\ r[x] = s[Old(x)]
    BY <1>1, <1>3, <1>4
  <2>4. \A x \in 1..Len(r) : x # k => r[x] # n
    BY <2>1, <2>3
  <2>5. r[k] = n
    BY <1>1, <1>3, <1>4
  <2>6. CASE i = k \/ j = k
    BY <1>7, <2>4, <2>5, <2>6
  <2>7. CASE i # k /\ j # k
    <3>1. Old(i) = Old(j)
      BY <1>7, <2>2, <2>3, <2>7
    <3> QED
      BY <1>1, <1>3, <2>7, <3>1
  <2> QED
    BY <2>6, <2>7
<1>8. Once(s) /\ ~Contains(s, n) => Once(r)
  BY <1>7 DEF Once
<1> QED
  BY <1>3, <1>5, <1>6, <1>8 DEF r
-----------------------------------------------------------------------------
(***************************************************************************)
(* A tree w that t becomes when n leaves its parent, or gets the parent p. *)
(***************************************************************************)
Leaves(t, w, n) ==
  /\ w.kids = [t.kids EXCEPT ![t.up[n]] = RemoveFirst(@, n)]
  /\ w.up = [t.up EXCEPT ![n] = None]

Joins(t, w, p, n, at) ==
  /\ w.kids = [t.kids EXCEPT ![p] = InsertAt(@, Limit(at, Len(@)) + 1, n)]
  /\ w.up = [t.up EXCEPT ![n] = p]

GoodTree(t) == TypeOK(t) /\ IsTree(t)

\* The three things that make a tree one, apart.
LEMMA GoodTreeFacts ==
  ASSUME NEW t, TypeOK(t)
  PROVE  IsTree(t) <=>
           /\ \A n, p \in Node : t.up[n] = p <=> Contains(t.kids[p], n)
           /\ \A n \in Node : Once(t.kids[n])
           /\ \A n \in Node : t.up[n] # None => n \notin Above(t, t.up[n])
           /\ t.up[Root] = None
<1>1. \A n \in Node : t.kids[n] \in Seq(Node)
  BY DEF TypeOK
<1>2. \A n \in Node : Cardinality(ToSet(t.kids[n])) = Len(t.kids[n]) <=> Once(t.kids[n])
  BY <1>1, OnceCardinality
<1> QED
  BY <1>2 DEF IsTree, Holds

\* A node has its place among the children of its parent.
LEMMA PlaceOfNode ==
  ASSUME NEW t, GoodTree(t), NEW n \in Node, t.up[n] \in Node
  PROVE  /\ t.kids[t.up[n]] \in Seq(Node) /\ Once(t.kids[t.up[n]])
         /\ \E i \in 1..Len(t.kids[t.up[n]]) :
              t.kids[t.up[n]][i] = n /\ GetIndex(t, n) = i - 1
<1>1. /\ t.kids[t.up[n]] \in Seq(Node) /\ Once(t.kids[t.up[n]])
      /\ Contains(t.kids[t.up[n]], n)
  BY GoodTreeFacts DEF GoodTree, TypeOK
<1>2. PICK i \in 1..Len(t.kids[t.up[n]]) : t.kids[t.up[n]][i] = n
  BY <1>1 DEF Contains
<1>3. IndexIn(t.kids[t.up[n]], n) = i - 1
  BY <1>1, <1>2, IndexInOnce
<1>4. GetIndex(t, n) = i - 1
  BY <1>3, TreeAssumption DEF GetIndex, Siblings
<1> QED
  BY <1>1, <1>2, <1>4

\* A node that leaves its parent leaves a tree.
LEMMA LeavesTree ==
  ASSUME NEW t, GoodTree(t), NEW n \in Node, t.up[n] \in Node, NEW w, Leaves(t, w, n)
  PROVE  GoodTree(w)
<1> DEFINE q == t.up[n]
           s == t.kids[q]
<1>1. s \in Seq(Node) /\ Once(s)
  BY PlaceOfNode
<1>2. PICK i \in 1..Len(s) : s[i] = n
  BY PlaceOfNode
<1>3. RemoveFirst(s, n) = Without(s, i)
  BY <1>1, <1>2, RemoveFirstOnce
<1>4. /\ Without(s, i) \in Seq(Node) /\ Once(Without(s, i))
      /\ \A m : Contains(Without(s, i), m) <=> Contains(s, m) /\ m # n
  BY <1>1, <1>2, WithoutList
<1>5. /\ t.kids \in [Node -> Seq(Node)] /\ t.up \in [Node -> Node \cup {None}]
      /\ \A m, p \in Node : t.up[m] = p <=> Contains(t.kids[p], m)
      /\ \A m \in Node : Once(t.kids[m])
      /\ \A m \in Node : t.up[m] # None => m \notin Above(t, t.up[m])
      /\ t.up[Root] = None
  BY GoodTreeFacts DEF GoodTree, TypeOK
<1>6. /\ w.kids = [t.kids EXCEPT ![q] = Without(s, i)]
      /\ w.up = [t.up EXCEPT ![n] = None]
  BY <1>3, <1>5 DEF Leaves
<1>7. TypeOK(w)
  BY <1>4, <1>5, <1>6 DEF TypeOK
<1>8. \A m, p \in Node : w.up[m] = p <=> Contains(w.kids[p], m)
  <2> SUFFICES ASSUME NEW m \in Node, NEW p \in Node
               PROVE  w.up[m] = p <=> Contains(w.kids[p], m)
    OBVIOUS
  <2>1. w.up[m] = IF m = n THEN None ELSE t.up[m]
    BY <1>5, <1>6
  <2>2. CASE p = q
    <3>1. w.kids[p] = Without(s, i)
      BY <1>5, <1>6, <2>2
    <3>2. Contains(w.kids[p], m) <=> Contains(s, m) /\ m # n
      BY <3>1, <1>4
    <3>3. t.up[m] = p <=> Contains(s, m)
      BY <1>5, <2>2
    <3> QED
      BY <2>1, <3>2, <3>3, TreeAssumption
  <2>3. CASE p # q
    <3>1. w.kids[p] = t.kids[p]
      BY <1>5, <1>6, <2>3
    <3>2. t.up[m] = p <=> Contains(t.kids[p], m)
      BY <1>5
    <3> QED
      BY <2>1, <2>3, <3>1, <3>2, TreeAssumption
  <2> QED
    BY <2>2, <2>3
<1>9. \A m \in Node : Once(w.kids[m])
  BY <1>4, <1>5, <1>6
<1>10. ASSUME NEW m \in Node, w.up[m] # None PROVE m \notin Above(w, w.up[m])
  <2>1. w.up[m] = t.up[m] /\ t.up[m] \in Node
    BY <1>5, <1>6, <1>10
  <2>2. Above(w, t.up[m]) \subseteq Above(t, t.up[m])
    BY <2>1, <1>6, <1>7, AboveLess DEF GoodTree
  <2> QED
    BY <1>5, <2>1, <2>2, TreeAssumption
<1>11. w.up[Root] = None
  BY <1>5, <1>6, TreeAssumption
<1> QED
  BY <1>7, <1>8, <1>9, <1>10, <1>11, GoodTreeFacts DEF GoodTree

\* The index adopt is given, limited to the list.
LEMMA PlaceToJoin ==
  ASSUME NEW s \in Seq(Node), NEW at \in Nat
  PROVE  /\ Limit(at, Len(s)) + 1 \in 1..(Len(s) + 1)
         /\ at \in 0..Len(s) => Limit(at, Len(s)) = at
BY ListProperties DEF Limit

\* A node out of the branch it joins leaves a tree.
LEMMA JoinsTree ==
  ASSUME NEW t, GoodTree(t), NEW n \in Inner, t.up[n] = None, NEW p \in Node, n \notin Above(t, p),
         NEW at \in Nat, NEW w, Joins(t, w, p, n, at)
  PROVE  GoodTree(w)
<1> DEFINE s == t.kids[p]
           k == Limit(at, Len(s)) + 1
<1>1. /\ t.kids \in [Node -> Seq(Node)] /\ t.up \in [Node -> Node \cup {None}]
      /\ \A m, q \in Node : t.up[m] = q <=> Contains(t.kids[q], m)
      /\ \A m \in Node : Once(t.kids[m])
      /\ \A m \in Node : t.up[m] # None => m \notin Above(t, t.up[m])
      /\ t.up[Root] = None
  BY GoodTreeFacts DEF GoodTree, TypeOK
<1>2. s \in Seq(Node) /\ k \in 1..(Len(s) + 1) /\ n \in Node /\ n # Root
  BY <1>1, PlaceToJoin DEF Inner
<1>3. ~Contains(s, n) /\ Once(s)
  BY <1>1, <1>2, TreeAssumption
<1> HIDE DEF k
<1>4. InsertAt(s, k, n) = With(s, k, n)
  BY <1>2, InsertAtWith
<1>5. /\ With(s, k, n) \in Seq(Node) /\ Once(With(s, k, n))
      /\ \A m : Contains(With(s, k, n), m) <=> Contains(s, m) \/ m = n
  BY <1>2, <1>3, WithList
<1>6. /\ w.kids = [t.kids EXCEPT ![p] = With(s, k, n)]
      /\ w.up = [t.up EXCEPT ![n] = p]
  BY <1>1, <1>4 DEF Joins, k
<1>7. TypeOK(w)
  BY <1>1, <1>2, <1>5, <1>6 DEF TypeOK
<1>8. \A m, q \in Node : w.up[m] = q <=> Contains(w.kids[q], m)
  <2> SUFFICES ASSUME NEW m \in Node, NEW q \in Node
               PROVE  w.up[m] = q <=> Contains(w.kids[q], m)
    OBVIOUS
  <2>1. w.up[m] = IF m = n THEN p ELSE t.up[m]
    BY <1>1, <1>6
  <2>2. CASE q = p
    <3>1. w.kids[q] = With(s, k, n)
      BY <1>1, <1>6, <2>2
    <3>2. Contains(w.kids[q], m) <=> Contains(s, m) \/ m = n
      BY <3>1, <1>5
    <3>3. t.up[m] = q <=> Contains(s, m)
      BY <1>1, <2>2
    <3> QED
      BY <2>1, <2>2, <3>2, <3>3
  <2>3. CASE q # p
    <3>1. w.kids[q] = t.kids[q]
      BY <1>1, <1>6, <2>3
    <3>2. t.up[m] = q <=> Contains(t.kids[q], m)
      BY <1>1
    <3> QED
      BY <2>1, <2>3, <3>1, <3>2, TreeAssumption
  <2> QED
    BY <2>2, <2>3
<1>9. \A m \in Node : Once(w.kids[m])
  BY <1>1, <1>5, <1>6
<1>10. ASSUME NEW m \in Node, w.up[m] # None PROVE m \notin Above(w, w.up[m])
  <2>1. CASE m = n
    <3>1. w.up[m] = p
      BY <1>1, <1>6, <2>1
    <3>2. Above(w, p) = Above(t, p)
      BY <1>2, <1>6, <1>7, AboveMore DEF GoodTree
    <3> QED
      BY <2>1, <3>1, <3>2
  <2>2. CASE m # n
    <3>1. w.up[m] = t.up[m] /\ t.up[m] \in Node
      BY <1>1, <1>6, <1>10, <2>2
    <3>2. /\ Above(w, t.up[m]) \subseteq Above(t, t.up[m]) \cup Above(t, p)
          /\ n \notin Above(t, t.up[m]) => Above(w, t.up[m]) = Above(t, t.up[m])
      BY <1>2, <1>6, <1>7, <3>1, AboveMore DEF GoodTree
    <3>3. m \notin Above(t, t.up[m])
      BY <1>1, <3>1, TreeAssumption
    <3>4. CASE n \notin Above(t, t.up[m])
      BY <3>1, <3>2, <3>3, <3>4
    <3>5. CASE n \in Above(t, t.up[m])
      <4>1. t.up[m] \in Above(t, m)
        BY <3>1, TreeAssumption, AboveBasics DEF GoodTree, Upward
      <4>2. n \in Above(t, m)
        BY <3>5, <4>1, AboveMonotonic DEF GoodTree
      <4>3. m \notin Above(t, p)
        BY <4>2, AboveMonotonic DEF GoodTree
      <4> QED
        BY <3>1, <3>2, <3>3, <4>3
    <3> QED
      BY <3>4, <3>5
  <2> QED
    BY <2>1, <2>2
<1>11. w.up[Root] = None
  BY <1>1, <1>2, <1>6, TreeAssumption
<1> QED
  BY <1>7, <1>8, <1>9, <1>10, <1>11, GoodTreeFacts DEF GoodTree

\* Below the root, nobody is above a node that the root is not above as well.
LEMMA OutOfAttached ==
  ASSUME NEW t, GoodTree(t), NEW p \in Attached(t), NEW n \in Node \ Attached(t)
  PROVE  n \notin Above(t, p)
<1> DEFINE S == {x \in Node : Root \in Above(t, x)} 
<1>1. Upward(t, S)
  <2> SUFFICES ASSUME NEW x \in S, t.up[x] # None PROVE t.up[x] \in S
    BY DEF Upward
  <2>1. x # Root
    BY GoodTreeFacts DEF GoodTree
  <2> QED
    BY <2>1, AboveParent DEF GoodTree
<1>2. Above(t, p) \subseteq S
  BY <1>1, AboveBasics DEF GoodTree, Attached, Holds
<1> QED
  BY <1>2 DEF Attached, Holds

-----------------------------------------------------------------------------
(***************************************************************************)
(* Where a moved node lands.                                               *)
(***************************************************************************)
Lands(w, n, m, where) ==
  CASE where = "before" -> w.up[n] = w.up[m] /\ GetIndex(w, n) + 1 = GetIndex(w, m)
    [] where = "after" -> w.up[n] = w.up[m] /\ GetIndex(w, n) = GetIndex(w, m) + 1
    [] where = "inside" -> Last(w.kids[m]) = n

\* The node at a place of a list has its owner for parent, and this index.
LEMMA NodeAtPlace ==
  ASSUME NEW w, GoodTree(w), NEW p \in Node, NEW x \in 1..Len(w.kids[p])
  PROVE  w.up[w.kids[p][x]] = p /\ GetIndex(w, w.kids[p][x]) = x - 1
<1> DEFINE y == w.kids[p][x]
<1>1. w.kids[p] \in Seq(Node) /\ Once(w.kids[p])
  BY GoodTreeFacts DEF GoodTree, TypeOK
<1>2. y \in Node /\ Contains(w.kids[p], y)
  BY <1>1, ListProperties DEF Contains
<1>3. w.up[y] = p
  BY <1>2, GoodTreeFacts DEF GoodTree
<1>4. IndexIn(w.kids[p], y) = x - 1
  BY <1>1, IndexInOnce
<1> QED
  BY <1>3, <1>4, TreeAssumption DEF GetIndex, Siblings

\* A node put at an index that the list has is there, and those that were at
\* the index and before it are beside it.
LEMMA JoinsAt ==
  ASSUME NEW t, GoodTree(t), NEW n \in Node, NEW p \in Node, NEW w, GoodTree(w),
         NEW at \in 0..Len(t.kids[p]), Joins(t, w, p, n, at)
  PROVE  /\ w.up[n] = p /\ GetIndex(w, n) = at
         /\ \A m \in Node :
              /\ at + 1 \in 1..Len(t.kids[p]) /\ t.kids[p][at + 1] = m
                   => w.up[m] = p /\ GetIndex(w, m) = at + 1
              /\ at \in 1..Len(t.kids[p]) /\ t.kids[p][at] = m
                   => w.up[m] = p /\ GetIndex(w, m) = at - 1
         /\ at = Len(t.kids[p]) => Last(w.kids[p]) = n
<1> DEFINE s == t.kids[p]
           r == With(s, at + 1, n)
<1>1. s \in Seq(Node) /\ Len(s) \in Nat
  BY LenProperties DEF GoodTree, TypeOK
<1>2. at \in Nat /\ Limit(at, Len(s)) = at /\ at + 1 \in 1..(Len(s) + 1)
  <2>1. at \in Nat /\ at + 1 \in 1..(Len(s) + 1)
    BY <1>1
  <2> QED
    BY <1>1, <2>1, PlaceToJoin
<1>3. InsertAt(s, at + 1, n) = r
  BY <1>1, <1>2, InsertAtWith
<1>4. w.kids[p] = r
  BY <1>2, <1>3 DEF Joins, GoodTree, TypeOK
<1>5. /\ Len(r) = Len(s) + 1
      /\ \A j \in 1..(Len(s) + 1) :
           r[j] = IF j < at + 1 THEN s[j] ELSE IF j = at + 1 THEN n ELSE s[j - 1]
  BY <1>1, <1>2, WithList DEF With
<1> HIDE DEF r
<1>6. \A x \in 1..Len(r) : w.up[r[x]] = p /\ GetIndex(w, r[x]) = x - 1
  BY <1>4, NodeAtPlace
<1>7. at + 1 \in 1..Len(r) /\ r[at + 1] = n
  BY <1>1, <1>2, <1>5
<1>8. w.up[n] = p /\ GetIndex(w, n) = at
  <2>1. w.up[r[at + 1]] = p /\ GetIndex(w, r[at + 1]) = (at + 1) - 1
    BY <1>6, <1>7
  <2> QED
    BY <1>2, <1>7, <2>1
<1>9. ASSUME NEW m \in Node, at + 1 \in 1..Len(s), s[at + 1] = m
      PROVE  w.up[m] = p /\ GetIndex(w, m) = at + 1
  <2>1. at + 2 \in 1..Len(r) /\ r[at + 2] = m
    BY <1>1, <1>2, <1>5, <1>9
  <2>2. w.up[r[at + 2]] = p /\ GetIndex(w, r[at + 2]) = (at + 2) - 1
    BY <1>6, <2>1
  <2> QED
    BY <1>2, <2>1, <2>2
<1>10. ASSUME NEW m \in Node, at \in 1..Len(s), s[at] = m
       PROVE  w.up[m] = p /\ GetIndex(w, m) = at - 1
  <2>1. at \in 1..Len(r) /\ r[at] = m
    BY <1>1, <1>2, <1>5, <1>10
  <2> QED
    BY <1>6, <2>1
<1>11. ASSUME at = Len(s) PROVE Last(w.kids[p]) = n
  BY <1>1, <1>4, <1>5, <1>7, <1>11 DEF Last
<1> QED
  BY <1>8, <1>9, <1>10, <1>11

\* The place of a node among the children that n has left.
LEMMA LeavesAt ==
  ASSUME NEW t, GoodTree(t), NEW n \in Node, t.up[n] \in Node, NEW u, Leaves(t, u, n),
         NEW m \in Node, m # n, t.up[m] \in Node
  PROVE  LET p == t.up[m]
             j == GetIndex(t, m)
             k == IF p = t.up[n] /\ j > GetIndex(t, n) THEN j - 1 ELSE j
         IN  k \in 0..(Len(u.kids[p]) - 1) /\ u.kids[p][k + 1] = m
<1> DEFINE p == t.up[m]
           s == t.kids[p]
<1>1. s \in Seq(Node) /\ Once(s) /\ Len(s) \in Nat
  BY PlaceOfNode, LenProperties
<1>2. PICK b \in 1..Len(s) : s[b] = m /\ GetIndex(t, m) = b - 1
  BY PlaceOfNode
<1>3. CASE p # t.up[n]
  <2>1. u.kids[p] = s
    BY <1>3 DEF Leaves, GoodTree, TypeOK
  <2> QED
    BY <1>1, <1>2, <1>3, <2>1
<1>4. CASE p = t.up[n]
  <2>1. PICK a \in 1..Len(s) : s[a] = n /\ GetIndex(t, n) = a - 1
    BY <1>4, PlaceOfNode
  <2>2. RemoveFirst(s, n) = Without(s, a)
    BY <1>1, <2>1, RemoveFirstOnce
  <2>3. u.kids[p] = Without(s, a)
    BY <1>4, <2>2 DEF Leaves, GoodTree, TypeOK
  <2>4. /\ Len(u.kids[p]) = Len(s) - 1
        /\ \A j \in 1..(Len(s) - 1) : u.kids[p][j] = IF j < a THEN s[j] ELSE s[j + 1]
    <3>1. Len(Without(s, a)) = Len(s) - 1
      BY <1>1, <2>1, WithoutList
    <3>2. \A j \in 1..(Len(s) - 1) : Without(s, a)[j] = IF j < a THEN s[j] ELSE s[j + 1]
      BY DEF Without
    <3> QED
      BY <2>3, <3>1, <3>2
  <2>5. a # b
    BY <1>2, <2>1
  <2>6. CASE b < a
    <3>1. ~(GetIndex(t, m) > GetIndex(t, n)) /\ GetIndex(t, m) = b - 1
      BY <1>1, <1>2, <2>1, <2>6
    <3>2. b \in 1..(Len(s) - 1)
      BY <1>1, <2>1, <2>6
    <3>3. u.kids[p][b] = m
      BY <1>2, <2>4, <2>6, <3>2
    <3>4. (b - 1) + 1 = b /\ b - 1 \in 0..((Len(s) - 1) - 1)
      BY <1>1, <3>2
    <3> QED
      BY <1>4, <2>4, <3>1, <3>3, <3>4
  <2>7. CASE b > a
    <3>1. GetIndex(t, m) > GetIndex(t, n)
      BY <1>2, <2>1, <2>7
    <3>2. b - 1 \in 1..(Len(s) - 1) /\ ~(b - 1 < a)
      BY <1>1, <2>1, <2>7
    <3>3. u.kids[p][b - 1] = s[(b - 1) + 1] /\ (b - 1) + 1 = b
      BY <2>4, <3>2
    <3>4. u.kids[p][b - 1] = m
      BY <1>2, <3>3
    <3> QED
      BY <1>1, <1>2, <1>4, <2>4, <3>1, <3>2, <3>4
  <2> QED
    BY <1>1, <2>1, <2>5, <2>6, <2>7
<1> QED
  BY <1>3, <1>4

\* emancipate, then adopt at the corrected index: the three places to move to.
LEMMA MovedLands ==
  ASSUME NEW t, GoodTree(t), NEW n \in Inner, NEW m \in Node, t.up[n] \in Node,
         NEW where \in {"before", "after", "inside"},
         NEW place, place = GetDestination(t, m, where), place.into # None,
         ~MoveCancelled(t, n, place), n \notin Above(t, place.into),
         NEW u, Leaves(t, u, n),
         NEW w, Joins(u, w, place.into, n, MovedIndex(t, n, place))
  PROVE  GoodTree(w) /\ Lands(w, n, m, where)
<1> DEFINE p == place.into
           s == u.kids[p]
           at == MovedIndex(t, n, place)
<1>1. GoodTree(u) /\ n \in Node
  BY LeavesTree DEF Inner
<1>2. p \in Node
  BY DEF GetDestination, Place, GoodTree, TypeOK
<1>3. u.up[n] = None /\ n \notin Above(u, p)
  <2>1. u.up = [t.up EXCEPT ![n] = None]
    BY DEF Leaves
  <2>2. Above(u, p) \subseteq Above(t, p)
    BY <1>1, <1>2, <2>1, AboveLess DEF GoodTree
  <2> QED
    BY <1>1, <2>1, <2>2 DEF GoodTree, TypeOK
<1>4. s \in Seq(Node) /\ Len(s) \in Nat
  BY <1>1, <1>2, LenProperties DEF GoodTree, TypeOK
<1>5. CASE where \in {"before", "after"}
  <2>1. p = t.up[m] /\ place.index = IF where = "before" THEN GetIndex(t, m) ELSE GetIndex(t, m) + 1
    BY <1>5 DEF GetDestination, Place
  <2>2. m # n
    BY <1>5, <2>1 DEF MoveCancelled
  <2> DEFINE j == GetIndex(t, m)
             i == GetIndex(t, n)
             k == IF p = t.up[n] /\ j > i THEN j - 1 ELSE j
  <2>3. k \in 0..(Len(s) - 1) /\ s[k + 1] = m
    BY <1>1, <1>2, <2>1, <2>2, LeavesAt
  <2>4. i \in Nat /\ j \in Nat
    BY <1>1, <1>2, <2>1, PlaceOfNode
  <2>5. p = t.up[n] => j # i /\ (where = "before" => j # i + 1) /\ (where = "after" => j + 1 # i)
    <3> SUFFICES ASSUME p = t.up[n] PROVE j # i /\ (where = "before" => j # i + 1) /\ (where = "after" => j + 1 # i)
      OBVIOUS
    <3>1. place.index # i /\ place.index # i + 1
      BY DEF MoveCancelled
    <3>2. \E a \in 1..Len(t.kids[p]) : t.kids[p][a] = n /\ i = a - 1
      BY <1>1, <1>2, PlaceOfNode
    <3>3. \E a \in 1..Len(t.kids[p]) : t.kids[p][a] = m /\ j = a - 1
      BY <1>2, <2>1, PlaceOfNode
    <3>4. j # i
      BY <2>2, <2>4, <3>2, <3>3
    <3> QED
      BY <1>5, <2>1, <2>4, <3>1, <3>4
  <2> HIDE DEF i, j, k
  <2>6. at = IF where = "before" THEN k ELSE k + 1
    <3>1. at = IF p = t.up[n] /\ place.index > i THEN place.index - 1 ELSE place.index
      BY DEF MovedIndex, i
    <3>2. CASE p # t.up[n]
      BY <1>5, <2>1, <2>4, <3>1, <3>2 DEF k, j
    <3>3. CASE p = t.up[n]
      BY <1>5, <2>1, <2>4, <2>5, <3>1, <3>3 DEF k, j
    <3> QED
      BY <3>2, <3>3
  <2> HIDE DEF at, s
  <2>7. at \in 0..Len(s) /\ at \in Nat
    BY <1>4, <1>5, <2>3, <2>6
  <2>8. GoodTree(w)
    BY <1>1, <1>2, <1>3, <2>7, JoinsTree DEF at
  <2>9. /\ w.up[n] = p /\ GetIndex(w, n) = at
        /\ at + 1 \in 1..Len(s) /\ s[at + 1] = m
             => w.up[m] = p /\ GetIndex(w, m) = at + 1
        /\ at \in 1..Len(s) /\ s[at] = m
             => w.up[m] = p /\ GetIndex(w, m) = at - 1
    BY <1>1, <1>2, <2>7, <2>8, JoinsAt DEF at, s
  <2>10. CASE where = "before"
    <3>1. at = k
      BY <2>6, <2>10
    <3>2. at + 1 \in 1..Len(s) /\ s[at + 1] = m
      BY <1>4, <2>3, <3>1
    <3> QED
      BY <2>8, <2>9, <2>10, <3>2 DEF Lands
  <2>11. CASE where = "after"
    <3>1. at = k + 1
      BY <2>6, <2>11
    <3>2. at \in 1..Len(s) /\ s[at] = m
      BY <1>4, <2>3, <3>1
    <3>3. GetIndex(w, m) + 1 = GetIndex(w, n) /\ w.up[n] = w.up[m]
      BY <2>7, <2>9, <3>2
    <3> QED
      BY <2>8, <2>11, <3>3 DEF Lands
  <2> QED
    BY <1>5, <2>10, <2>11
<1>6. CASE where = "inside"
  <2>1. p = m /\ place.index = Len(t.kids[m])
    BY <1>6 DEF GetDestination, Place
  <2>2. at = Len(s)
    <3>1. t.kids[p] \in Seq(Node) /\ Len(t.kids[p]) \in Nat
      BY <1>2, LenProperties DEF GoodTree, TypeOK
    <3>2. CASE p # t.up[n]
      <4>1. s = t.kids[p]
        BY <1>2, <3>2 DEF Leaves, GoodTree, TypeOK
      <4> QED
        BY <2>1, <3>2, <4>1 DEF MovedIndex
    <3>3. CASE p = t.up[n]
      <4>1. PICK a \in 1..Len(t.kids[p]) : t.kids[p][a] = n /\ GetIndex(t, n) = a - 1
        BY <1>1, <3>3, PlaceOfNode
      <4>2. RemoveFirst(t.kids[p], n) = Without(t.kids[p], a) /\ Once(t.kids[p])
        BY <1>1, <3>1, <3>3, <4>1, PlaceOfNode, RemoveFirstOnce
      <4>3. s = Without(t.kids[p], a)
        BY <1>2, <3>3, <4>2 DEF Leaves, GoodTree, TypeOK
      <4>4. Len(s) = Len(t.kids[p]) - 1
        <5>1. Len(Without(t.kids[p], a)) = Len(t.kids[p]) - 1
          BY <3>1, <4>1, <4>2, WithoutList
        <5> QED
          BY ONLY <4>3, <5>1
      <4> QED
        <5>1. place.index = Len(t.kids[p]) /\ place.index > GetIndex(t, n)
          BY <2>1, <3>1, <4>1
        <5>2. at = place.index - 1
          BY <3>3, <5>1 DEF MovedIndex
        <5> HIDE DEF at, s
        <5> QED
          BY ONLY <4>4, <5>1, <5>2
    <3> QED
      BY <3>2, <3>3
  <2> HIDE DEF at, s
  <2>3. at \in 0..Len(s) /\ at \in Nat
    BY <1>4, <2>2
  <2>4. GoodTree(w)
    BY <1>1, <1>2, <1>3, <2>3, JoinsTree DEF at
  <2>5. Last(w.kids[p]) = n
    <3>1. Joins(u, w, p, n, at)
      BY DEF at
    <3>2. at \in 0..Len(u.kids[p]) /\ at = Len(u.kids[p])
      BY <2>2, <2>3 DEF s
    <3> HIDE DEF p
    <3> QED
      BY <1>1, <1>2, <2>4, <3>1, <3>2, JoinsAt
  <2> QED
    BY <1>6, <2>1, <2>4, <2>5 DEF Lands
<1> QED
  BY <1>5, <1>6

-----------------------------------------------------------------------------
(***************************************************************************)
(* What is drawn, listed or chosen leaves the tree alone.                  *)
(***************************************************************************)
IsView(v) == {"kids", "up"} \subseteq DOMAIN v

Same(v, w) == IsView(w) /\ w.kids = v.kids /\ w.up = v.up

\* The classes and the list of visible nodes.
LEMMA DrawSame ==
  ASSUME NEW v, IsView(v), NEW n, NEW value
  PROVE  /\ Same(v, UpdateVisibles(v))
         /\ Same(v, DrawFirst(v, n, value))
         /\ Same(v, DrawLast(v, n, value))
         /\ Same(v, DrawExpandable(v, n, value))
         /\ Same(v, UpdateExpandable(v, n))
<1>1. Same(v, UpdateVisibles(v))
  BY DEF Same, IsView, UpdateVisibles
<1>2. Same(v, DrawFirst(v, n, value))
  BY DEF Same, IsView, DrawFirst
<1>3. Same(v, DrawLast(v, n, value))
  BY DEF Same, IsView, DrawLast
<1>4. \A x : Same(v, DrawExpandable(v, n, x))
  BY DEF Same, IsView, DrawExpandable
<1> QED
  BY <1>1, <1>2, <1>3, <1>4 DEF UpdateExpandable

\* One thing after another.
LEMMA SameTwice ==
  ASSUME NEW u, NEW v, NEW w, Same(u, v), Same(v, w)
  PROVE  Same(u, w)
BY DEF Same

\* The lines beside a node.
LEMMA ChangeVisibilitySame ==
  ASSUME NEW v, IsView(v), NEW n, NEW hidden
  PROVE  Same(v, ChangeVisibility(v, n, hidden))
<1>1. Same(v, v)
  BY DEF Same
<1>2. \A u, x, y : Same(v, u) => Same(v, DrawLast(u, x, y)) /\ Same(v, DrawFirst(u, x, y))
  BY DrawSame, SameTwice DEF Same
<1> QED
  BY <1>1, <1>2 DEF ChangeVisibility

\* Trunks and branches.
LEMMA CreateSame ==
  ASSUME NEW v, IsView(v), NEW n, NEW nodes
  PROVE  Same(v, CreateTrunks(v, nodes)) /\ Same(v, CreateBranch(v, n))
<1>1. ASSUME NEW u, IsView(u), NEW any PROVE Same(u, CreateTrunks(u, any))
  <2>1. \A new1, new2, new3, new4, new5 :
          Same(u, [u EXCEPT !.trunk = new1, !.branch = new2, !.first = new3, !.last = new4,
                            !.expandable = new5])
    BY <1>1 DEF Same, IsView
  <2> QED
    BY <2>1 DEF CreateTrunks
<1>2. \A S : Same(v, [v EXCEPT !.branch = S])
  BY DEF Same, IsView
<1>3. Same(v, v)
  BY DEF Same
<1>4. Same(v, CreateBranch(v, n))
  <2> DEFINE u == [v EXCEPT !.branch = @ \cup {n}]
  <2>1. Same(v, u) /\ IsView(u)
    BY <1>2 DEF Same
  <2> HIDE DEF u
  <2>2. Same(u, CreateTrunks(u, ToSet(v.kids[n]) \ v.trunk))
    BY <1>1, <2>1
  <2>3. Same(v, CreateTrunks(u, ToSet(v.kids[n]) \ v.trunk))
    BY <2>1, <2>2, SameTwice
  <2> QED
    BY <1>3, <2>3 DEF CreateBranch, u
<1> QED
  BY <1>1, <1>4

\* What an insertion, a change of visibility and an expansion draw.
LEMMA DrawNodesSame ==
  ASSUME NEW v, IsView(v), NEW p, NEW n, NEW value
  PROVE  /\ Same(v, DrawInsert(v, p, n))
         /\ Same(v, DrawHidden(v, n, value))
         /\ Same(v, DrawExpanded(v, n, value))
<1>1. Same(v, v)
  BY DEF Same
<1>2. ASSUME NEW u, Same(v, u), NEW x, NEW y
      PROVE  /\ Same(v, UpdateVisibles(u))
             /\ Same(v, UpdateExpandable(u, x))
             /\ Same(v, ChangeVisibility(u, x, y))
             /\ Same(v, CreateTrunks(u, x))
             /\ Same(v, CreateBranch(u, x))
  <2>1. IsView(u)
    BY <1>2 DEF Same
  <2>2. /\ Same(u, UpdateVisibles(u))
        /\ Same(u, UpdateExpandable(u, x))
        /\ Same(u, ChangeVisibility(u, x, y))
        /\ Same(u, CreateTrunks(u, x))
        /\ Same(u, CreateBranch(u, x))
    BY <2>1, DrawSame, ChangeVisibilitySame, CreateSame
  <2> QED
    BY <1>2, <2>2, SameTwice
<1>3. Same(v, DrawInsert(v, p, n))
  BY <1>2, <1>1 DEF DrawInsert
<1>4. Same(v, DrawHidden(v, n, value))
  BY <1>2, <1>1 DEF DrawHidden
<1>5. Same(v, DrawExpanded(v, n, value))
  BY <1>2, <1>1 DEF DrawExpanded
<1> QED
  BY <1>3, <1>4, <1>5

\* The states expanded, hidden and lighted, and the nodes that leave them.
LEMMA StatesSame ==
  ASSUME NEW v, IsView(v), NEW n
  PROVE  /\ Same(v, Expand(v, n)) /\ Same(v, Contract(v, n)) /\ Same(v, ToggleExpanded(v, n))
         /\ Same(v, Hide(v, n)) /\ Same(v, Unhide(v, n))
         /\ Same(v, Light(v, n)) /\ Same(v, UnlightAll(v))
         /\ Same(v, LeaveEach(v, n))
<1>1. Same(v, v)
  BY DEF Same
<1>2. \A S : Same(v, [v EXCEPT !.expanded = S]) /\ Same(v, [v EXCEPT !.hidden = S])
  BY DEF Same, IsView
<1> DEFINE Expanded(S) == [v EXCEPT !.expanded = S]
           Hidden(S) == [v EXCEPT !.hidden = S]
<1>8. \A S, x : Same(v, DrawExpanded(Expanded(S), n, x)) /\ Same(v, DrawHidden(Hidden(S), n, x))
  <2> SUFFICES ASSUME NEW S, NEW x
               PROVE  Same(v, DrawExpanded(Expanded(S), n, x)) /\ Same(v, DrawHidden(Hidden(S), n, x))
    OBVIOUS
  <2>1. Same(v, Expanded(S)) /\ Same(v, Hidden(S)) /\ IsView(Expanded(S)) /\ IsView(Hidden(S))
    BY <1>2 DEF Same
  <2> HIDE DEF Expanded, Hidden
  <2>2. Same(Expanded(S), DrawExpanded(Expanded(S), n, x)) /\ Same(Hidden(S), DrawHidden(Hidden(S), n, x))
    BY <2>1, DrawNodesSame
  <2> QED
    BY <2>1, <2>2, SameTwice
<1> HIDE DEF Expanded, Hidden
<1>3. Same(v, Expand(v, n)) /\ Same(v, Contract(v, n))
  <2>1. /\ Expand(v, n) = DrawExpanded(Expanded(v.expanded \cup {n}), n, TRUE)
        /\ Contract(v, n) = DrawExpanded(Expanded(v.expanded \ {n}), n, FALSE)
    BY DEF Expand, Contract, Expanded
  <2> QED
    BY <1>8, <2>1
<1>4. Same(v, Hide(v, n)) /\ Same(v, Unhide(v, n))
  <2>1. /\ Hide(v, n) = DrawHidden(Hidden(v.hidden \cup {n}), n, TRUE)
        /\ Unhide(v, n) = DrawHidden(Hidden(v.hidden \ {n}), n, FALSE)
    BY DEF Hide, Unhide, Hidden
  <2> QED
    BY <1>8, <2>1
<1>6. Same(v, Light(v, n)) /\ \A x : Same(v, Unlight(v, x))
  BY DEF Light, Unlight, Same, IsView
<1>7. Same(v, LeaveEach(v, n))
  BY DEF LeaveEach, UnselectEach, Same, IsView
<1> QED
  BY <1>1, <1>3, <1>4, <1>6, <1>7 DEF ToggleExpanded, UnlightAll

\* The selection and the focus.
LEMMA ChoiceSame ==
  ASSUME NEW v, IsView(v), NEW n, NEW e
  PROVE  /\ Same(v, Unselect(v, n)) /\ Same(v, UnselectEach(v, n)) /\ Same(v, UnselectAll(v))
         /\ Same(v, UnselectOther(v, n, e)) /\ Same(v, Select(v, n, e)) /\ Same(v, SelectEach(v, n))
         /\ Same(v, Focus(v, n, e)) /\ Same(v, Naviguate(v, n, e))
<1>1. Same(v, v)
  BY DEF Same
<1>2. ASSUME NEW u, IsView(u), NEW x
      PROVE  Same(u, Unselect(u, x)) /\ Same(u, UnselectEach(u, x)) /\ Same(u, SelectEach(u, x))
  BY <1>2 DEF Unselect, UnselectEach, SelectEach, Same, IsView
<1>3. Same(v, UnselectAll(v))
  BY <1>2 DEF UnselectAll
<1>4. ASSUME NEW u, IsView(u)
      PROVE Same(u, UnselectOther(u, n, e)) /\ Same(u, Select(u, n, e))
  <2>1. Same(u, u)
    BY <1>4 DEF Same
  <2>2. Same(u, UnselectOther(u, n, e))
    BY <1>2, <1>4, <2>1 DEF UnselectOther
  <2>3. Same(u, Select(u, n, e))
    <3> DEFINE w == UnselectOther(u, n, e)
    <3>1. Same(u, w)
      BY <2>2
    <3> HIDE DEF w
    <3>2. \A S, T : Same(w, [w EXCEPT !.selected = S, !.selecteds = T])
      BY <3>1 DEF Same, IsView
    <3>3. Same(w, [w EXCEPT !.selected = @ \cup {n}, !.selecteds = Append(@, n)])
      BY <3>2
    <3> QED
      BY <3>1, <3>3, SameTwice DEF Select, w
  <2> QED
    BY <2>2, <2>3
<1>5. ASSUME NEW m, NEW u, IsView(u) PROVE Same(u, SelectTo(u, n, m))
  <2>1. Same(u, u)
    BY <1>5 DEF Same
  <2>2. \A x, y : Same(u, SelectEach(UnselectEach(u, x), y))
    BY <1>2, <1>5, SameTwice DEF Same
  <2> QED
    BY <2>1, <2>2 DEF SelectTo
<1>6. Same(v, Shifted(v, n, e))
  <2>1. \A x : Same(v, [v EXCEPT !.shiftNode = x])
    BY DEF Same, IsView
  <2>2. \A x : Same(v, SelectTo([v EXCEPT !.shiftNode = x], n, x))
    <3> SUFFICES ASSUME NEW x PROVE Same(v, SelectTo([v EXCEPT !.shiftNode = x], n, x))
      OBVIOUS
    <3> DEFINE u == [v EXCEPT !.shiftNode = x]
    <3>1. Same(v, u) /\ IsView(u)
      BY <2>1 DEF Same
    <3> HIDE DEF u
    <3>2. Same(u, SelectTo(u, n, x))
      BY <1>5, <3>1
    <3>3. Same(v, SelectTo(u, n, x))
      BY <3>1, <3>2, SameTwice
    <3> QED
      BY <3>3 DEF u
  <2> QED
    BY <1>1, <2>1, <2>2 DEF Shifted
<1>7. Same(v, Focus(v, n, e))
  <2> DEFINE w == Shifted(v, n, e)
  <2>1. Same(v, w)
    BY <1>6
  <2> HIDE DEF w
  <2>2. Same(w, [w EXCEPT !.focused = (@ \ {w.ref.focused}) \cup {n}, !.ref.focused = n])
    BY <2>1 DEF Same, IsView
  <2> QED
    BY <2>1, <2>2, SameTwice DEF Focus, w
<1>8. Same(v, Naviguate(v, n, e))
  BY <1>4, <1>7, SameTwice DEF Naviguate, Same
<1> QED
  BY <1>2, <1>3, <1>4, <1>7, <1>8

\* All that emancipate does to the tree.
LEMMA EmancipateLeaves ==
  ASSUME NEW v, IsView(v), NEW n
  PROVE  IsView(Emancipate(v, n)) /\ Leaves(v, Emancipate(v, n), n)
<1> DEFINE p == v.up[n]
           parent == IF Len(v.kids[p]) = 1 THEN DrawExpandable(v, p, FALSE) ELSE UpdateExpandable(v, p)
           drawn == ChangeVisibility(parent, n, TRUE)
           left == Detach(drawn, n)
           gone == LeaveEach(left, CrossAll(left, n))
<1>1. Same(v, parent)
  BY DrawSame
<1>2. Same(parent, drawn)
  BY <1>1, ChangeVisibilitySame DEF Same
<1>3. Same(v, drawn)
  BY <1>1, <1>2, SameTwice
<1> HIDE DEF drawn
<1>4. IsView(left) /\ Leaves(v, left, n)
  BY <1>3 DEF Detach, Leaves, Same, IsView
<1> HIDE DEF left
<1>5. Same(left, gone)
  BY <1>4, StatesSame
<1> HIDE DEF gone
<1>6. Same(left, UpdateVisibles(gone))
  BY <1>5, DrawSame, SameTwice DEF Same
<1>7. Emancipate(v, n) = IF IsVisible(gone, n) THEN UpdateVisibles(gone) ELSE gone
  BY DEF Emancipate, gone, left, drawn
<1> QED
  BY <1>4, <1>5, <1>6, <1>7 DEF Same, Leaves

\* All that adopt does to the tree.
LEMMA AdoptJoins ==
  ASSUME NEW v, IsView(v), NEW p, NEW n, NEW at
  PROVE  IsView(Adopt(v, p, n, at)) /\ Joins(v, Adopt(v, p, n, at), p, n, at)
<1> DEFINE held == Attach(v, p, n, at)
           drawn == IF p \in v.branch THEN DrawInsert(held, p, n) ELSE held
           parent == IF Len(drawn.kids[p]) = 1 THEN UpdateExpandable(drawn, p) ELSE drawn
<1>1. IsView(held) /\ Joins(v, held, p, n, at)
  BY DEF Attach, Joins, IsView
<1> HIDE DEF held
<1>2. Same(held, held)
  BY <1>1 DEF Same
<1>3. Same(held, drawn)
  BY <1>1, <1>2, DrawNodesSame
<1> HIDE DEF drawn
<1>4. Same(held, parent)
  BY <1>3, DrawSame, SameTwice DEF Same
<1> HIDE DEF parent
<1>5. Same(held, Expand(parent, p))
  BY <1>4, StatesSame, SameTwice DEF Same
<1>6. Adopt(v, p, n, at) = IF IsVisible(parent, p) THEN Expand(parent, p) ELSE parent
  BY DEF Adopt, parent, drawn, held
<1> QED
  BY <1>1, <1>4, <1>5, <1>6 DEF Same, Joins

-----------------------------------------------------------------------------
(***************************************************************************)
(* The invariant.                                                          *)
(***************************************************************************)
ExplorerInv == IsView(view) /\ GoodTree(view) /\ MoveLands

\* The root alone is a tree.
LEMMA InitInv == Init => ExplorerInv
<1> SUFFICES ASSUME Init PROVE ExplorerInv
  OBVIOUS
<1>1. /\ IsView(view)
      /\ view.kids = [n \in Node |-> << >>]
      /\ view.up = [n \in Node |-> None]
  BY DEF Init, IsView
<1>2. TypeOK(view)
  BY <1>1 DEF TypeOK
<1>3. \A n \in Node : Len(view.kids[n]) = 0 /\ view.up[n] = None
  BY <1>1
<1>4. IsTree(view)
  BY <1>2, <1>3, TreeAssumption, GoodTreeFacts DEF Contains, Once
<1>5. MoveLands
  BY DEF Init, MoveLands
<1> QED
  BY <1>1, <1>2, <1>4, <1>5 DEF ExplorerInv, GoodTree

\* A step that leaves the tree alone and is no move.
LEMMA SameInv ==
  ASSUME ExplorerInv, NEW v, Same(view, v), Becomes(v)
  PROVE  ExplorerInv'
<1>1. view' = v /\ moved' = << >>
  BY DEF Becomes
<1>2. IsView(view') /\ view'.kids = view.kids /\ view'.up = view.up
  BY <1>1 DEF Same
<1>3. GoodTree(view')
  BY <1>2, AboveSame DEF ExplorerInv, GoodTree, TypeOK, IsTree, Holds
<1>4. MoveLands'
  BY <1>1 DEF MoveLands
<1> QED
  BY <1>2, <1>3, <1>4 DEF ExplorerInv, IsView, GoodTree, TypeOK, IsTree, Holds, Above

\* load and insert: a node out of the tree joins a node of the tree.
LEMMA AdoptInv ==
  ASSUME ExplorerInv, NEW p \in Attached(view), NEW n \in Inner, n \in Out, view.up[n] = None,
         NEW at \in Nat, Becomes(Adopt(view, p, n, at))
  PROVE  ExplorerInv'
<1>1. view' = Adopt(view, p, n, at) /\ moved' = << >>
  BY DEF Becomes
<1>2. IsView(view') /\ Joins(view, view', p, n, at)
  BY <1>1, AdoptJoins DEF ExplorerInv
<1>3. n \notin Above(view, p) /\ p \in Node
  BY OutOfAttached DEF ExplorerInv, Out, Attached
<1>4. GoodTree(view')
  BY <1>2, <1>3, JoinsTree DEF ExplorerInv
<1>5. MoveLands'
  BY <1>1 DEF MoveLands
<1> QED
  BY <1>2, <1>4, <1>5 DEF ExplorerInv, IsView, GoodTree, TypeOK, IsTree, Holds, Above

\* remove.
LEMMA EmancipateInv ==
  ASSUME ExplorerInv, NEW n \in There, Becomes(Emancipate(view, n))
  PROVE  ExplorerInv'
<1>1. view' = Emancipate(view, n) /\ moved' = << >>
  BY DEF Becomes
<1>2. IsView(view') /\ Leaves(view, view', n)
  BY <1>1, EmancipateLeaves DEF ExplorerInv
<1>3. n \in Node /\ view.up[n] \in Node
  BY AboveParent DEF ExplorerInv, GoodTree, There, Attached, Holds
<1>4. GoodTree(view')
  BY <1>2, <1>3, LeavesTree DEF ExplorerInv
<1>5. MoveLands'
  BY <1>1 DEF MoveLands
<1> QED
  BY <1>2, <1>4, <1>5 DEF ExplorerInv, IsView, GoodTree, TypeOK, IsTree, Holds, Above

\* move, between nodes that neither cancel nor prevent it.
LEMMA MoveInv ==
  ASSUME ExplorerInv, NEW n \in There, NEW m \in There,
         NEW where \in {"before", "after", "inside"}, DemandMove(n, m, where)
  PROVE  ExplorerInv'
<1> DEFINE place == GetDestination(view, m, where)
           u == Emancipate(view, n)
<1>1. /\ place.into # None
      /\ ~MoveCancelled(view, n, place)
      /\ n \notin Above(view, place.into)
      /\ view' = Adopt(u, place.into, n, MovedIndex(view, n, place))
      /\ moved' = <<n, m, where>>
  BY DEF DemandMove, MovePrevented, Holds, Move
<1>2. n \in Inner /\ m \in Node /\ view.up[n] \in Node
  BY AboveParent DEF ExplorerInv, GoodTree, There, Attached, Holds, Inner
<1>3. IsView(u) /\ Leaves(view, u, n)
  BY EmancipateLeaves DEF ExplorerInv
<1> HIDE DEF place, u
<1>4. IsView(view') /\ Joins(u, view', place.into, n, MovedIndex(view, n, place))
  BY <1>1, <1>3, AdoptJoins
<1>5. GoodTree(view') /\ Lands(view', n, m, where)
  BY <1>1, <1>2, <1>3, <1>4, MovedLands DEF ExplorerInv, place
<1>6. MoveLands'
  BY <1>1, <1>5 DEF MoveLands, Lands
<1> QED
  BY <1>4, <1>5, <1>6 DEF ExplorerInv, IsView, GoodTree, TypeOK, IsTree, Holds, Above

\* The demands to the tree.
LEMMA StructureInv == ASSUME ExplorerInv, Structure PROVE ExplorerInv'
<1>1. IsView(view) /\ GoodTree(view)
  BY DEF ExplorerInv
<1>2. ASSUME NEW n \in Inner, Load(n) PROVE ExplorerInv'
  <2>1. Root \in Attached(view)
    BY <1>1, TreeAssumption, AboveBasics DEF GoodTree, Attached, Holds
  <2>2. Len(view.kids[Root]) \in Nat
    BY <1>1, TreeAssumption, LenProperties DEF GoodTree, TypeOK
  <2> QED
    BY <1>2, <2>1, <2>2, AdoptInv DEF Load
<1>3. ASSUME NEW p \in There, NEW n \in Inner, NEW i \in 0..Cardinality(Node),
             i = Len(view.kids[p]) \/ i < Len(view.kids[p]), DemandInsert(p, n, i)
      PROVE  ExplorerInv'
  <2>1. p \in Attached(view) /\ i \in Nat
    BY DEF There
  <2> QED
    BY <1>3, <2>1, AdoptInv DEF DemandInsert
<1>4. ASSUME NEW n \in There, DemandRemove(n) PROVE ExplorerInv'
  BY <1>4, EmancipateInv DEF DemandRemove
<1>5. ASSUME NEW n \in There, NEW m \in There, NEW where \in {"before", "after", "inside"},
             DemandMove(n, m, where)
      PROVE  ExplorerInv'
  BY <1>5, MoveInv
<1>6. ASSUME NEW n \in There, SetExpanded(n) PROVE ExplorerInv'
  BY <1>1, <1>6, StatesSame, SameInv DEF SetExpanded
<1>7. ASSUME NEW n \in There, SetHidden(n) PROVE ExplorerInv'
  BY <1>1, <1>7, StatesSame, SameInv DEF SetHidden
<1> QED
  BY <1>2, <1>3, <1>4, <1>5, <1>6, <1>7 DEF Structure

\* The mouse.
LEMMA MouseInv == ASSUME ExplorerInv, Mouse PROVE ExplorerInv'
<1>1. IsView(view)
  BY DEF ExplorerInv
<1>2. ASSUME NEW n, MouseOver(n) PROVE ExplorerInv'
  BY <1>1, <1>2, StatesSame, SameInv DEF MouseOver
<1>3. ASSUME MouseOut PROVE ExplorerInv'
  BY <1>1, <1>3, StatesSame, SameInv DEF MouseOut
<1>4. ASSUME NEW n, NEW e, NEW tool, MouseDown(n, e, tool) PROVE ExplorerInv'
  <2> DEFINE opened == IF tool THEN ToggleExpanded(view, n) ELSE view
             chosen == IF e.control /\ n \in view.selected THEN Unselect(opened, n)
                       ELSE Select(opened, n, e)
  <2>1. Same(view, opened)
    BY <1>1, StatesSame DEF Same
  <2> HIDE DEF opened
  <2>2. Same(view, chosen)
    BY <2>1, ChoiceSame, SameTwice DEF Same
  <2>3. Becomes(Focus(chosen, n, e))
    BY <1>4 DEF MouseDown, opened
  <2> HIDE DEF chosen
  <2>4. Same(view, Focus(chosen, n, e))
    BY <2>2, ChoiceSame, SameTwice DEF Same
  <2> QED
    BY <2>3, <2>4, SameInv
<1>5. ASSUME MouseDownBeside PROVE ExplorerInv'
  BY <1>1, <1>5, ChoiceSame, SameInv DEF MouseDownBeside
<1>6. ASSUME NEW n, NEW e, Click(n, e) PROVE ExplorerInv'
  BY <1>1, <1>6, ChoiceSame, SameInv DEF Click
<1> QED
  BY <1>2, <1>3, <1>4, <1>5, <1>6 DEF Mouse

\* The keys.
LEMMA KeysInv == ASSUME ExplorerInv, Keys PROVE ExplorerInv'
<1>1. IsView(view) /\ Same(view, view)
  BY DEF ExplorerInv, Same
<1>2. \A n, e : Same(view, Naviguate(view, n, e)) /\ Same(view, ToggleExpanded(view, n)) /\ Same(view, SelectEach(view, n))
  BY <1>1, ChoiceSame, StatesSame
<1>3. \A list, e : Same(view, NavTo(list, e))
  BY <1>1, <1>2 DEF NavTo
<1>4. \A e : /\ Same(view, KeyUp(e)) /\ Same(view, KeyDown(e))
             /\ Same(view, KeyLeft(e)) /\ Same(view, KeyRight(e))
  BY <1>1, <1>2, <1>3 DEF KeyUp, KeyDown, KeyLeft, KeyRight
<1>5. ASSUME NEW e, NEW v, Same(view, v), KeyEvent(e, v) PROVE ExplorerInv'
  BY <1>5, SameInv DEF KeyEvent
<1> QED
  BY <1>2, <1>4, <1>5 DEF Keys, SelectAll

\* Every step.
LEMMA StepInv == ExplorerInv /\ [Next]_vars => ExplorerInv'
<1>1. ASSUME ExplorerInv, UNCHANGED vars PROVE ExplorerInv'
  BY <1>1 DEF vars, ExplorerInv, IsView, GoodTree, TypeOK, IsTree, Holds, Above, MoveLands
<1> QED
  BY <1>1, StructureInv, MouseInv, KeysInv DEF Next

\* The invariant of every behaviour.
LEMMA ExplorerInvHolds == Spec => []ExplorerInv
BY InitInv, StepInv, PTL DEF Spec

\* insert, remove and move, prevented as they are, never make a loop, lose a
\* child or list one twice (tree.js:342-379, 757-791).
THEOREM TreeStaysATree == Spec => []TreeShape
<1>1. ExplorerInv => TreeShape
  BY DEF ExplorerInv, GoodTree, TreeShape
<1> QED
  BY <1>1, ExplorerInvHolds, PTL

\* before, after and inside mean what they say, for the same parent or another,
\* from the left or from the right (tree.js:689-704, 757-762).
THEOREM MovesLand == Spec => []MoveLands
<1>1. ExplorerInv => MoveLands
  BY DEF ExplorerInv
<1> QED
  BY <1>1, ExplorerInvHolds, PTL

-----------------------------------------------------------------------------
(* Walks along a list: a recursive function is defined for every list,     *)
(* since the shortest list for which it is not would have a shorter one.   *)

\* A set of numbers that is not empty has a least one.
LEMMA LeastNat ==
  ASSUME NEW S \in SUBSET Nat, S # {}
  PROVE  \E x \in S : \A y \in S : x <= y
<1>1. PICK x \in S : \A y \in S : ~ (<<y, x>> \in OpToRel(<, Nat))
  BY NatLessThanWellFounded, WFMin
<1>2. \A y \in S : ~ (y < x)
  BY <1>1 DEF OpToRel
<1> QED
  BY <1>2

\* f goes along a list: each step takes what is there to what comes next.
Walks(f, step, start, list, k) ==
  f[0] = start /\ \A i \in 1..k : f[i] = step[f[i - 1]][list[i]]

\* There is a walk along every list.
LEMMA WalkExists ==
  ASSUME NEW S, NEW R, NEW step \in [S -> [R -> S]], NEW start \in S, NEW list \in Seq(R), NEW n \in 0..Len(list)
  PROVE  \E f \in [0..n -> S] : Walks(f, step, start, list, n)
<1> DEFINE Has(k) == \E f \in [0..k -> S] : Walks(f, step, start, list, k)
           bad == {k \in 0..Len(list) : ~Has(k)}
<1>1. Len(list) \in Nat /\ \A i \in 1..Len(list) : list[i] \in R
  BY LenProperties
<1>2. SUFFICES bad = {}
  BY <1>2
<1>3. SUFFICES ASSUME bad # {} PROVE FALSE
  OBVIOUS
<1>4. bad \in SUBSET Nat
  BY <1>1
<1>5. PICK k \in bad : \A y \in bad : k <= y
  <2> HIDE DEF bad
  <2> QED
    BY <1>3, <1>4, LeastNat
<1>6. k \in 0..Len(list) /\ ~Has(k)
  OBVIOUS
<1> HIDE DEF bad
<1>7. CASE k = 0
  <2> DEFINE f == [i \in 0..0 |-> start]
  <2>1. f \in [0..0 -> S] /\ Walks(f, step, start, list, 0)
    BY DEF Walks
  <2> HIDE DEF f
  <2> QED
    BY <1>6, <1>7, <2>1
<1>8. CASE k # 0
  <2>1. k - 1 \in 0..Len(list) /\ k \in 1..Len(list)
    BY <1>1, <1>6, <1>8
  <2>2. Has(k - 1)
    <3>1. ~(k <= k - 1)
      BY <2>1
    <3>2. k - 1 \notin bad
      BY <1>5, <3>1
    <3> QED
      BY <2>1, <3>2 DEF bad
  <2>3. PICK g \in [0..(k - 1) -> S] : Walks(g, step, start, list, k - 1)
    BY <2>2
  <2> DEFINE next == step[g[k - 1]][list[k]]
             f == [i \in 0..k |-> IF i = k THEN next ELSE g[i]]
  <2>4. next \in S
    <3>1. g[k - 1] \in S /\ list[k] \in R
      BY <1>1, <2>1
    <3> QED
      BY <3>1
  <2> HIDE DEF next
  <2>5. f \in [0..k -> S]
    BY <2>1, <2>4
  <2>6. Walks(f, step, start, list, k)
    <3>1. f[0] = start
      <4>1. 0 \in 0..k /\ 0 # k
        BY <1>8, <2>1
      <4>2. f[0] = g[0]
        BY <4>1
      <4> QED
        BY <2>3, <4>2 DEF Walks
    <3>2. ASSUME NEW i \in 1..k PROVE f[i] = step[f[i - 1]][list[i]]
      <4>1. CASE i = k
        <5>1. f[k] = next /\ f[k - 1] = g[k - 1]
          BY <2>1
        <5> QED
          BY <4>1, <5>1 DEF next
      <4>2. CASE i # k
        <5>1. i \in 1..(k - 1)
          BY <2>1, <4>2
        <5>2. g[i] = step[g[i - 1]][list[i]]
          BY <2>3, <5>1 DEF Walks
        <5>3. f[i] = g[i] /\ f[i - 1] = g[i - 1]
          BY <2>1, <4>2, <5>1
        <5> QED
          BY <5>2, <5>3
      <4> QED
        BY <4>1, <4>2
    <3> QED
      BY <3>1, <3>2 DEF Walks
  <2> HIDE DEF f
  <2> QED
    BY <1>6, <2>5, <2>6
<1> QED
  BY <1>7, <1>8

-----------------------------------------------------------------------------
(* The demon.                                                              *)

\* A node is not where another one has its name.
Names == {"own", "free"}
Spots == {t \in [at : Spot, name : Names, taken : SUBSET Spot] : t.name = "own" => t.at \notin t.taken}
CallSet == [action : {"move", "remove", "insert", "list"}, q : Spot] \cup [action : {"update"}, q : Names]
MoveSet == [action : {"move"}, q : Spot]
StackSet == [calls : Seq(CallSet), mode : {"user", "undo", "redo"}]

\* A call that does what it says, and that its reverse undoes.
CanPass(t, c) ==
  /\ c.action # "list"
  /\ c.action = "remove" => c.q \in t.taken
  /\ c.action = "insert" => c.q \notin t.taken /\ (t.name = "own" => c.q # t.at)
  /\ c.action = "move" => (t.name = "own" => c.q \notin t.taken)
  /\ c.action = "update" => c.q # t.name /\ (c.q = "own" => t.at \notin t.taken)

\* The calls from the i-th on lead from t to u.
Remains(work, i, t, u) ==
  \E w \in [0..Len(work) -> Spots] :
    /\ w[i - 1] = t /\ w[Len(work)] = u
    /\ \A j \in i..Len(work) : CanPass(w[j - 1], work[j]) /\ w[j] = DE!applyAction(w[j - 1], work[j])
Leading(t, list, u) == Remains(list, 1, t, u)

\* The entries of a list lead from t back to first, from the last one on.
Back(list, t, first) ==
  \E p \in [0..Len(list) -> Spots] :
    /\ p[Len(list)] = t /\ p[0] = first
    /\ \A k \in 1..Len(list) : Leading(p[k], list[k], p[k - 1])

\* The first k stacks lead from t to u.
Chain(list, k, t, u) ==
  \E p \in [0..k -> Spots] :
    /\ p[0] = t /\ p[k] = u
    /\ \A j \in 1..k : Leading(p[j - 1], list[j].calls, p[j])

\* The reverses of the calls that lead from start to t.
Undone(list, start, t) ==
  \E s \in [0..Len(list) -> Spots] :
    /\ s[0] = start /\ s[Len(list)] = t
    /\ \A i \in 1..Len(list) : CanPass(s[i], list[i]) /\ s[i - 1] = DE!applyAction(s[i], list[i])

\* Where the entries lead once what is done is undone, and once what is to be
\* done is done.
Behind(list, first, t, done) == \E start \in Spots : Undone(done, start, t) /\ Back(list, start, first)
Ahead(list, first, t, work, i, stacks, k) ==
  \E u, v \in Spots : Remains(work, i, t, u) /\ Chain(stacks, k, u, v) /\ Back(list, v, first)

\* The reverse of a call leads back, and can.
LEMMA CallReversed ==
  ASSUME NEW t \in Spots, NEW c \in CallSet, CanPass(t, c)
  PROVE  /\ DE!applyAction(t, c) \in Spots /\ DE!reverse(t, c) \in CallSet
         /\ CanPass(DE!applyAction(t, c), DE!reverse(t, c))
         /\ DE!applyAction(DE!applyAction(t, c), DE!reverse(t, c)) = t
<1>0. /\ t = [at |-> t.at, name |-> t.name, taken |-> t.taken] /\ t.at \in Spot /\ t.name \in Names /\ t.taken \in SUBSET Spot
      /\ (t.name = "own" => t.at \notin t.taken)
  BY DEF Spots
<1>1. CASE c.action = "move"
  <2>1. DE!applyAction(t, c) = [at |-> c.q, name |-> t.name, taken |-> t.taken]
    BY <1>0, <1>1 DEF DE!applyAction
  <2>2. DE!reverse(t, c) = [action |-> "move", q |-> t.at]
    BY <1>1 DEF DE!reverse, DE!Call
  <2>3. DE!applyAction([at |-> c.q, name |-> t.name, taken |-> t.taken], [action |-> "move", q |-> t.at])
          = [at |-> t.at, name |-> t.name, taken |-> t.taken]
    BY DEF DE!applyAction
  <2>4. c.q \in Spot /\ (t.name = "own" => c.q \notin t.taken)
    BY <1>1 DEF CanPass, CallSet
  <2>5. [at |-> c.q, name |-> t.name, taken |-> t.taken] \in Spots /\ [action |-> "move", q |-> t.at] \in CallSet
    BY <1>0, <2>4 DEF Spots, CallSet
  <2>6. CanPass([at |-> c.q, name |-> t.name, taken |-> t.taken], [action |-> "move", q |-> t.at])
    BY <1>0 DEF CanPass
  <2> QED BY <1>0, <2>1, <2>2, <2>3, <2>5, <2>6
<1>2. CASE c.action = "remove"
  <2>1. DE!applyAction(t, c) = [at |-> t.at, name |-> t.name, taken |-> t.taken \ {c.q}]
    BY <1>0, <1>2 DEF DE!applyAction
  <2>2. DE!reverse(t, c) = [action |-> "insert", q |-> c.q]
    BY <1>2 DEF DE!reverse, DE!Call
  <2>3. DE!applyAction([at |-> t.at, name |-> t.name, taken |-> t.taken \ {c.q}], [action |-> "insert", q |-> c.q])
          = [at |-> t.at, name |-> t.name, taken |-> (t.taken \ {c.q}) \cup {c.q}]
    BY DEF DE!applyAction
  <2>4. c.q \in Spot /\ c.q \in t.taken /\ (t.taken \ {c.q}) \cup {c.q} = t.taken /\ (t.name = "own" => c.q # t.at)
    BY <1>0, <1>2 DEF CanPass, CallSet
  <2>5. /\ [at |-> t.at, name |-> t.name, taken |-> t.taken \ {c.q}] \in Spots
        /\ [action |-> "insert", q |-> c.q] \in CallSet
    BY <1>0, <2>4 DEF Spots, CallSet
  <2>6. CanPass([at |-> t.at, name |-> t.name, taken |-> t.taken \ {c.q}], [action |-> "insert", q |-> c.q])
    BY <1>0, <2>4 DEF CanPass
  <2> QED BY <1>0, <2>1, <2>2, <2>3, <2>4, <2>5, <2>6
<1>3. CASE c.action = "insert"
  <2>1. DE!applyAction(t, c) = [at |-> t.at, name |-> t.name, taken |-> t.taken \cup {c.q}]
    BY <1>0, <1>3 DEF DE!applyAction
  <2>2. DE!reverse(t, c) = [action |-> "remove", q |-> c.q]
    BY <1>3 DEF DE!reverse, DE!Call
  <2>3. DE!applyAction([at |-> t.at, name |-> t.name, taken |-> t.taken \cup {c.q}], [action |-> "remove", q |-> c.q])
          = [at |-> t.at, name |-> t.name, taken |-> (t.taken \cup {c.q}) \ {c.q}]
    BY DEF DE!applyAction
  <2>4. c.q \in Spot /\ (t.taken \cup {c.q}) \ {c.q} = t.taken /\ (t.name = "own" => c.q # t.at)
    BY <1>0, <1>3 DEF CanPass, CallSet
  <2>5. /\ [at |-> t.at, name |-> t.name, taken |-> t.taken \cup {c.q}] \in Spots
        /\ [action |-> "remove", q |-> c.q] \in CallSet
    BY <1>0, <2>4 DEF Spots, CallSet
  <2>6. CanPass([at |-> t.at, name |-> t.name, taken |-> t.taken \cup {c.q}], [action |-> "remove", q |-> c.q])
    BY <1>0, <2>4 DEF CanPass
  <2> QED BY <1>0, <2>1, <2>2, <2>3, <2>4, <2>5, <2>6
<1>4. CASE c.action = "update"
  <2>1. DE!applyAction(t, c) = [at |-> t.at, name |-> c.q, taken |-> t.taken]
    BY <1>0, <1>4 DEF DE!applyAction
  <2>2. DE!reverse(t, c) = [action |-> "update", q |-> t.name]
    BY <1>4 DEF DE!reverse, DE!Call
  <2>3. DE!applyAction([at |-> t.at, name |-> c.q, taken |-> t.taken], [action |-> "update", q |-> t.name])
          = [at |-> t.at, name |-> t.name, taken |-> t.taken]
    BY DEF DE!applyAction
  <2>4. c.q \in Names /\ c.q # t.name /\ (c.q = "own" => t.at \notin t.taken)
    BY <1>4 DEF CanPass, CallSet
  <2>5. [at |-> t.at, name |-> c.q, taken |-> t.taken] \in Spots /\ [action |-> "update", q |-> t.name] \in CallSet
    BY <1>0, <2>4 DEF Spots, CallSet
  <2>6. CanPass([at |-> t.at, name |-> c.q, taken |-> t.taken], [action |-> "update", q |-> t.name])
    BY <1>0, <2>4 DEF CanPass
  <2> QED BY <1>0, <2>1, <2>2, <2>3, <2>5, <2>6
<1>5. c.action # "list"
  BY DEF CanPass
<1> QED BY <1>1, <1>2, <1>3, <1>4, <1>5 DEF CallSet

\* Nothing done.
LEMMA UndoneNothing ==
  ASSUME NEW t \in Spots
  PROVE  Undone(<<>>, t, t) /\ \A u : Undone(<<>>, u, t) => u = t
<1> DEFINE s == [i \in 0..0 |-> t]
<1>1. s \in [0..0 -> Spots] /\ s[0] = t
  OBVIOUS
<1>2. Len(<<>>) = 0 /\ ~ \E i \in 1..0 : TRUE
  OBVIOUS
<1> HIDE DEF s
<1>3. Undone(<<>>, t, t)
  BY <1>1, <1>2 DEF Undone
<1>4. ASSUME NEW u, Undone(<<>>, u, t) PROVE u = t
  BY <1>2, <1>4 DEF Undone
<1> QED BY <1>3, <1>4

\* One more call is done.
LEMMA UndoneMore ==
  ASSUME NEW start, NEW t \in Spots, NEW list \in Seq(CallSet), Undone(list, start, t),
         NEW c \in CallSet, CanPass(t, c)
  PROVE  /\ Undone(Append(list, DE!reverse(t, c)), start, DE!applyAction(t, c))
         /\ Append(list, DE!reverse(t, c)) \in Seq(CallSet)
<1> DEFINE n == Len(list)  r == DE!reverse(t, c)  u == DE!applyAction(t, c)  more == Append(list, r)
<1>1. PICK s \in [0..n -> Spots] :
        /\ s[0] = start /\ s[n] = t
        /\ \A i \in 1..n : CanPass(s[i], list[i]) /\ s[i - 1] = DE!applyAction(s[i], list[i])
  BY DEF Undone
<1>2. u \in Spots /\ r \in CallSet /\ CanPass(u, r) /\ DE!applyAction(u, r) = t
  BY CallReversed
<1> HIDE DEF r, u
<1>3. n \in Nat /\ more \in Seq(CallSet) /\ Len(more) = n + 1 /\ more[n + 1] = r /\ \A i \in 1..n : more[i] = list[i]
  BY <1>2
<1> HIDE DEF n, more
<1> DEFINE v == [i \in 0..(n + 1) |-> IF i = n + 1 THEN u ELSE s[i]]
<1>4. v \in [0..(n + 1) -> Spots] /\ v[n + 1] = u /\ \A i \in 0..n : v[i] = s[i]
  BY <1>2, <1>3
<1> HIDE DEF v
<1>5. ASSUME NEW i \in 1..(n + 1) PROVE CanPass(v[i], more[i]) /\ v[i - 1] = DE!applyAction(v[i], more[i])
  <2>1. CASE i = n + 1
    <3>1. i - 1 = n /\ n \in 0..n
      BY <1>3, <2>1
    <3> QED BY <1>1, <1>2, <1>3, <1>4, <2>1, <3>1
  <2>2. CASE i # n + 1
    <3>1. i \in 1..n /\ i - 1 \in 0..n /\ i \in 0..n
      BY <1>3, <2>2
    <3> QED BY <1>1, <1>3, <1>4, <3>1
  <2> QED BY <2>1, <2>2
<1>6. v[0] = start
  BY <1>1, <1>3, <1>4
<1>7. Undone(more, start, u)
  BY <1>3, <1>4, <1>5, <1>6 DEF Undone
<1> QED BY <1>3, <1>7 DEF more, r, u

\* The entry of what was done leads back.
LEMMA UndoneReversed ==
  ASSUME NEW start, NEW t, NEW list \in Seq(CallSet), Undone(list, start, t)
  PROVE  Leading(t, DE!entry(list), start) /\ DE!entry(list) \in Seq(CallSet)
<1> DEFINE n == Len(list)  back == DE!entry(list)
<1>1. PICK s \in [0..n -> Spots] :
        /\ s[0] = start /\ s[n] = t
        /\ \A i \in 1..n : CanPass(s[i], list[i]) /\ s[i - 1] = DE!applyAction(s[i], list[i])
  BY DEF Undone
<1>2. n \in Nat /\ back \in Seq(CallSet) /\ Len(back) = n /\ \A i \in 1..n : back[i] = list[(n - i) + 1]
  <2>1. back = [i \in 1..n |-> list[(n - i) + 1]]
    BY DEF DE!entry, DE!Reverse
  <2>2. n \in Nat /\ \A i \in 1..n : (n - i) + 1 \in 1..n
    OBVIOUS
  <2>3. \A i \in 1..n : list[(n - i) + 1] \in CallSet
    BY <2>2, ElementOfSeq
  <2>4. back \in [1..n -> CallSet]
    BY <2>1, <2>3
  <2> HIDE DEF n, back
  <2>5. back \in Seq(CallSet) /\ Len(back) = n
    BY <2>2, <2>4
  <2> QED BY <2>1, <2>2, <2>5
<1> HIDE DEF n, back
<1> DEFINE w == [i \in 0..n |-> s[n - i]]
<1>3. \A i \in 0..n : n - i \in 0..n /\ w[i] = s[n - i]
  BY <1>2
<1>4. w \in [0..n -> Spots]
  BY <1>2, <1>3
<1> HIDE DEF w
<1>5. ASSUME NEW j \in 1..n
      PROVE  CanPass(w[j - 1], back[j]) /\ w[j] = DE!applyAction(w[j - 1], back[j])
  <2>1. /\ j - 1 \in 0..n /\ j \in 0..n /\ n - (j - 1) = (n - j) + 1 /\ (n - j) + 1 \in 1..n
        /\ ((n - j) + 1) - 1 = n - j
    BY <1>2
  <2>2. w[j - 1] = s[(n - j) + 1] /\ w[j] = s[n - j] /\ back[j] = list[(n - j) + 1]
    BY <1>2, <1>3, <2>1
  <2>3. /\ CanPass(s[(n - j) + 1], list[(n - j) + 1])
        /\ s[n - j] = DE!applyAction(s[(n - j) + 1], list[(n - j) + 1])
    BY <1>1, <2>1
  <2> QED BY <2>2, <2>3
<1>6. w[0] = t /\ w[n] = start /\ 1 - 1 = 0
  <2>1. 0 \in 0..n /\ n \in 0..n /\ n - 0 = n /\ n - n = 0
    BY <1>2
  <2> QED BY <1>1, <1>3, <2>1
<1>7. Leading(t, back, start)
  BY <1>2, <1>4, <1>5, <1>6 DEF Leading, Remains
<1> QED BY <1>2, <1>7 DEF back

\* Nothing to undo.
LEMMA BackNothing ==
  ASSUME NEW t \in Spots
  PROVE  Back(<<>>, t, t)
<1> DEFINE p == [i \in 0..0 |-> t]
<1>1. p \in [0..0 -> Spots] /\ p[0] = t
  OBVIOUS
<1>2. Len(<<>>) = 0 /\ ~ \E i \in 1..0 : TRUE
  OBVIOUS
<1> HIDE DEF p
<1> QED BY <1>1, <1>2 DEF Back

\* An entry more.
LEMMA BackMore ==
  ASSUME NEW list \in Seq(Seq(CallSet)), NEW first, NEW u, NEW t \in Spots, NEW e \in Seq(CallSet),
         Back(list, u, first), Leading(t, e, u)
  PROVE  Back(Append(list, e), t, first) /\ Append(list, e) \in Seq(Seq(CallSet))
<1> DEFINE n == Len(list)  more == Append(list, e)
<1>1. PICK p \in [0..n -> Spots] :
        /\ p[n] = u /\ p[0] = first
        /\ \A k \in 1..n : Leading(p[k], list[k], p[k - 1])
  BY DEF Back
<1>2. /\ n \in Nat /\ more \in Seq(Seq(CallSet)) /\ Len(more) = n + 1 /\ more[n + 1] = e
      /\ \A i \in 1..n : more[i] = list[i]
  OBVIOUS
<1> HIDE DEF n, more
<1> DEFINE v == [i \in 0..(n + 1) |-> IF i = n + 1 THEN t ELSE p[i]]
<1>3. v \in [0..(n + 1) -> Spots] /\ v[n + 1] = t /\ \A i \in 0..n : v[i] = p[i]
  BY <1>2
<1> HIDE DEF v
<1>4. ASSUME NEW k \in 1..(n + 1) PROVE Leading(v[k], more[k], v[k - 1])
  <2>1. CASE k = n + 1
    <3>1. k - 1 = n /\ n \in 0..n
      BY <1>2, <2>1
    <3> QED BY <1>1, <1>2, <1>3, <2>1, <3>1
  <2>2. CASE k # n + 1
    <3>1. k \in 1..n /\ k - 1 \in 0..n /\ k \in 0..n
      BY <1>2, <2>2
    <3> QED BY <1>1, <1>2, <1>3, <3>1
  <2> QED BY <2>1, <2>2
<1>5. v[0] = first
  BY <1>1, <1>2, <1>3
<1>6. Back(more, t, first)
  BY <1>2, <1>3, <1>4, <1>5 DEF Back
<1> QED BY <1>2, <1>6 DEF more

\* The last entry is taken.
LEMMA BackLast ==
  ASSUME NEW list \in Seq(Seq(CallSet)), list # <<>>, NEW first, NEW t, Back(list, t, first)
  PROVE  /\ DE!Last(list) \in Seq(CallSet) /\ DE!Front(list) \in Seq(Seq(CallSet))
         /\ \E u \in Spots : Leading(t, DE!Last(list), u) /\ Back(DE!Front(list), u, first)
<1> DEFINE n == Len(list)  front == DE!Front(list)
<1>1. PICK p \in [0..n -> Spots] :
        /\ p[n] = t /\ p[0] = first
        /\ \A k \in 1..n : Leading(p[k], list[k], p[k - 1])
  BY DEF Back
<1>2. n \in Nat \ {0} /\ n - 1 \in Nat
  BY EmptySeq
<1>3. DE!Last(list) = list[n] /\ list[n] \in Seq(CallSet)
  BY <1>2, ElementOfSeq DEF DE!Last
<1>4. /\ front \in Seq(Seq(CallSet)) /\ Len(front) = n - 1
      /\ \A i \in 1..(n - 1) : front[i] = list[i]
  <2>1. front = SubSeq(list, 1, n - 1)
    BY DEF DE!Front
  <2>2. front = [i \in 1..(n - 1) |-> list[i]]
    BY <1>2, <2>1
  <2>3. \A i \in 1..(n - 1) : list[i] \in Seq(CallSet)
    BY <1>2, ElementOfSeq
  <2> QED BY <1>2, <2>2, <2>3
<1> HIDE DEF n, front
<1> DEFINE v == [i \in 0..(n - 1) |-> p[i]]
<1>5. v \in [0..(n - 1) -> Spots] /\ \A i \in 0..(n - 1) : v[i] = p[i]
  BY <1>2
<1> HIDE DEF v
<1>6. ASSUME NEW k \in 1..(n - 1) PROVE Leading(v[k], front[k], v[k - 1])
  <2>1. k \in 1..n /\ k - 1 \in 0..(n - 1) /\ k \in 0..(n - 1)
    BY <1>2
  <2> QED BY <1>1, <1>4, <1>5, <2>1
<1>7. p[n - 1] \in Spots /\ v[n - 1] = p[n - 1] /\ v[0] = first
  <2>1. 0 \in 0..(n - 1) /\ n - 1 \in 0..(n - 1) /\ n - 1 \in 0..n
    BY <1>2
  <2> QED BY <1>1, <1>5, <2>1
<1>8. Back(front, p[n - 1], first)
  BY <1>4, <1>5, <1>6, <1>7 DEF Back
<1>9. Leading(t, DE!Last(list), p[n - 1])
  <2>1. n \in 1..n
    BY <1>2
  <2> QED BY <1>1, <1>3, <2>1
<1> QED BY <1>3, <1>4, <1>7, <1>8, <1>9 DEF front

\* The first entry is forgotten.
LEMMA BackTail ==
  ASSUME NEW list \in Seq(Seq(CallSet)), list # <<>>, NEW first, NEW t, Back(list, t, first)
  PROVE  Tail(list) \in Seq(Seq(CallSet)) /\ \E u \in Spots : Back(Tail(list), t, u)
<1> DEFINE n == Len(list)  rest == Tail(list)
<1>1. PICK p \in [0..n -> Spots] :
        /\ p[n] = t /\ p[0] = first
        /\ \A k \in 1..n : Leading(p[k], list[k], p[k - 1])
  BY DEF Back
<1>2. n \in Nat \ {0} /\ n - 1 \in Nat
  BY EmptySeq
<1>3. rest \in Seq(Seq(CallSet)) /\ Len(rest) = n - 1 /\ \A i \in 1..(n - 1) : rest[i] = list[i + 1]
  BY HeadTailProperties
<1> HIDE DEF n, rest
<1> DEFINE v == [i \in 0..(n - 1) |-> p[i + 1]]
<1>4. v \in [0..(n - 1) -> Spots] /\ \A i \in 0..(n - 1) : v[i] = p[i + 1]
  BY <1>2
<1> HIDE DEF v
<1>5. ASSUME NEW k \in 1..(n - 1) PROVE Leading(v[k], rest[k], v[k - 1])
  <2>1. k + 1 \in 1..n /\ k - 1 \in 0..(n - 1) /\ k \in 0..(n - 1) /\ (k + 1) - 1 = k /\ (k - 1) + 1 = k
    BY <1>2
  <2>2. Leading(p[k + 1], list[k + 1], p[k])
    BY <1>1, <2>1
  <2>3. v[k] = p[k + 1] /\ v[k - 1] = p[k] /\ rest[k] = list[k + 1]
    BY <1>3, <1>4, <2>1
  <2> QED BY <2>2, <2>3
<1>6. v[0] \in Spots /\ v[n - 1] = t
  <2>1. 0 \in 0..(n - 1) /\ n - 1 \in 0..(n - 1) /\ (n - 1) + 1 = n
    BY <1>2
  <2> QED BY <1>1, <1>4, <2>1
<1>7. Back(rest, t, v[0])
  BY <1>3, <1>4, <1>5, <1>6 DEF Back
<1> QED BY <1>3, <1>6, <1>7 DEF rest

\* The next call can pass, and leads to where the others start.
LEMMA RemainsNext ==
  ASSUME NEW work \in Seq(CallSet), NEW i \in 1..Len(work), NEW t, NEW u, Remains(work, i, t, u)
  PROVE  CanPass(t, work[i]) /\ Remains(work, i + 1, DE!applyAction(t, work[i]), u)
<1>1. PICK w \in [0..Len(work) -> Spots] :
        /\ w[i - 1] = t /\ w[Len(work)] = u
        /\ \A j \in i..Len(work) : CanPass(w[j - 1], work[j]) /\ w[j] = DE!applyAction(w[j - 1], work[j])
  BY DEF Remains
<1>2. Len(work) \in Nat /\ i \in i..Len(work) /\ (i + 1) - 1 = i /\ \A j \in (i + 1)..Len(work) : j \in i..Len(work)
  OBVIOUS
<1>3. CanPass(t, work[i]) /\ w[i] = DE!applyAction(t, work[i])
  BY <1>1, <1>2
<1> QED BY <1>1, <1>2, <1>3 DEF Remains

\* No call is left.
LEMMA RemainsOver ==
  ASSUME NEW work \in Seq(CallSet), NEW i \in Nat, i = Len(work) + 1, NEW t, NEW u, Remains(work, i, t, u)
  PROVE  t = u
<1>1. Len(work) \in Nat /\ i - 1 = Len(work)
  OBVIOUS
<1> QED BY <1>1 DEF Remains

\* No stack.
LEMMA ChainNothing ==
  ASSUME NEW list, NEW t \in Spots
  PROVE  Chain(list, 0, t, t) /\ \A u : Chain(list, 0, t, u) => u = t
<1> DEFINE p == [i \in 0..0 |-> t]
<1>1. p \in [0..0 -> Spots] /\ p[0] = t
  OBVIOUS
<1>2. ~ \E i \in 1..0 : TRUE
  OBVIOUS
<1> HIDE DEF p
<1>3. Chain(list, 0, t, t)
  BY <1>1, <1>2 DEF Chain
<1>4. ASSUME NEW u, Chain(list, 0, t, u) PROVE u = t
  BY <1>4 DEF Chain
<1> QED BY <1>3, <1>4

\* The stacks after those do not matter.
LEMMA ChainSame ==
  ASSUME NEW list, NEW more, NEW k, NEW t, NEW u, Chain(list, k, t, u), \A j \in 1..k : more[j] = list[j]
  PROVE  Chain(more, k, t, u)
<1> QED BY DEF Chain

\* A stack more.
LEMMA ChainMore ==
  ASSUME NEW list, NEW k \in Nat, NEW t, NEW u, Chain(list, k, t, u),
         NEW v \in Spots, Leading(u, list[k + 1].calls, v)
  PROVE  Chain(list, k + 1, t, v)
<1>1. PICK p \in [0..k -> Spots] :
        p[0] = t /\ p[k] = u /\ \A j \in 1..k : Leading(p[j - 1], list[j].calls, p[j])
  BY DEF Chain
<1> DEFINE w == [i \in 0..(k + 1) |-> IF i = k + 1 THEN v ELSE p[i]]
<1>2. w \in [0..(k + 1) -> Spots] /\ w[k + 1] = v /\ \A i \in 0..k : w[i] = p[i]
  OBVIOUS
<1> HIDE DEF w
<1>3. ASSUME NEW j \in 1..(k + 1) PROVE Leading(w[j - 1], list[j].calls, w[j])
  <2>1. CASE j = k + 1
    <3>1. j - 1 = k /\ k \in 0..k
      BY <2>1
    <3> QED BY <1>1, <1>2, <2>1, <3>1
  <2>2. CASE j # k + 1
    <3>1. j \in 1..k /\ j - 1 \in 0..k /\ j \in 0..k
      BY <2>2
    <3> QED BY <1>1, <1>2, <3>1
  <2> QED BY <2>1, <2>2
<1> QED BY <1>1, <1>2, <1>3 DEF Chain

\* The first stack is taken.
LEMMA ChainTail ==
  ASSUME NEW S, NEW list \in Seq(S), NEW k \in 1..Len(list), NEW t, NEW u, Chain(list, k, t, u)
  PROVE  \E v \in Spots : Leading(t, Head(list).calls, v) /\ Chain(Tail(list), k - 1, v, u)
<1>1. PICK p \in [0..k -> Spots] :
        p[0] = t /\ p[k] = u /\ \A j \in 1..k : Leading(p[j - 1], list[j].calls, p[j])
  BY DEF Chain
<1>2. k \in Nat \ {0} /\ k - 1 \in Nat /\ list # <<>> /\ Len(list) \in Nat
  OBVIOUS
<1>3. Head(list) = list[1] /\ \A j \in 1..(k - 1) : Tail(list)[j] = list[j + 1]
  BY <1>2, HeadTailProperties
<1> DEFINE w == [i \in 0..(k - 1) |-> p[i + 1]]
<1>4. w \in [0..(k - 1) -> Spots] /\ \A i \in 0..(k - 1) : w[i] = p[i + 1]
  BY <1>2
<1> HIDE DEF w
<1>5. ASSUME NEW j \in 1..(k - 1) PROVE Leading(w[j - 1], Tail(list)[j].calls, w[j])
  <2>1. j + 1 \in 1..k /\ j - 1 \in 0..(k - 1) /\ j \in 0..(k - 1) /\ (j + 1) - 1 = j /\ (j - 1) + 1 = j
    BY <1>2
  <2>2. Leading(p[j], list[j + 1].calls, p[j + 1])
    BY <1>1, <2>1
  <2>3. w[j - 1] = p[j] /\ w[j] = p[j + 1] /\ Tail(list)[j] = list[j + 1]
    BY <1>3, <1>4, <2>1
  <2> QED BY <2>2, <2>3
<1>6. w[0] = p[1] /\ w[k - 1] = u /\ w[0] \in Spots
  <2>1. 0 \in 0..(k - 1) /\ k - 1 \in 0..(k - 1) /\ (k - 1) + 1 = k /\ 0 + 1 = 1
    BY <1>2
  <2> QED BY <1>1, <1>4, <2>1
<1>7. Leading(t, Head(list).calls, w[0])
  <2>1. 1 \in 1..k /\ 1 - 1 = 0
    BY <1>2
  <2> QED BY <1>1, <1>3, <1>6, <2>1
<1>8. Chain(Tail(list), k - 1, w[0], u)
  BY <1>4, <1>5, <1>6 DEF Chain
<1> QED BY <1>6, <1>7, <1>8

\* Calls lead where they are said to, from their recursive definition.
LEMMA AlongIs ==
  ASSUME NEW t, NEW u, NEW work \in Seq(CallSet), Leading(t, work, u)
  PROVE  DE!Along(t, work)[Len(work)] = u
<1> DEFINE n == Len(work)  g == DE!Along(t, work)
           Is(f) == f = [i \in 0..n |-> IF i = 0 THEN t ELSE DE!applyAction(f[i - 1], work[i])]
<1>1. PICK w \in [0..n -> Spots] :
        /\ w[0] = t /\ w[n] = u
        /\ \A j \in 1..n : CanPass(w[j - 1], work[j]) /\ w[j] = DE!applyAction(w[j - 1], work[j])
  <2>1. 1 - 1 = 0
    OBVIOUS
  <2> QED BY <2>1 DEF Leading, Remains
<1>2. n \in Nat /\ n \in 0..n
  OBVIOUS
<1>3. Is(w)
  <2>1. ASSUME NEW i \in 0..n PROVE w[i] = IF i = 0 THEN t ELSE DE!applyAction(w[i - 1], work[i])
    <3>1. i = 0 \/ i \in 1..n
      BY <1>2
    <3> QED BY <1>1, <3>1
  <2> QED BY <2>1
<1>4. Is(g)
  BY <1>3 DEF DE!Along
<1> HIDE DEF g
<1>5. \A i \in 1..n : g[i] = DE!applyAction(g[i - 1], work[i])
  BY <1>2, <1>4
<1>6. g[0] = t
  BY <1>2, <1>4
<1> DEFINE bad == {i \in 0..n : g[i] # w[i]}
<1>7. bad = {}
  <2> SUFFICES ASSUME bad # {} PROVE FALSE
    OBVIOUS
  <2>1. bad \in SUBSET Nat
    BY <1>2
  <2>2. PICK k \in bad : \A y \in bad : k <= y
    <3> HIDE DEF bad
    <3> QED BY <2>1, LeastNat
  <2>3. k \in 0..n /\ g[k] # w[k]
    OBVIOUS
  <2>4. k \in 1..n /\ k - 1 \in 0..n /\ ~(k <= k - 1)
    BY <1>1, <1>2, <1>6, <2>3
  <2>5. g[k - 1] = w[k - 1]
    BY <2>2, <2>4
  <2> QED BY <1>1, <1>5, <2>3, <2>4, <2>5
<1>8. g[n] = w[n]
  BY <1>2, <1>7
<1> QED BY <1>1, <1>8 DEF g

\* And so do the entries of a list.
LEMMA WalkIs ==
  ASSUME NEW t, NEW first, NEW list \in Seq(Seq(CallSet)), Back(list, t, first)
  PROVE  DE!Walk(t, list) = first
<1> DEFINE n == Len(list)
           Is(f) == f = [k \in 0..n |-> IF k = n THEN t ELSE DE!Along(f[k + 1], list[k + 1])[Len(list[k + 1])]]
           g == CHOOSE f : Is(f)
<1>1. PICK p \in [0..n -> Spots] : p[n] = t /\ p[0] = first /\ \A k \in 1..n : Leading(p[k], list[k], p[k - 1])
  BY DEF Back
<1>2. n \in Nat /\ n \in 0..n /\ 0 \in 0..n /\ \A k \in 1..n : list[k] \in Seq(CallSet)
  BY ElementOfSeq
<1>3. ASSUME NEW k \in 0..n, k # n PROVE p[k] = DE!Along(p[k + 1], list[k + 1])[Len(list[k + 1])]
  <2>1. k + 1 \in 1..n /\ (k + 1) - 1 = k
    BY <1>2, <1>3
  <2>2. Leading(p[k + 1], list[k + 1], p[k]) /\ list[k + 1] \in Seq(CallSet)
    BY <1>1, <1>2, <2>1
  <2> QED BY <2>2, AlongIs
<1>4. Is(p)
  BY <1>1, <1>3
<1>5. Is(g)
  BY <1>4
<1>6. DE!Walk(t, list) = g[0]
  BY DEF DE!Walk
<1> HIDE DEF g
<1> DEFINE bad == {i \in 0..n : g[n - i] # p[n - i]}
<1>7. bad = {}
  <2> SUFFICES ASSUME bad # {} PROVE FALSE
    OBVIOUS
  <2>1. bad \in SUBSET Nat
    BY <1>2
  <2>2. PICK k \in bad : \A y \in bad : k <= y
    <3> HIDE DEF bad
    <3> QED BY <2>1, LeastNat
  <2>3. k \in 0..n /\ g[n - k] # p[n - k] /\ n - k \in 0..n
    BY <1>2
  <2>4. k # 0
    <3>1. g[n] = t
      BY <1>2, <1>5
    <3>2. n - 0 = n
      BY <1>2
    <3> QED BY <1>1, <2>3, <3>1, <3>2
  <2>5. k - 1 \in 0..n /\ ~(k <= k - 1) /\ n - k # n /\ n - (k - 1) = (n - k) + 1
    BY <1>2, <2>3, <2>4
  <2>6. g[(n - k) + 1] = p[(n - k) + 1]
    BY <2>2, <2>5
  <2>7. g[n - k] = DE!Along(g[(n - k) + 1], list[(n - k) + 1])[Len(list[(n - k) + 1])]
    BY <1>5, <2>3, <2>5
  <2>8. p[n - k] = DE!Along(p[(n - k) + 1], list[(n - k) + 1])[Len(list[(n - k) + 1])]
    BY <1>3, <2>3, <2>5
  <2> QED BY <2>3, <2>6, <2>7, <2>8
<1>8. g[0] = p[0]
  <2>1. n - n = 0
    BY <1>2
  <2> QED BY <1>2, <1>7, <2>1
<1> QED BY <1>1, <1>6, <1>8

\* With nothing done and nothing remembered.
LEMMA BehindNothing ==
  ASSUME NEW t \in Spots
  PROVE  Behind(<<>>, t, t, <<>>)
<1> QED BY UndoneNothing, BackNothing DEF Behind

\* What the entries lead to, once nothing is done.
LEMMA BehindWalk ==
  ASSUME NEW list \in Seq(Seq(CallSet)), NEW first, NEW t \in Spots, Behind(list, first, t, <<>>)
  PROVE  Back(list, t, first) /\ DE!Walk(t, list) = first
<1>1. PICK start \in Spots : Undone(<<>>, start, t) /\ Back(list, start, first)
  BY DEF Behind
<1>2. start = t
  BY <1>1, UndoneNothing
<1> QED BY <1>1, <1>2, WalkIs

\* A call is done.
LEMMA BehindCall ==
  ASSUME NEW list, NEW first, NEW t \in Spots, NEW done \in Seq(CallSet), Behind(list, first, t, done),
         NEW c \in CallSet, CanPass(t, c)
  PROVE  Behind(list, first, DE!applyAction(t, c), Append(done, DE!reverse(t, c)))
<1>1. PICK start \in Spots : Undone(done, start, t) /\ Back(list, start, first)
  BY DEF Behind
<1>2. Undone(Append(done, DE!reverse(t, c)), start, DE!applyAction(t, c))
  BY <1>1, UndoneMore
<1> QED BY <1>1, <1>2 DEF Behind

\* What was done is an entry.
LEMMA BehindEntry ==
  ASSUME NEW list \in Seq(Seq(CallSet)), NEW first, NEW t \in Spots, NEW done \in Seq(CallSet), Behind(list, first, t, done)
  PROVE  /\ Behind(Append(list, DE!entry(done)), first, t, <<>>)
         /\ Append(list, DE!entry(done)) \in Seq(Seq(CallSet))
<1>1. PICK start \in Spots : Undone(done, start, t) /\ Back(list, start, first)
  BY DEF Behind
<1>2. Leading(t, DE!entry(done), start) /\ DE!entry(done) \in Seq(CallSet)
  BY <1>1, UndoneReversed
<1>3. Back(Append(list, DE!entry(done)), t, first) /\ Append(list, DE!entry(done)) \in Seq(Seq(CallSet))
  BY <1>1, <1>2, BackMore
<1> QED BY <1>3, UndoneNothing DEF Behind

\* And the oldest one is forgotten.
LEMMA BehindForgotten ==
  ASSUME NEW list \in Seq(Seq(CallSet)), list # <<>>, NEW first, NEW t, NEW done, Behind(list, first, t, done)
  PROVE  Tail(list) \in Seq(Seq(CallSet)) /\ \E u \in Spots : Behind(Tail(list), u, t, done)
<1>1. PICK start \in Spots : Undone(done, start, t) /\ Back(list, start, first)
  BY DEF Behind
<1>2. Tail(list) \in Seq(Seq(CallSet)) /\ \E u \in Spots : Back(Tail(list), start, u)
  BY <1>1, BackTail
<1> QED BY <1>1, <1>2 DEF Behind

\* The last entry is treated, when nothing was.
LEMMA BehindTaken ==
  ASSUME NEW list \in Seq(Seq(CallSet)), list # <<>>, NEW first, NEW t \in Spots, Behind(list, first, t, <<>>), NEW stacks
  PROVE  Ahead(DE!Front(list), first, t, DE!Last(list), 1, stacks, 0)
<1>1. Back(list, t, first)
  BY BehindWalk
<1>2. PICK u \in Spots : Leading(t, DE!Last(list), u) /\ Back(DE!Front(list), u, first)
  BY <1>1, BackLast
<1>3. Chain(stacks, 0, u, u)
  BY ChainNothing
<1> QED BY <1>2, <1>3 DEF Ahead, Leading

\* It is deferred, when others are before it.
LEMMA AheadTaken ==
  ASSUME NEW list \in Seq(Seq(CallSet)), list # <<>>, NEW first, NEW t, NEW work, NEW i,
         NEW stacks \in Seq(StackSet), Ahead(list, first, t, work, i, stacks, Len(stacks)),
         NEW s \in StackSet, s.calls = DE!Last(list)
  PROVE  Ahead(DE!Front(list), first, t, work, i, Append(stacks, s), Len(stacks) + 1)
<1> DEFINE n == Len(stacks)  more == Append(stacks, s)
<1>1. PICK u \in Spots, v \in Spots :
        Remains(work, i, t, u) /\ Chain(stacks, n, u, v) /\ Back(list, v, first)
  BY DEF Ahead
<1>2. PICK x \in Spots : Leading(v, DE!Last(list), x) /\ Back(DE!Front(list), x, first)
  BY <1>1, BackLast
<1>3. n \in Nat /\ more[n + 1] = s /\ \A j \in 1..n : more[j] = stacks[j]
  OBVIOUS
<1> HIDE DEF n, more
<1>4. Chain(more, n, u, v)
  BY <1>1, <1>3, ChainSame
<1>5. Chain(more, n + 1, u, x)
  BY <1>2, <1>3, <1>4, ChainMore
<1>6. Ahead(DE!Front(list), first, t, work, i, more, n + 1)
  BY <1>1, <1>2, <1>5 DEF Ahead
<1> QED BY <1>6 DEF n, more

\* Another stack is deferred.
LEMMA AheadDeferred ==
  ASSUME NEW list, NEW first, NEW t, NEW work, NEW i, NEW S, NEW stacks \in Seq(S), NEW k \in 0..Len(stacks),
         Ahead(list, first, t, work, i, stacks, k), NEW s \in S
  PROVE  Ahead(list, first, t, work, i, Append(stacks, s), k)
<1>1. \A j \in 1..k : Append(stacks, s)[j] = stacks[j]
  OBVIOUS
<1> QED BY <1>1, ChainSame DEF Ahead

\* A call of the stack is done, or skipped where it changes nothing.
LEMMA AheadCall ==
  ASSUME NEW list, NEW first, NEW t, NEW work \in Seq(CallSet), NEW i \in 1..Len(work), NEW stacks, NEW k,
         Ahead(list, first, t, work, i, stacks, k)
  PROVE  CanPass(t, work[i]) /\ Ahead(list, first, DE!applyAction(t, work[i]), work, i + 1, stacks, k)
<1> QED BY RemainsNext DEF Ahead

\* The stack is over, and was the last one.
LEMMA AheadOver ==
  ASSUME NEW list, NEW first, NEW t \in Spots, NEW work \in Seq(CallSet), NEW i \in Nat, i = Len(work) + 1,
         NEW stacks, Ahead(list, first, t, work, i, stacks, 0)
  PROVE  Behind(list, first, t, <<>>)
<1>1. PICK u \in Spots, v \in Spots :
        Remains(work, i, t, u) /\ Chain(stacks, 0, u, v) /\ Back(list, v, first)
  BY DEF Ahead
<1>2. t = u
  BY <1>1, RemainsOver
<1>3. u = v
  BY <1>1, ChainNothing
<1> QED BY <1>1, <1>2, <1>3, UndoneNothing DEF Behind

\* Or the next one starts.
LEMMA AheadNext ==
  ASSUME NEW list, NEW first, NEW t \in Spots, NEW work \in Seq(CallSet), NEW i \in Nat, i = Len(work) + 1,
         NEW stacks \in Seq(StackSet), NEW k \in 1..Len(stacks), Ahead(list, first, t, work, i, stacks, k)
  PROVE  Ahead(list, first, t, Head(stacks).calls, 1, Tail(stacks), k - 1)
<1>1. PICK u \in Spots, v \in Spots :
        Remains(work, i, t, u) /\ Chain(stacks, k, u, v) /\ Back(list, v, first)
  BY DEF Ahead
<1>2. t = u
  BY <1>1, RemainsOver
<1>3. \E x \in Spots : Leading(u, Head(stacks).calls, x) /\ Chain(Tail(stacks), k - 1, x, v)
  BY <1>1, ChainTail
<1> QED BY <1>1, <1>2, <1>3 DEF Ahead, Leading

-----------------------------------------------------------------------------
(* Its invariant.                                                          *)

\* The first k of the deferred stacks are of the mode, the others the user's.
Modes(stacks, k, mode) == \A j \in 1..Len(stacks) : stacks[j].mode = IF j <= k THEN mode ELSE "user"
MovesFrom(work, i) == \A j \in i..Len(work) : work[j] \in MoveSet

\* The entries of a list lead to first: once the stacks of its mode are done,
\* or once what was done is undone.
Led(mode, list, first, t, s, i, stacks, k, done) ==
  IF s.mode = mode THEN Ahead(list, first, t, s.calls, i, stacks, k) ELSE Behind(list, first, t, done)

DemonWaits ==
  /\ lockers \in Nat /\ (ins # <<>> => lockers > 0)
  /\ treated = [calls |-> treated.calls, mode |-> treated.mode]
  /\ treated.mode = "none" => treated = DE!Null /\ deferred = <<>> /\ waiting = "nothing"
  /\ \E S : deferred \in Seq(S) /\ \A x \in S : x.mode # "none" /\ x = [calls |-> x.calls, mode |-> x.mode]
  /\ waiting = "forever" => mixed

DemonTyped ==
  /\ tree \in Spots /\ base \in Spots /\ latest \in Spots
  /\ ins \in Seq(MoveSet)
  /\ treated \in StackSet \cup {DE!Null} /\ deferred \in Seq(StackSet)
  /\ \A j \in 1..Len(deferred) : deferred[j].mode = "user" => MovesFrom(deferred[j].calls, 1)
  /\ restorers \in Seq(CallSet) /\ undos \in Seq(Seq(CallSet)) /\ redos \in Seq(Seq(CallSet))
  /\ waiting \in {"nothing", "server", "user"}

DemonAt ==
  /\ call \in CallSet
  /\ treated.mode # "none" => index \in 1..(Len(treated.calls) + 1)
  /\ treated.mode = "none" => restorers = <<>>
  /\ waiting # "nothing" => index \in 1..Len(treated.calls)
  /\ waiting = "server" => \/ call.action = "list"
                           \/ CanPass(tree, call) /\ (treated.mode # "user" => call = treated.calls[index])
  /\ waiting = "user" => /\ treated.mode = "user" /\ call = treated.calls[index]
                         /\ call.action = "move" /\ call.q \in tree.taken /\ tree.name = "own"
  /\ treated.mode = "user" => MovesFrom(treated.calls, IF waiting = "nothing" THEN index ELSE index + 1)

\* A list that is asked of the server is in the place of the call before it,
\* and leaves the calls after it as they were.
Reached == IF waiting = "server" /\ call.action = "list" THEN index + 1 ELSE index

DemonHistory ==
  \E k \in 0..Len(deferred) :
    /\ Modes(deferred, k, treated.mode) /\ (treated.mode \in {"none", "user"} => k = 0)
    /\ Led("undo", undos, base, tree, treated, Reached, deferred, k, restorers)
    /\ Led("redo", redos, latest, tree, treated, Reached, deferred, k, restorers)

DemonInv == DemonWaits /\ (~mixed => DemonTyped /\ DemonAt /\ DemonHistory)

\* At first nothing is asked.
LEMMA DemonStart == ASSUME DE!DemonAssumption, DE!Init PROVE DemonInv
<1> USE DEF DE!Init
<1>1. tree = [at |-> Home, name |-> "own", taken |-> Occupied] /\ tree \in Spots /\ base = tree /\ latest = tree
  BY DEF DE!DemonAssumption, Spots, Names
<1>2. treated = DE!Null /\ treated.mode = "none" /\ treated.calls = <<>> /\ treated = [calls |-> treated.calls, mode |-> treated.mode]
  BY DEF DE!Null
<1>3. call \in CallSet
  BY DEF DE!DemonAssumption, CallSet, DE!Call
<1>4. DemonWaits
  <2>1. deferred \in Seq({})
    OBVIOUS
  <2> QED BY <1>2, <2>1 DEF DemonWaits
<1>5. DemonTyped
  BY <1>1, <1>2 DEF DemonTyped
<1>6. DemonAt
  BY <1>2, <1>3 DEF DemonAt
<1>7. DemonHistory
  <2>1. Behind(<<>>, tree, tree, <<>>)
    BY <1>1, BehindNothing
  <2>2. Led("undo", undos, base, tree, treated, index, deferred, 0, restorers)
        /\ Led("redo", redos, latest, tree, treated, index, deferred, 0, restorers)
    BY <1>1, <1>2, <2>1 DEF Led
  <2>3. 0 \in 0..Len(deferred) /\ Modes(deferred, 0, treated.mode)
    BY DEF Modes
  <2> QED BY <2>2, <2>3 DEF DemonHistory, Reached
<1> QED BY <1>4, <1>5, <1>6, <1>7 DEF DemonInv

\* A call that can pass is done.
LEMMA LedCall ==
  ASSUME NEW mode, NEW list, NEW first, NEW t \in Spots, NEW s \in StackSet, NEW i \in 1..Len(s.calls),
         NEW stacks, NEW k, NEW done \in Seq(CallSet), Led(mode, list, first, t, s, i, stacks, k, done),
         NEW c \in CallSet, CanPass(t, c), mode # "user", s.mode # "user" => c = s.calls[i]
  PROVE  Led(mode, list, first, DE!applyAction(t, c), s, i + 1, stacks, k, Append(done, DE!reverse(t, c)))
<1>1. s.calls \in Seq(CallSet)
  BY DEF StackSet
<1>2. CASE s.mode = mode
  <2>1. Ahead(list, first, t, s.calls, i, stacks, k)
    BY <1>2 DEF Led
  <2>2. Ahead(list, first, DE!applyAction(t, s.calls[i]), s.calls, i + 1, stacks, k)
    BY <1>1, <2>1, AheadCall
  <2> QED BY <1>2, <2>2 DEF Led
<1>3. CASE s.mode # mode
  <2>1. Behind(list, first, t, done)
    BY <1>3 DEF Led
  <2>2. Behind(list, first, DE!applyAction(t, c), Append(done, DE!reverse(t, c)))
    BY <2>1, BehindCall
  <2> QED BY <1>3, <2>2 DEF Led
<1> QED BY <1>2, <1>3

\* A call that changes nothing is left out.
LEMMA LedSkip ==
  ASSUME NEW mode, NEW list, NEW first, NEW t \in Spots, NEW s \in StackSet, NEW i \in 1..Len(s.calls),
         NEW stacks, NEW k, NEW done, Led(mode, list, first, t, s, i, stacks, k, done),
         DE!applyAction(t, s.calls[i]) = t
  PROVE  Led(mode, list, first, t, s, i + 1, stacks, k, done)
<1>1. s.calls \in Seq(CallSet)
  BY DEF StackSet
<1>2. CASE s.mode = mode
  <2>1. Ahead(list, first, t, s.calls, i, stacks, k)
    BY <1>2 DEF Led
  <2>2. Ahead(list, first, DE!applyAction(t, s.calls[i]), s.calls, i + 1, stacks, k)
    BY <1>1, <2>1, AheadCall
  <2> QED BY <1>2, <2>2 DEF Led
<1> QED BY <1>2 DEF Led

\* The next call of undo and redo can pass.
LEMMA LedCanPass ==
  ASSUME NEW list, NEW first, NEW t, NEW s \in StackSet, NEW i \in 1..Len(s.calls),
         NEW stacks, NEW k, NEW done, Led(s.mode, list, first, t, s, i, stacks, k, done)
  PROVE  CanPass(t, s.calls[i])
<1>1. s.calls \in Seq(CallSet)
  BY DEF StackSet
<1> QED BY <1>1, AheadCall DEF Led

\* The user asks for a call.
LEMMA DemonDemand == ASSUME DemonInv, NEW q \in Spot, DE!Demand(q) PROVE DemonInv'
<1>1. /\ ins' = Append(ins, DE!Call("move", q)) /\ lockers' = lockers + 1
      /\ treated' = treated /\ deferred' = deferred /\ waiting' = waiting /\ mixed' = mixed /\ tree' = tree
      /\ index' = index /\ restorers' = restorers /\ undos' = undos /\ redos' = redos /\ base' = base
      /\ latest' = latest /\ call' = call
  BY DEF DE!Demand
<1>2. DemonWaits'
  <2>1. lockers' \in Nat /\ lockers' > 0
    BY <1>1 DEF DemonInv, DemonWaits
  <2> QED BY <1>1, <2>1 DEF DemonInv, DemonWaits
<1>3. ASSUME ~mixed PROVE DemonTyped'
  <2>1. ins' \in Seq(MoveSet)
    BY <1>1, <1>3 DEF DemonInv, DemonTyped, MoveSet, DE!Call
  <2> QED BY <1>1, <1>3, <2>1 DEF DemonInv, DemonTyped
<1>4. ASSUME ~mixed PROVE DemonAt'
  BY <1>1, <1>4 DEF DemonInv, DemonAt
<1>5. ASSUME ~mixed PROVE DemonHistory'
  BY <1>1, <1>5 DEF DemonInv, DemonHistory, Reached
<1> QED BY <1>1, <1>2, <1>3, <1>4, <1>5 DEF DemonInv

\* A move to where the node is, or a list of what is listed.
LEMMA DemonSkip == ASSUME DemonInv, DE!skip PROVE DemonInv'
<1>1. /\ treated # DE!Null /\ waiting = "nothing" /\ index <= Len(treated.calls)
      /\ \/ treated.calls[index].action = "move" /\ treated.calls[index].q = tree.at
         \/ treated.calls[index].action = "list"
      /\ index' = index + 1
      /\ call' = call /\ tree' = tree /\ ins' = ins /\ lockers' = lockers /\ treated' = treated /\ deferred' = deferred
      /\ waiting' = waiting /\ restorers' = restorers /\ undos' = undos /\ redos' = redos /\ base' = base
      /\ latest' = latest /\ mixed' = mixed
  BY DEF DE!skip, DE!Cancelled, DE!Treating, DE!current
<1>2. DemonWaits'
  BY <1>1 DEF DemonInv, DemonWaits
<1>3. ASSUME ~mixed PROVE DemonTyped' /\ DemonAt' /\ DemonHistory'
  <2>1. DemonTyped /\ DemonAt /\ DemonHistory /\ treated.mode # "none"
    BY <1>1, <1>3 DEF DemonInv, DemonWaits
  <2>2. treated \in StackSet /\ tree \in Spots /\ treated.calls \in Seq(CallSet)
    BY <1>1, <2>1 DEF DemonTyped, StackSet
  <2>3. index \in 1..Len(treated.calls) /\ index + 1 \in 1..(Len(treated.calls) + 1) /\ Len(treated.calls) \in Nat
    BY <1>1, <2>1, <2>2 DEF DemonAt
  <2>4. DE!applyAction(tree, treated.calls[index]) = tree
    <3>1. tree = [at |-> tree.at, name |-> tree.name, taken |-> tree.taken]
      BY <2>2 DEF Spots
    <3>2. CASE treated.calls[index].action = "list"
      BY <3>2 DEF DE!applyAction
    <3>3. CASE treated.calls[index].action = "move" /\ treated.calls[index].q = tree.at
      BY <3>1, <3>3 DEF DE!applyAction
    <3> QED BY <1>1, <3>2, <3>3
  <2>5. DemonTyped'
    BY <1>1, <2>1 DEF DemonTyped
  <2>6. DemonAt'
    BY <1>1, <2>1, <2>3 DEF DemonAt, MovesFrom
  <2>7. DemonHistory'
    <3>1. PICK k \in 0..Len(deferred) :
            /\ Modes(deferred, k, treated.mode) /\ (treated.mode \in {"none", "user"} => k = 0)
            /\ Led("undo", undos, base, tree, treated, index, deferred, k, restorers)
            /\ Led("redo", redos, latest, tree, treated, index, deferred, k, restorers)
      BY <1>1, <2>1 DEF DemonHistory, Reached
    <3>2. Led("undo", undos, base, tree, treated, index + 1, deferred, k, restorers)
          /\ Led("redo", redos, latest, tree, treated, index + 1, deferred, k, restorers)
      BY <2>2, <2>3, <2>4, <3>1, LedSkip
    <3> QED BY <1>1, <3>1, <3>2 DEF DemonHistory, Reached
  <2> QED BY <2>5, <2>6, <2>7
<1> QED BY <1>1, <1>2, <1>3 DEF DemonInv

\* What no action of a call changes.
Queues == <<ins, lockers, deferred, undos, redos, base, latest>>

\* A call that ends, when nothing was mixed.
LEMMA CallEnds ==
  ASSUME DemonInv, ~mixed, NEW c \in CallSet, CanPass(tree, c), Reached = index, index \in 1..Len(treated.calls),
         treated.mode # "none", treated.mode # "user" => c = treated.calls[index],
         treated.mode = "user" => MovesFrom(treated.calls, index + 1),
         DE!endCall(c, index), UNCHANGED Queues, UNCHANGED treated, UNCHANGED mixed, call' \in CallSet
  PROVE  DemonInv'
<1>1. /\ ins' = ins /\ lockers' = lockers /\ treated' = treated /\ deferred' = deferred
      /\ undos' = undos /\ redos' = redos /\ base' = base /\ latest' = latest /\ mixed' = mixed
  BY DEF Queues
<1>2. DemonTyped /\ DemonAt /\ DemonHistory /\ DemonWaits
  BY DEF DemonInv
<1>3. ~ DE!Throws(c)
  BY DEF DE!Throws, CanPass
<1>4. /\ restorers' = Append(restorers, DE!reverse(tree, c)) /\ tree' = DE!applyAction(tree, c)
      /\ index' = index + 1 /\ waiting' = "nothing"
  BY <1>3 DEF DE!endCall, CanPass
<1>5. treated \in StackSet /\ tree \in Spots /\ treated.calls \in Seq(CallSet) /\ restorers \in Seq(CallSet)
  BY <1>2 DEF DemonTyped, StackSet, DE!Null
<1>6. tree' \in Spots /\ restorers' \in Seq(CallSet)
  BY <1>4, <1>5, CallReversed
<1>7. DemonWaits'
  BY <1>1, <1>2, <1>4 DEF DemonWaits
<1>8. DemonTyped'
  BY <1>1, <1>2, <1>4, <1>6 DEF DemonTyped
<1>9. DemonAt'
  <2>1. index + 1 \in 1..(Len(treated.calls) + 1)
    BY <1>5
  <2> QED BY <1>1, <1>2, <1>4, <2>1 DEF DemonAt
<1>10. DemonHistory'
  <2>1. PICK k \in 0..Len(deferred) :
          /\ Modes(deferred, k, treated.mode) /\ (treated.mode \in {"none", "user"} => k = 0)
          /\ Led("undo", undos, base, tree, treated, index, deferred, k, restorers)
          /\ Led("redo", redos, latest, tree, treated, index, deferred, k, restorers)
    BY <1>2 DEF DemonHistory
  <2>2. /\ Led("undo", undos, base, tree', treated, index + 1, deferred, k, restorers')
        /\ Led("redo", redos, latest, tree', treated, index + 1, deferred, k, restorers')
    BY <1>4, <1>5, <2>1, LedCall
  <2> QED BY <1>1, <1>4, <2>1, <2>2 DEF DemonHistory, Reached
<1> QED BY <1>7, <1>8, <1>9, <1>10 DEF DemonInv

\* A call that is sent to the server.
LEMMA CallSent ==
  ASSUME DemonInv, ~mixed, NEW c \in CallSet, CanPass(tree, c), Reached = index, index \in 1..Len(treated.calls),
         treated.mode # "none", treated.mode # "user" => c = treated.calls[index],
         treated.mode = "user" => MovesFrom(treated.calls, index + 1),
         DE!transferCall(c, index), UNCHANGED Queues, UNCHANGED treated, UNCHANGED mixed, call' = c
  PROVE  DemonInv'
<1>1. CASE c.action = "move" /\ c.q \in Local
  <2>1. DE!endCall(c, index)
    BY <1>1 DEF DE!transferCall
  <2> QED BY <2>1, CallEnds
<1>2. CASE ~(c.action = "move" /\ c.q \in Local)
  <2>1. /\ waiting' = "server" /\ index' = index /\ tree' = tree /\ restorers' = restorers
        /\ ins' = ins /\ lockers' = lockers /\ treated' = treated /\ deferred' = deferred
        /\ undos' = undos /\ redos' = redos /\ base' = base /\ latest' = latest /\ mixed' = mixed
    BY <1>2 DEF DE!transferCall, Queues
  <2>2. DemonTyped /\ DemonAt /\ DemonHistory /\ DemonWaits
    BY DEF DemonInv
  <2>3. DemonWaits' /\ DemonTyped'
    BY <2>1, <2>2 DEF DemonWaits, DemonTyped
  <2>4. DemonAt'
    BY <2>1, <2>2 DEF DemonAt
  <2>5. DemonHistory'
    <3>1. Reached' = Reached
      BY <2>1 DEF Reached, CanPass
    <3> QED BY <2>1, <2>2, <3>1 DEF DemonHistory
  <2> QED BY <2>3, <2>4, <2>5 DEF DemonInv
<1> QED BY <1>1, <1>2

\* Of the others nothing is to be shown but what they leave.
LEMMA MixedWaits ==
  ASSUME DemonWaits, mixed, mixed', lockers' = lockers, ins' = ins, deferred' = deferred,
         treated' = [calls |-> treated'.calls, mode |-> treated.mode], treated.mode # "none"
  PROVE  DemonInv'
<1>1. treated'.mode = treated.mode
  OBVIOUS
<1> QED BY <1>1 DEF DemonWaits, DemonInv

\* Nor of a call that is put before another.
LEMMA InsertedMixed ==
  ASSUME DemonInv, mixed, mixed', lockers' = lockers, ins' = ins, deferred' = deferred, treated # DE!Null \/ waiting = "user",
         NEW more, treated' = [treated EXCEPT !.calls = more]
  PROVE  DemonInv'
<1>1. treated.mode # "none" /\ treated = [calls |-> treated.calls, mode |-> treated.mode] /\ DemonWaits
  BY DEF DemonInv, DemonWaits
<1>2. treated' = [calls |-> more, mode |-> treated.mode]
  BY <1>1
<1>3. treated' = [calls |-> treated'.calls, mode |-> treated.mode]
  BY <1>2
<1> QED BY <1>1, <1>3, MixedWaits

\* A call goes to the user, to the server, or is done.
LEMMA DemonSubmit == ASSUME DemonInv, DE!submit PROVE DemonInv'
<1>1. /\ treated # DE!Null /\ waiting = "nothing" /\ index <= Len(treated.calls)
      /\ call' = treated.calls[index] /\ treated' = treated /\ mixed' = mixed /\ UNCHANGED Queues
      /\ ins' = ins /\ lockers' = lockers /\ deferred' = deferred
      /\ undos' = undos /\ redos' = redos /\ base' = base /\ latest' = latest
  BY DEF DE!submit, DE!Passes, DE!Treating, DE!current, Queues
<1>2. treated.mode # "none" /\ treated = [calls |-> treated.calls, mode |-> treated.mode] /\ DemonWaits
  BY <1>1 DEF DemonInv, DemonWaits
<1>3. CASE mixed
  BY <1>1, <1>2, <1>3, MixedWaits
<1>4. CASE ~mixed
  <2>1. DemonTyped /\ DemonAt /\ DemonHistory
    BY <1>4 DEF DemonInv
  <2>2. treated \in StackSet /\ tree \in Spots /\ treated.calls \in Seq(CallSet)
    BY <1>2, <2>1 DEF DemonTyped, StackSet, DE!Null
  <2>3. index \in 1..Len(treated.calls) /\ treated.calls[index] \in CallSet /\ Len(treated.calls) \in Nat
    BY <1>1, <1>2, <2>1, <2>2, ElementOfSeq DEF DemonAt
  <2>4. treated.mode = "user" =>
          MovesFrom(treated.calls, index) /\ MovesFrom(treated.calls, index + 1) /\ treated.calls[index].action = "move"
    <3> SUFFICES ASSUME treated.mode = "user"
                 PROVE  MovesFrom(treated.calls, index) /\ MovesFrom(treated.calls, index + 1)
                        /\ treated.calls[index].action = "move"
      OBVIOUS
    <3>1. MovesFrom(treated.calls, index)
      BY <1>1, <2>1 DEF DemonAt
    <3>2. index \in index..Len(treated.calls) /\ \A j \in (index + 1)..Len(treated.calls) : j \in index..Len(treated.calls)
      BY <2>3
    <3> QED BY <3>1, <3>2 DEF MovesFrom, MoveSet
  <2>5. treated.mode # "user" => CanPass(tree, treated.calls[index])
    <3> SUFFICES ASSUME treated.mode # "user" PROVE CanPass(tree, treated.calls[index])
      OBVIOUS
    <3>1. treated.mode \in {"undo", "redo"}
      BY <2>2 DEF StackSet
    <3>2. PICK k \in 0..Len(deferred) :
            /\ Led("undo", undos, base, tree, treated, index, deferred, k, restorers)
            /\ Led("redo", redos, latest, tree, treated, index, deferred, k, restorers)
      BY <1>1, <2>1 DEF DemonHistory, Reached
    <3> QED BY <2>2, <2>3, <3>1, <3>2, LedCanPass
  <2>6. CASE DE!Conflict
    <3>0. /\ waiting' = "user" /\ tree' = tree /\ restorers' = restorers /\ index' = index
      BY <2>6 DEF DE!submit
    <3>2. treated.mode = "user"
      BY <2>5, <2>6 DEF CanPass, DE!Conflict, DE!current
    <3>1. /\ waiting' = "user" /\ tree' = tree /\ restorers' = restorers /\ index' = index
          /\ treated.calls[index].action = "move" /\ treated.calls[index].q \in tree.taken /\ tree.name = "own"
      BY <2>4, <2>6, <3>0, <3>2 DEF DE!Conflict, DE!current
    <3>3. DemonWaits' /\ DemonTyped'
      BY <1>1, <1>2, <2>1, <3>1 DEF DemonWaits, DemonTyped
    <3>4. DemonAt'
      BY <1>1, <2>1, <2>3, <2>4, <3>1, <3>2 DEF DemonAt
    <3>5. DemonHistory'
      BY <1>1, <2>1, <3>1 DEF DemonHistory, Reached
    <3> QED BY <3>3, <3>4, <3>5 DEF DemonInv
  <2>7. CASE ~DE!Conflict
    <3>1. DE!transferCall(treated.calls[index], index)
      BY <2>7 DEF DE!submit, DE!current
    <3>2. CanPass(tree, treated.calls[index])
      BY <2>4, <2>5, <2>7 DEF DE!Conflict, DE!current, CanPass
    <3>3. Reached = index
      BY <1>1 DEF Reached
    <3> QED BY <1>1, <1>2, <1>4, <2>3, <2>4, <3>1, <3>2, <3>3, CallSent
  <2> QED BY <2>6, <2>7
<1> QED BY <1>3, <1>4

\* The server has answered: the call is done.
LEMMA DemonAnswer == ASSUME DemonInv, DE!answer PROVE DemonInv'
<1>1. /\ waiting = "server" /\ DE!endCall(call, index) /\ UNCHANGED Queues
      /\ call' = call /\ treated' = treated /\ mixed' = mixed
      /\ ins' = ins /\ lockers' = lockers /\ deferred' = deferred
      /\ undos' = undos /\ redos' = redos /\ base' = base /\ latest' = latest
  BY DEF DE!answer, Queues
<1>2. treated.mode # "none" /\ treated = [calls |-> treated.calls, mode |-> treated.mode] /\ DemonWaits
  BY <1>1 DEF DemonInv, DemonWaits
<1>3. CASE mixed
  BY <1>1, <1>2, <1>3, MixedWaits
<1>4. CASE ~mixed
  <2>1. DemonTyped /\ DemonAt /\ DemonHistory
    BY <1>4 DEF DemonInv
  <2>2. CASE call.action # "list"
    <3>1. Reached = index
      BY <2>2 DEF Reached
    <3> QED BY <1>1, <1>2, <1>4, <2>1, <2>2, <3>1, CallEnds DEF DemonAt
  <2>3. CASE call.action = "list"
    <3>1. tree' = tree /\ restorers' = restorers /\ index' = index + 1 /\ waiting' = "nothing" /\ Reached = index + 1
      BY <1>1, <2>3 DEF DE!endCall, DE!Throws, DE!applyAction, Reached
    <3>2. treated \in StackSet /\ Len(treated.calls) \in Nat
      BY <1>2, <2>1 DEF DemonTyped, StackSet, DE!Null
    <3>3. index \in 1..Len(treated.calls) /\ index + 1 \in 1..(Len(treated.calls) + 1)
      BY <1>1, <2>1, <3>2 DEF DemonAt
    <3>4. DemonWaits' /\ DemonTyped'
      BY <1>1, <1>2, <1>4, <2>1, <3>1 DEF DemonWaits, DemonTyped
    <3>5. DemonAt'
      BY <1>1, <1>2, <2>1, <3>1, <3>3 DEF DemonAt
    <3>6. DemonHistory'
      <4>1. Reached' = Reached
        BY <3>1 DEF Reached
      <4> QED BY <1>1, <2>1, <3>1, <4>1 DEF DemonHistory
    <3> QED BY <3>4, <3>5, <3>6 DEF DemonInv
  <2> QED BY <2>2, <2>3
<1> QED BY <1>3, <1>4

\* The server has refused: all is mixed, and nothing is treated.
LEMMA DemonError == ASSUME DemonInv, DE!error PROVE DemonInv'
<1>1. /\ waiting' = "nothing" /\ treated' = DE!Null /\ deferred' = <<>> /\ mixed' = TRUE /\ ins' = ins /\ lockers' = lockers
  BY DEF DE!error
<1>2. treated' = [calls |-> treated'.calls, mode |-> treated'.mode]
  BY <1>1 DEF DE!Null
<1>3. <<>> \in Seq({})
  OBVIOUS
<1>4. \E S : deferred' \in Seq(S) /\ \A x \in S : x.mode # "none" /\ x = [calls |-> x.calls, mode |-> x.mode]
  <2>1. \A x \in {} : x.mode # "none" /\ x = [calls |-> x.calls, mode |-> x.mode]
    OBVIOUS
  <2>2. deferred' \in Seq({})
    BY <1>1, <1>3
  <2> QED BY <2>1, <2>2
<1>5. DemonWaits'
  BY <1>1, <1>2, <1>4 DEF DemonInv, DemonWaits
<1> QED BY <1>1, <1>5 DEF DemonInv

\* r is two lists, one after the other.
Appended(a, c, i, n, r) == Len(a) = i /\ Len(c) = n /\ r = a \o c

\* The elements of the second one follow those of the first.
LEMMA JoinedLists ==
  ASSUME NEW S, NEW a \in Seq(S), NEW c \in Seq(S), NEW i \in Nat, NEW n \in Nat, NEW r, Appended(a, c, i, n, r)
  PROVE  r \in Seq(S) /\ Len(r) = i + n /\ \A j \in (i + 1)..(i + n) : r[j] = c[j - i]
<1>0. Len(a) = i /\ Len(c) = n /\ r = a \o c
  BY DEF Appended
<1>1. r \in Seq(S) /\ Len(r) = i + n
  <2>1. a \o c \in Seq(S) /\ Len(a \o c) = Len(a) + Len(c)
    OBVIOUS
  <2> QED BY <1>0, <2>1
<1>2. \A j \in (i + 1)..(i + n) : j \in 1..(i + n) /\ ~(j <= i)
  OBVIOUS
<1> QED BY <1>0, <1>1, <1>2

\* The user cancels the call that is in the way.
LEMMA DemonCancel == ASSUME DemonInv, DE!cancelCall PROVE DemonInv'
<1> DEFINE rest == DE!RemoveAt(treated.calls, index)
<1>1. /\ waiting = "user" /\ waiting' = "nothing" /\ treated' = [treated EXCEPT !.calls = rest]
      /\ call' = call /\ tree' = tree /\ ins' = ins /\ lockers' = lockers /\ index' = index /\ deferred' = deferred
      /\ restorers' = restorers /\ undos' = undos /\ redos' = redos /\ base' = base /\ latest' = latest /\ mixed' = mixed
  BY DEF DE!cancelCall
<1>2. treated.mode # "none" /\ treated = [calls |-> treated.calls, mode |-> treated.mode] /\ DemonWaits
  BY <1>1 DEF DemonInv, DemonWaits
<1>3. treated' = [calls |-> rest, mode |-> treated.mode]
  BY <1>1, <1>2
<1>4. treated'.calls = rest /\ treated'.mode = treated.mode
  BY <1>3
<1>5. CASE mixed
  BY <1>1, <1>2, <1>3, <1>5, MixedWaits
<1>6. CASE ~mixed
  <2>1. DemonTyped /\ DemonAt /\ DemonHistory
    BY <1>6 DEF DemonInv
  <2>2. treated.mode = "user" /\ index \in 1..Len(treated.calls) /\ MovesFrom(treated.calls, index + 1)
    BY <1>1, <2>1 DEF DemonAt
  <2>3. treated \in StackSet /\ treated.calls \in Seq(CallSet) /\ Len(treated.calls) \in Nat
    BY <1>2, <2>1 DEF DemonTyped, StackSet, DE!Null
  <2>4. /\ rest \in Seq(CallSet) /\ Len(rest) = Len(treated.calls) - 1
        /\ \A j \in index..Len(rest) : rest[j] = treated.calls[j + 1]
    <3> DEFINE s == treated.calls
    <3>1. s \in Seq(CallSet) /\ index \in 1..Len(s) /\ Len(s) \in Nat
      BY <2>2, <2>3
    <3>2. rest = SubSeq(s, 1, index - 1) \o SubSeq(s, index + 1, Len(s))
      BY DEF DE!RemoveAt
    <3> HIDE DEF s, rest
    <3>3. /\ SubSeq(s, 1, index - 1) \in Seq(CallSet) /\ Len(SubSeq(s, 1, index - 1)) = index - 1
      BY <3>1
    <3>4. /\ SubSeq(s, index + 1, Len(s)) \in Seq(CallSet) /\ Len(SubSeq(s, index + 1, Len(s))) = Len(s) - index
          /\ \A j \in 1..(Len(s) - index) : SubSeq(s, index + 1, Len(s))[j] = s[index + j]
      BY <3>1
    <3> DEFINE front == SubSeq(s, 1, index - 1)
               after == SubSeq(s, index + 1, Len(s))
    <3>50. front \in Seq(CallSet) /\ after \in Seq(CallSet) /\ Len(front) = index - 1 /\ Len(after) = Len(s) - index
      BY <3>3, <3>4
    <3>51. rest = front \o after
      BY <3>2
    <3>52. \A j \in 1..(Len(s) - index) : after[j] = s[index + j]
      BY <3>4
    <3> HIDE DEF front, after
    <3>53. index - 1 \in Nat /\ Len(s) - index \in Nat /\ (index - 1) + (Len(s) - index) = Len(s) - 1 /\ (index - 1) + 1 = index
      BY <3>1
    <3>5. /\ rest \in Seq(CallSet) /\ Len(rest) = Len(s) - 1
          /\ \A j \in index..(Len(s) - 1) : rest[j] = after[j - (index - 1)]
      <4>1. PICK i \in Nat, n \in Nat : i = index - 1 /\ n = Len(s) - index
        BY <3>53
      <4>0. front \in Seq(CallSet) /\ after \in Seq(CallSet) /\ Appended(front, after, i, n, rest)
        BY <3>50, <3>51, <4>1 DEF Appended
      <4>2. rest \in Seq(CallSet) /\ Len(rest) = i + n /\ \A j \in (i + 1)..(i + n) : rest[j] = after[j - i]
        BY <4>0, JoinedLists
      <4>3. i + n = Len(s) - 1 /\ i + 1 = index
        BY <3>53, <4>1
      <4> QED BY <4>1, <4>2, <4>3
    <3>6. ASSUME NEW j \in index..Len(rest) PROVE rest[j] = s[j + 1]
      <4>1. j - (index - 1) \in 1..(Len(s) - index) /\ index + (j - (index - 1)) = j + 1 /\ j \in index..(Len(s) - 1)
        BY <3>1, <3>5
      <4> QED BY <3>5, <3>52, <4>1
    <3> QED BY <3>5, <3>6 DEF s
  <2> HIDE DEF rest
  <2>5. treated' \in StackSet
    BY <1>3, <2>2, <2>4 DEF StackSet
  <2>6. MovesFrom(rest, index)
    <3>1. \A j \in index..Len(rest) : j + 1 \in (index + 1)..Len(treated.calls)
      BY <2>2, <2>3, <2>4
    <3> QED BY <2>2, <2>4, <3>1 DEF MovesFrom
  <2>7. DemonWaits' /\ DemonTyped'
    BY <1>1, <1>2, <1>3, <1>4, <2>1, <2>5 DEF DemonWaits, DemonTyped
  <2>8. DemonAt'
    <3>1. index \in 1..(Len(rest) + 1)
      BY <2>2, <2>3, <2>4
    <3> QED BY <1>1, <1>2, <1>4, <2>1, <2>2, <2>6, <3>1 DEF DemonAt
  <2>9. DemonHistory'
    <3>1. PICK k \in 0..Len(deferred) :
            /\ Modes(deferred, k, treated.mode) /\ (treated.mode \in {"none", "user"} => k = 0)
            /\ Led("undo", undos, base, tree, treated, index, deferred, k, restorers)
            /\ Led("redo", redos, latest, tree, treated, index, deferred, k, restorers)
      BY <1>1, <2>1 DEF DemonHistory, Reached
    <3>2. /\ Led("undo", undos, base, tree, treated', index, deferred, k, restorers)
          /\ Led("redo", redos, latest, tree, treated', index, deferred, k, restorers)
      BY <1>4, <2>2, <3>1 DEF Led
    <3> QED BY <1>1, <1>4, <3>1, <3>2 DEF DemonHistory, Reached
  <2> QED BY <2>7, <2>8, <2>9 DEF DemonInv
<1> QED BY <1>5, <1>6

\* Where the calls from the i-th on are those from the one before it.
LEMMA RemainsLater ==
  ASSUME NEW work \in Seq(CallSet), NEW more \in Seq(CallSet), Len(more) = Len(work) + 1, NEW i \in 1..Len(work),
         \A j \in (i + 1)..Len(more) : more[j] = work[j - 1], NEW t, NEW u, Remains(work, i, t, u)
  PROVE  Remains(more, i + 1, t, u)
<1> DEFINE n == Len(work)
<1>1. PICK w \in [0..n -> Spots] :
        /\ w[i - 1] = t /\ w[n] = u
        /\ \A j \in i..n : CanPass(w[j - 1], work[j]) /\ w[j] = DE!applyAction(w[j - 1], work[j])
  BY DEF Remains
<1>2. n \in Nat /\ i \in 1..n /\ Len(more) = n + 1 /\ \A j \in (i + 1)..(n + 1) : more[j] = work[j - 1]
  OBVIOUS
<1> HIDE DEF n
<1> DEFINE v == [j \in 0..(n + 1) |-> IF j = 0 THEN w[0] ELSE w[j - 1]]
<1>3. v \in [0..(n + 1) -> Spots] /\ \A j \in 1..(n + 1) : v[j] = w[j - 1]
  BY <1>2
<1> HIDE DEF v
<1>4. v[(i + 1) - 1] = t /\ v[n + 1] = u
  <2>1. i \in 1..(n + 1) /\ n + 1 \in 1..(n + 1) /\ (i + 1) - 1 = i /\ (n + 1) - 1 = n
    BY <1>2
  <2> QED BY <1>1, <1>3, <2>1
<1>5. ASSUME NEW j \in (i + 1)..(n + 1)
      PROVE  CanPass(v[j - 1], more[j]) /\ v[j] = DE!applyAction(v[j - 1], more[j])
  <2>1. j - 1 \in i..n /\ j \in 1..(n + 1) /\ j - 1 \in 1..(n + 1)
    BY <1>2
  <2>2. v[j] = w[j - 1] /\ v[j - 1] = w[(j - 1) - 1] /\ more[j] = work[j - 1]
    BY <1>2, <1>3, <2>1
  <2> QED BY <1>1, <2>1, <2>2
<1> QED BY <1>2, <1>3, <1>4, <1>5 DEF Remains

\* The same, for a list of entries.
LEMMA LedLater ==
  ASSUME NEW mode, NEW list, NEW first, NEW t, NEW s \in StackSet, NEW r \in StackSet, r.mode = s.mode, NEW i \in 1..Len(s.calls),
         Len(r.calls) = Len(s.calls) + 1, \A j \in (i + 1)..Len(r.calls) : r.calls[j] = s.calls[j - 1],
         NEW stacks, NEW k, NEW done, Led(mode, list, first, t, s, i, stacks, k, done)
  PROVE  Led(mode, list, first, t, r, i + 1, stacks, k, done)
<1>1. s.calls \in Seq(CallSet) /\ r.calls \in Seq(CallSet)
  BY DEF StackSet
<1>2. CASE s.mode = mode
  <2>1. PICK u \in Spots, v \in Spots : Remains(s.calls, i, t, u) /\ Chain(stacks, k, u, v) /\ Back(list, v, first)
    BY <1>2 DEF Led, Ahead
  <2>2. Remains(r.calls, i + 1, t, u)
    BY <1>1, <2>1, RemainsLater
  <2> QED BY <1>2, <2>1, <2>2 DEF Led, Ahead
<1>3. CASE s.mode # mode
  BY <1>3 DEF Led
<1> QED BY <1>2, <1>3

\* A call is put before the one that is treated: a list, or what the user has
\* chosen.
LEMMA CallInserted ==
  ASSUME DemonInv, NEW c \in CallSet, DE!insertCall(c), waiting \in {"nothing", "user"}, treated # DE!Null, c.action # "move",
         ~mixed => /\ index \in 1..Len(treated.calls)
                   /\ treated.mode = "user" => MovesFrom(treated.calls, index)
                   /\ c.action = "list" \/ (treated.mode = "user" /\ CanPass(tree, c))
  PROVE  DemonInv'
<1> DEFINE more == DE!InsertAt(treated.calls, DE!insertPlace, c)
<1>1. /\ call' = c /\ treated' = [treated EXCEPT !.calls = more] /\ DE!transferCall(c, index)
      /\ mixed' = (mixed \/ (index = 1 /\ Len(treated.calls) > 1))
      /\ ins' = ins /\ lockers' = lockers /\ deferred' = deferred
      /\ undos' = undos /\ redos' = redos /\ base' = base /\ latest' = latest
  BY DEF DE!insertCall
<1>2. treated.mode # "none" /\ treated = [calls |-> treated.calls, mode |-> treated.mode] /\ DemonWaits
  BY DEF DemonInv, DemonWaits
<1>3. treated' = [calls |-> more, mode |-> treated.mode]
  BY <1>1, <1>2
<1>4. treated'.calls = more /\ treated'.mode = treated.mode
  BY <1>3
<1>5. /\ waiting' = "server" /\ index' = index /\ tree' = tree /\ restorers' = restorers
  BY <1>1 DEF DE!transferCall
<1>6. DemonWaits'
  BY <1>1, <1>2, <1>3, <1>4, <1>5 DEF DemonWaits
<1>7. ASSUME ~mixed' PROVE DemonTyped' /\ DemonAt' /\ DemonHistory'
  <2>1. /\ DemonTyped /\ DemonAt /\ DemonHistory /\ ~mixed /\ ~(index = 1 /\ Len(treated.calls) > 1)
        /\ index \in 1..Len(treated.calls)
    BY <1>1, <1>7 DEF DemonInv
  <2>2. treated.mode = "user" => MovesFrom(treated.calls, index)
    BY <2>1
  <2>3. treated \in StackSet /\ treated.calls \in Seq(CallSet) /\ Len(treated.calls) \in Nat
    BY <1>2, <2>1 DEF DemonTyped, StackSet, DE!Null
  <2>5. /\ more \in Seq(CallSet) /\ Len(more) = Len(treated.calls) + 1
        /\ \A j \in (index + 1)..Len(more) : more[j] = treated.calls[j - 1]
    <3> DEFINE s == treated.calls  k == DE!insertPlace
    <3>1. s \in Seq(CallSet) /\ k \in 1..Len(s) /\ k <= index /\ index \in 1..Len(s) /\ Len(s) \in Nat
      <4>1. CASE index = 1
        BY <2>1, <2>3, <4>1 DEF DE!insertPlace
      <4>2. CASE index # 1
        BY <2>1, <2>3, <4>2 DEF DE!insertPlace
      <4> QED BY <4>1, <4>2
    <3>2. more = SubSeq(s, 1, k - 1) \o <<c>> \o SubSeq(s, k, Len(s))
      BY DEF DE!InsertAt
    <3> HIDE DEF s, k, more
    <3>3. SubSeq(s, 1, k - 1) \in Seq(CallSet) /\ Len(SubSeq(s, 1, k - 1)) = k - 1
      BY <3>1
    <3>4. /\ SubSeq(s, k, Len(s)) \in Seq(CallSet) /\ Len(SubSeq(s, k, Len(s))) = Len(s) - (k - 1)
          /\ \A j \in 1..(Len(s) - (k - 1)) : SubSeq(s, k, Len(s))[j] = s[(k - 1) + j]
      BY <3>1
    <3> DEFINE left == SubSeq(s, 1, k - 1) \o <<c>>
    <3>5. left \in Seq(CallSet) /\ Len(left) = k
      BY <3>1, <3>3
    <3>6. more = left \o SubSeq(s, k, Len(s))
      BY <3>2
    <3> HIDE DEF left
    <3> DEFINE after == SubSeq(s, k, Len(s))
    <3>60. more = left \o after /\ after \in Seq(CallSet) /\ Len(after) = Len(s) - (k - 1)
      BY <3>4, <3>6
    <3>61. \A j \in 1..(Len(s) - (k - 1)) : after[j] = s[(k - 1) + j]
      BY <3>4
    <3> HIDE DEF after
    <3>62. k \in Nat /\ Len(s) - (k - 1) \in Nat /\ k + (Len(s) - (k - 1)) = Len(s) + 1
      BY <3>1
    <3>7. /\ more \in Seq(CallSet) /\ Len(more) = Len(s) + 1
          /\ \A j \in (k + 1)..(Len(s) + 1) : more[j] = after[j - k]
      <4>1. PICK n \in Nat : n = Len(s) - (k - 1)
        BY <3>62
      <4>2. PICK i \in Nat : i = k
        BY <3>62
      <4>3. left \in Seq(CallSet) /\ after \in Seq(CallSet) /\ Appended(left, after, i, n, more)
        BY <3>5, <3>60, <4>1, <4>2 DEF Appended
      <4>4. more \in Seq(CallSet) /\ Len(more) = i + n /\ \A j \in (i + 1)..(i + n) : more[j] = after[j - i]
        BY <4>3, JoinedLists
      <4> QED BY <3>62, <4>1, <4>2, <4>4
    <3>8. ASSUME NEW j \in (index + 1)..Len(more) PROVE more[j] = s[j - 1]
      <4>1. j - k \in 1..(Len(s) - (k - 1)) /\ (k - 1) + (j - k) = j - 1 /\ j \in (k + 1)..(Len(s) + 1)
        BY <3>1, <3>7
      <4> QED BY <3>7, <3>61, <4>1
    <3> QED BY <3>7, <3>8 DEF s
  <2> HIDE DEF more
  <2>6. treated' \in StackSet
    BY <1>3, <2>3, <2>5 DEF StackSet
  <2>7. treated.mode = "user" => MovesFrom(more, index + 1)
    <3> SUFFICES ASSUME treated.mode = "user", NEW j \in (index + 1)..Len(more) PROVE more[j] \in MoveSet
      BY DEF MovesFrom
    <3>1. more[j] = treated.calls[j - 1] /\ j - 1 \in index..Len(treated.calls)
      BY <2>1, <2>3, <2>5
    <3> QED BY <2>2, <3>1 DEF MovesFrom
  <2>8. DemonTyped'
    BY <1>1, <1>5, <2>1, <2>6 DEF DemonTyped
  <2>9. DemonAt'
    <3>1. index \in 1..(Len(more) + 1) /\ index \in 1..Len(more)
      BY <2>1, <2>3, <2>5
    <3> QED BY <1>1, <1>2, <1>4, <1>5, <2>1, <2>7, <3>1 DEF DemonAt
  <2>10. DemonHistory'
    <3>1. PICK k \in 0..Len(deferred) :
            /\ Modes(deferred, k, treated.mode) /\ (treated.mode \in {"none", "user"} => k = 0)
            /\ Led("undo", undos, base, tree, treated, index, deferred, k, restorers)
            /\ Led("redo", redos, latest, tree, treated, index, deferred, k, restorers)
      BY <2>1 DEF DemonHistory, Reached
    <3>2. CASE c.action = "list"
      <4>1. Reached' = index + 1
        BY <1>1, <1>5, <3>2 DEF Reached
      <4>2. /\ Led("undo", undos, base, tree, treated', index + 1, deferred, k, restorers)
            /\ Led("redo", redos, latest, tree, treated', index + 1, deferred, k, restorers)
        BY <1>4, <2>1, <2>3, <2>5, <2>6, <3>1, LedLater
      <4> QED BY <1>1, <1>4, <1>5, <3>1, <4>1, <4>2 DEF DemonHistory
    <3>3. CASE c.action # "list"
      <4>1. Reached' = index /\ treated.mode = "user"
        BY <1>1, <1>5, <2>1, <3>3 DEF Reached
      <4>2. /\ Led("undo", undos, base, tree, treated', index, deferred, k, restorers)
            /\ Led("redo", redos, latest, tree, treated', index, deferred, k, restorers)
        BY <1>4, <3>1, <4>1 DEF Led
      <4> QED BY <1>1, <1>4, <1>5, <3>1, <4>1, <4>2 DEF DemonHistory
    <3> QED BY <3>2, <3>3
  <2> QED BY <2>8, <2>9, <2>10
<1> QED BY <1>6, <1>7 DEF DemonInv

\* The children of the place are listed first.
LEMMA DemonList == ASSUME DemonInv, DE!list PROVE DemonInv'
<1> DEFINE c == DE!Call("list", treated.calls[index].q)
<1>1. /\ treated # DE!Null /\ waiting = "nothing" /\ index <= Len(treated.calls) /\ DE!insertCall(c)
      /\ treated.calls[index].action = "move"
  BY DEF DE!list, DE!Passes, DE!Unlisted, DE!Treating, DE!current
<1>2. CASE mixed
  <2>1. /\ treated' = [treated EXCEPT !.calls = DE!InsertAt(treated.calls, DE!insertPlace, c)] /\ mixed'
        /\ ins' = ins /\ lockers' = lockers /\ deferred' = deferred
    BY <1>1, <1>2 DEF DE!insertCall
  <2> QED BY <1>1, <1>2, <2>1, InsertedMixed
<1>3. CASE ~mixed
  <2>1. DemonTyped /\ DemonAt /\ DemonHistory /\ DemonWaits
    BY <1>3 DEF DemonInv
  <2>2. treated \in StackSet /\ treated.mode # "none"
    BY <1>1, <2>1 DEF DemonTyped, StackSet, DemonWaits
  <2>3. treated.calls \in Seq(CallSet) /\ Len(treated.calls) \in Nat
    BY <2>2 DEF StackSet
  <2>4. index \in 1..Len(treated.calls) /\ (treated.mode = "user" => MovesFrom(treated.calls, index))
    BY <1>1, <2>1, <2>2, <2>3 DEF DemonAt
  <2>5. treated.calls[index] \in CallSet
    BY <2>3, <2>4, ElementOfSeq
  <2>6. c \in CallSet /\ c.action = "list"
    BY <1>1, <2>5 DEF CallSet, DE!Call
  <2> HIDE DEF c
  <2> QED BY <1>1, <2>4, <2>6, CallInserted
<1> QED BY <1>2, <1>3

\* What the user has chosen.
LEMMA UserChooses ==
  ASSUME DemonInv, waiting = "user", ~mixed
  PROVE  /\ treated # DE!Null /\ treated.mode = "user" /\ index \in 1..Len(treated.calls) /\ MovesFrom(treated.calls, index)
         /\ call.action = "move" /\ call.q \in Spot /\ call.q \in tree.taken /\ tree.name = "own" /\ tree.at \notin tree.taken
<1>1. DemonTyped /\ DemonAt
  BY DEF DemonInv
<1>2. /\ treated.mode = "user" /\ index \in 1..Len(treated.calls) /\ MovesFrom(treated.calls, index + 1)
      /\ call = treated.calls[index] /\ call.action = "move" /\ call.q \in tree.taken /\ tree.name = "own" /\ call \in CallSet
  BY <1>1 DEF DemonAt
<1>3. treated # DE!Null
  BY <1>2 DEF DE!Null
<1>4. treated.calls \in Seq(CallSet) /\ Len(treated.calls) \in Nat
  BY <1>1, <1>3 DEF DemonTyped, StackSet
<1>5. call \in MoveSet
  BY <1>2 DEF CallSet, MoveSet
<1>6. MovesFrom(treated.calls, index)
  <2>1. \A j \in index..Len(treated.calls) : j = index \/ j \in (index + 1)..Len(treated.calls)
    BY <1>2, <1>4
  <2> QED BY <1>2, <1>5, <2>1 DEF MovesFrom
<1>7. tree.at \notin tree.taken
  BY <1>1, <1>2 DEF DemonTyped, Spots
<1> QED BY <1>2, <1>3, <1>5, <1>6, <1>7 DEF MoveSet

\* To remove the other node.
LEMMA DemonRemove == ASSUME DemonInv, DE!removeOther PROVE DemonInv'
<1> DEFINE c == DE!Call("remove", IF call.action = "move" THEN call.q ELSE tree.at)
<1>1. waiting = "user" /\ DE!insertCall(c)
  BY DEF DE!removeOther
<1>2. CASE mixed
  <2>1. /\ treated' = [treated EXCEPT !.calls = DE!InsertAt(treated.calls, DE!insertPlace, c)] /\ mixed'
        /\ ins' = ins /\ lockers' = lockers /\ deferred' = deferred
    BY <1>1, <1>2 DEF DE!insertCall
  <2> QED BY <1>1, <1>2, <2>1, InsertedMixed
<1>3. CASE ~mixed
  <2>1. /\ treated # DE!Null /\ treated.mode = "user" /\ index \in 1..Len(treated.calls) /\ MovesFrom(treated.calls, index)
        /\ call.action = "move" /\ call.q \in Spot /\ call.q \in tree.taken
    BY <1>1, <1>3, UserChooses
  <2>2. c = [action |-> "remove", q |-> call.q]
    BY <2>1 DEF DE!Call
  <2>3. c \in CallSet /\ CanPass(tree, c) /\ c.action # "move"
    BY <2>1, <2>2 DEF CallSet, CanPass
  <2> HIDE DEF c
  <2> QED BY <1>1, <2>1, <2>3, CallInserted
<1> QED BY <1>2, <1>3

\* To take a name that is free.
LEMMA DemonUseFree == ASSUME DemonInv, DE!usefree PROVE DemonInv'
<1> DEFINE c == DE!Call("update", "free")
<1>1. waiting = "user"
  BY DEF DE!usefree
<1>2. CASE mixed
  <2>1. treated.mode # "none" /\ treated = [calls |-> treated.calls, mode |-> treated.mode] /\ DemonWaits /\ treated # DE!Null
    BY <1>1 DEF DemonInv, DemonWaits, DE!Null
  <2>2. CASE call.action = "move"
    <3>1. /\ treated' = [treated EXCEPT !.calls = DE!InsertAt(treated.calls, DE!insertPlace, c)] /\ mixed'
          /\ ins' = ins /\ lockers' = lockers /\ deferred' = deferred
      BY <1>2, <2>2 DEF DE!usefree, DE!insertCall
    <3> QED BY <1>1, <1>2, <2>1, <3>1, InsertedMixed
  <2>3. CASE call.action # "move"
    <3>1. /\ treated' = [treated EXCEPT !.calls[index] = c] /\ mixed'
          /\ ins' = ins /\ lockers' = lockers /\ deferred' = deferred
      BY <1>2, <2>3 DEF DE!usefree
    <3>2. treated' = [calls |-> [treated.calls EXCEPT ![index] = c], mode |-> treated.mode]
      BY <2>1, <3>1
    <3> QED BY <1>1, <1>2, <2>1, <3>1, <3>2, MixedWaits
  <2> QED BY <2>2, <2>3
<1>3. CASE ~mixed
  <2>1. /\ treated # DE!Null /\ treated.mode = "user" /\ index \in 1..Len(treated.calls) /\ MovesFrom(treated.calls, index)
        /\ call.action = "move" /\ tree.name = "own"
    BY <1>1, <1>3, UserChooses
  <2>2. DE!insertCall(c)
    BY <2>1 DEF DE!usefree
  <2>3. c = [action |-> "update", q |-> "free"]
    BY DEF DE!Call
  <2>4. c \in CallSet /\ CanPass(tree, c) /\ c.action # "move"
    BY <2>1, <2>3 DEF CallSet, CanPass, Names
  <2> HIDE DEF c
  <2> QED BY <1>1, <2>1, <2>2, <2>4, CallInserted
<1> QED BY <1>2, <1>3

\* A user's stack is deferred.
LEMMA LedDeferred ==
  ASSUME NEW mode, NEW list, NEW first, NEW t, NEW s, NEW i, NEW stacks \in Seq(StackSet), NEW k \in 0..Len(stacks), NEW done,
         Led(mode, list, first, t, s, i, stacks, k, done), NEW x \in StackSet
  PROVE  Led(mode, list, first, t, s, i, Append(stacks, x), k, done)
<1>1. CASE s.mode = mode
  BY <1>1, AheadDeferred DEF Led
<1>2. CASE s.mode # mode
  BY <1>2 DEF Led
<1> QED BY <1>1, <1>2

\* A user's stack comes after those of undo and redo.
LEMMA ModesDeferred ==
  ASSUME NEW stacks \in Seq(StackSet), NEW k \in 0..Len(stacks), NEW mode, Modes(stacks, k, mode), NEW x \in StackSet,
         x.mode = "user"
  PROVE  Modes(Append(stacks, x), k, mode)
<1> SUFFICES ASSUME NEW j \in 1..Len(Append(stacks, x))
             PROVE  Append(stacks, x)[j].mode = IF j <= k THEN mode ELSE "user"
  BY DEF Modes
<1>1. CASE j = Len(stacks) + 1
  BY <1>1
<1>2. CASE j # Len(stacks) + 1
  <2>1. j \in 1..Len(stacks) /\ Append(stacks, x)[j] = stacks[j]
    BY <1>2
  <2> QED BY <2>1 DEF Modes
<1> QED BY <1>1, <1>2

\* A lock is taken off; the last one starts what was received, or defers it.
LEMMA DemonUnlock == ASSUME DemonInv, DE!unlock PROVE DemonInv'
<1> DEFINE s == [calls |-> ins, mode |-> "user"]
<1>1. /\ lockers > 0 /\ lockers' = lockers - 1 /\ call' = call /\ tree' = tree /\ waiting' = waiting
      /\ restorers' = restorers /\ undos' = undos /\ redos' = redos /\ base' = base /\ latest' = latest /\ mixed' = mixed
  BY DEF DE!unlock
<1>2. lockers \in Nat /\ lockers - 1 \in Nat /\ DemonWaits
  BY <1>1 DEF DemonInv, DemonWaits
<1>3. CASE lockers # 1
  <2>1. ins' = ins /\ treated' = treated /\ index' = index /\ deferred' = deferred /\ lockers' > 0
    BY <1>1, <1>2, <1>3 DEF DE!unlock
  <2>2. DemonWaits'
    BY <1>1, <1>2, <2>1 DEF DemonWaits
  <2>3. ASSUME ~mixed PROVE DemonTyped' /\ DemonAt' /\ DemonHistory'
    <3>1. DemonTyped /\ DemonAt /\ DemonHistory
      BY <2>3 DEF DemonInv
    <3>2. DemonTyped' /\ DemonAt'
      BY <1>1, <2>1, <3>1 DEF DemonTyped, DemonAt
    <3>3. DemonHistory'
      BY <1>1, <2>1, <3>1 DEF DemonHistory, Reached
    <3> QED BY <3>2, <3>3
  <2> QED BY <1>1, <2>2, <2>3 DEF DemonInv
<1>4. CASE lockers = 1 /\ treated = DE!Null
  <2>1. ins' = <<>> /\ treated' = s /\ index' = 1 /\ deferred' = deferred
    BY <1>4 DEF DE!unlock, DE!start
  <2>2. treated.mode = "none" /\ deferred = <<>> /\ waiting = "nothing" /\ treated'.mode = "user" /\ treated'.calls = ins
    BY <1>2, <1>4, <2>1 DEF DemonWaits, DE!Null
  <2>3. DemonWaits'
    BY <1>1, <1>2, <2>1, <2>2 DEF DemonWaits
  <2>4. ASSUME ~mixed PROVE DemonTyped' /\ DemonAt' /\ DemonHistory'
    <3>1. DemonTyped /\ DemonAt /\ DemonHistory
      BY <2>4 DEF DemonInv
    <3>2. ins \in Seq(MoveSet) /\ ins \in Seq(CallSet) /\ Len(ins) \in Nat /\ MovesFrom(ins, 1) /\ <<>> \in Seq(MoveSet)
      <4>1. ins \in Seq(MoveSet) /\ MoveSet \subseteq CallSet
        BY <3>1 DEF DemonTyped, MoveSet, CallSet
      <4> QED BY <4>1, ElementOfSeq DEF MovesFrom
    <3>3. treated' \in StackSet
      BY <2>1, <3>2 DEF StackSet
    <3>4. DemonTyped'
      BY <1>1, <2>1, <3>1, <3>2, <3>3 DEF DemonTyped
    <3>5. DemonAt'
      BY <1>1, <2>1, <2>2, <3>1, <3>2 DEF DemonAt
    <3>6. DemonHistory'
      <4>1. PICK k \in 0..Len(deferred) :
              /\ k = 0
              /\ Led("undo", undos, base, tree, treated, index, deferred, k, restorers)
              /\ Led("redo", redos, latest, tree, treated, index, deferred, k, restorers)
        BY <2>2, <3>1 DEF DemonHistory, Reached
      <4>2. Behind(undos, base, tree, restorers) /\ Behind(redos, latest, tree, restorers)
        BY <2>2, <4>1 DEF Led
      <4>3. /\ Led("undo", undos, base, tree, treated', 1, deferred, 0, restorers)
            /\ Led("redo", redos, latest, tree, treated', 1, deferred, 0, restorers)
        BY <2>2, <4>2 DEF Led
      <4>4. Modes(deferred, 0, treated'.mode) /\ 0 \in 0..Len(deferred)
        BY <2>2 DEF Modes
      <4> QED BY <1>1, <2>1, <2>2, <4>3, <4>4 DEF DemonHistory, Reached
    <3> QED BY <3>4, <3>5, <3>6
  <2> QED BY <1>1, <2>3, <2>4 DEF DemonInv
<1>5. CASE lockers = 1 /\ treated # DE!Null
  <2>1. ins' = <<>> /\ treated' = treated /\ index' = index /\ deferred' = Append(deferred, s)
    BY <1>5 DEF DE!unlock, DE!start
  <2>2. treated.mode # "none" /\ s.mode = "user" /\ s.calls = ins /\ s = [calls |-> s.calls, mode |-> s.mode]
    BY <1>2, <1>5 DEF DemonWaits
  <2> HIDE DEF s
  <2>3. DemonWaits'
    <3>1. PICK S : deferred \in Seq(S) /\ \A x \in S : x.mode # "none" /\ x = [calls |-> x.calls, mode |-> x.mode]
      BY <1>2 DEF DemonWaits
    <3>2. PICK R : R = S \cup {s}
      OBVIOUS
    <3>3. deferred \in Seq(R) /\ s \in R /\ \A x \in R : x.mode # "none" /\ x = [calls |-> x.calls, mode |-> x.mode]
      <4>1. deferred \in Seq(R)
        BY <3>1, <3>2, SeqMonotonic
      <4> QED BY <2>2, <3>1, <3>2, <4>1
    <3>4. deferred' \in Seq(R)
      BY <2>1, <3>3
    <3>5. \E more : deferred' \in Seq(more) /\ \A x \in more : x.mode # "none" /\ x = [calls |-> x.calls, mode |-> x.mode]
      BY <3>3, <3>4
    <3> QED BY <1>1, <1>2, <2>1, <2>2, <3>5 DEF DemonWaits
  <2>4. ASSUME ~mixed PROVE DemonTyped' /\ DemonAt' /\ DemonHistory'
    <3>1. DemonTyped /\ DemonAt /\ DemonHistory
      BY <2>4 DEF DemonInv
    <3>2. ins \in Seq(MoveSet) /\ ins \in Seq(CallSet) /\ MovesFrom(ins, 1) /\ <<>> \in Seq(MoveSet)
      <4>1. ins \in Seq(MoveSet) /\ MoveSet \subseteq CallSet
        BY <3>1 DEF DemonTyped, MoveSet, CallSet
      <4> QED BY <4>1, ElementOfSeq DEF MovesFrom
    <3>3. s \in StackSet /\ deferred \in Seq(StackSet)
      BY <2>2, <3>1, <3>2 DEF StackSet, DemonTyped
    <3>4. deferred' \in Seq(StackSet) /\ Len(deferred') = Len(deferred) + 1 /\ deferred'[Len(deferred) + 1] = s
          /\ \A j \in 1..Len(deferred) : deferred'[j] = deferred[j]
      BY <2>1, <3>3
    <3>5. DemonTyped'
      <4>1. ASSUME NEW j \in 1..Len(deferred'), deferred'[j].mode = "user" PROVE MovesFrom(deferred'[j].calls, 1)
        <5>1. CASE j = Len(deferred) + 1
          BY <2>2, <3>2, <3>4, <5>1
        <5>2. CASE j # Len(deferred) + 1
          <6>1. j \in 1..Len(deferred)
            BY <3>3, <3>4, <5>2
          <6> QED BY <3>1, <3>4, <4>1, <6>1 DEF DemonTyped
        <5> QED BY <5>1, <5>2
      <4> QED BY <1>1, <2>1, <3>1, <3>2, <3>4, <4>1 DEF DemonTyped
    <3>6. DemonAt'
      BY <1>1, <2>1, <3>1 DEF DemonAt
    <3>7. DemonHistory'
      <4>1. PICK k \in 0..Len(deferred) :
              /\ Modes(deferred, k, treated.mode) /\ (treated.mode \in {"none", "user"} => k = 0)
              /\ Led("undo", undos, base, tree, treated, Reached, deferred, k, restorers)
              /\ Led("redo", redos, latest, tree, treated, Reached, deferred, k, restorers)
        BY <3>1 DEF DemonHistory
      <4>2. /\ Led("undo", undos, base, tree, treated, Reached, deferred', k, restorers)
            /\ Led("redo", redos, latest, tree, treated, Reached, deferred', k, restorers)
        BY <2>1, <3>3, <4>1, LedDeferred
      <4>3. Modes(deferred', k, treated.mode)
        BY <2>1, <2>2, <3>3, <4>1, ModesDeferred
      <4>4. k \in 0..Len(deferred')
        BY <3>3, <3>4
      <4>5. Reached' = Reached
        BY <1>1, <2>1 DEF Reached
      <4> QED BY <1>1, <2>1, <4>1, <4>2, <4>3, <4>4, <4>5 DEF DemonHistory
    <3> QED BY <3>5, <3>6, <3>7
  <2> QED BY <1>1, <2>3, <2>4 DEF DemonInv
<1> QED BY <1>3, <1>4, <1>5

\* The last entry of a list, and the others.
LEMMA LastTyped ==
  ASSUME NEW list \in Seq(Seq(CallSet)), list # <<>>
  PROVE  DE!Last(list) \in Seq(CallSet) /\ DE!Front(list) \in Seq(Seq(CallSet))
<1> DEFINE n == Len(list)
<1>1. n \in Nat \ {0} /\ n - 1 \in Nat
  BY EmptySeq
<1>2. DE!Last(list) \in Seq(CallSet)
  BY <1>1, ElementOfSeq DEF DE!Last
<1>3. DE!Front(list) = SubSeq(list, 1, n - 1)
  BY DEF DE!Front
<1>4. DE!Front(list) = [i \in 1..(n - 1) |-> list[i]]
  BY <1>1, <1>3
<1>5. \A i \in 1..(n - 1) : list[i] \in Seq(CallSet)
  BY <1>1, ElementOfSeq
<1> QED BY <1>1, <1>2, <1>4, <1>5

\* The entry is treated at once, or after the stacks of its mode.
LEMMA LedStarted ==
  ASSUME NEW mode, NEW list \in Seq(Seq(CallSet)), list # <<>>, NEW first, NEW t \in Spots,
         Behind(list, first, t, <<>>), NEW s \in StackSet, s.calls = DE!Last(list), s.mode = mode, NEW stacks, NEW done
  PROVE  Led(mode, DE!Front(list), first, t, s, 1, stacks, 0, done)
<1>1. Ahead(DE!Front(list), first, t, DE!Last(list), 1, stacks, 0)
  BY BehindTaken
<1> QED BY <1>1 DEF Led

\* The entry waits for its turn.
LEMMA LedTaken ==
  ASSUME NEW mode, NEW list \in Seq(Seq(CallSet)), list # <<>>, NEW first, NEW t, NEW s \in StackSet, s.mode = mode,
         NEW i, NEW stacks \in Seq(StackSet), NEW done, Led(mode, list, first, t, s, i, stacks, Len(stacks), done),
         NEW x \in StackSet, x.calls = DE!Last(list)
  PROVE  Led(mode, DE!Front(list), first, t, s, i, Append(stacks, x), Len(stacks) + 1, done)
<1>1. Ahead(list, first, t, s.calls, i, stacks, Len(stacks))
  BY DEF Led
<1>2. Ahead(DE!Front(list), first, t, s.calls, i, Append(stacks, x), Len(stacks) + 1)
  BY <1>1, AheadTaken
<1> QED BY <1>2 DEF Led

\* All the deferred stacks are of the mode.
LEMMA ModesAll ==
  ASSUME NEW stacks \in Seq(StackSet), NEW mode, NEW k \in 0..Len(stacks), Modes(stacks, k, mode),
         mode # "user", \A j \in 1..Len(stacks) : stacks[j].mode = mode
  PROVE  k = Len(stacks)
<1> SUFFICES ASSUME k # Len(stacks) PROVE FALSE
  OBVIOUS
<1>1. k + 1 \in 1..Len(stacks) /\ ~(k + 1 <= k)
  OBVIOUS
<1> QED BY <1>1 DEF Modes

\* And so is the one that is deferred.
LEMMA ModesMore ==
  ASSUME NEW stacks \in Seq(StackSet), NEW mode, Modes(stacks, Len(stacks), mode), NEW x \in StackSet, x.mode = mode
  PROVE  Modes(Append(stacks, x), Len(stacks) + 1, mode)
<1> SUFFICES ASSUME NEW j \in 1..(Len(stacks) + 1)
             PROVE  Append(stacks, x)[j].mode = mode
  BY DEF Modes
<1>1. CASE j = Len(stacks) + 1
  BY <1>1
<1>2. CASE j # Len(stacks) + 1
  <2>1. j \in 1..Len(stacks) /\ Append(stacks, x)[j] = stacks[j] /\ j <= Len(stacks)
    BY <1>2
  <2> QED BY <2>1 DEF Modes
<1> QED BY <1>1, <1>2

\* Undo or redo: the last entry starts, or is deferred.
LEMMA DemonGo == ASSUME DemonInv, NEW mode \in {"undo", "redo"}, DE!go(mode) PROVE DemonInv'
<1> DEFINE s == [calls |-> DE!Last(DE!from(mode)), mode |-> mode]
<1>1. /\ DE!from(mode) # <<>> /\ DE!start(s)
      /\ undos' = (IF mode = "undo" THEN DE!Front(undos) ELSE undos)
      /\ redos' = (IF mode = "redo" THEN DE!Front(redos) ELSE redos)
      /\ mixed' = (mixed \/ ins # <<>> \/ (treated # DE!Null /\ treated.mode # mode)
                         \/ \E i \in DOMAIN deferred : deferred[i].mode # mode)
      /\ call' = call /\ tree' = tree /\ ins' = ins /\ lockers' = lockers /\ waiting' = waiting
      /\ restorers' = restorers /\ base' = base /\ latest' = latest
  BY DEF DE!go
<1>2. s.mode = mode /\ s.calls = DE!Last(DE!from(mode)) /\ s = [calls |-> s.calls, mode |-> s.mode] /\ DemonWaits
      /\ s.mode # "none" /\ s.mode # "user"
  BY DEF DemonInv
<1> HIDE DEF s
<1>3. ASSUME ~mixed'
      PROVE  /\ ~mixed /\ DemonTyped /\ DemonAt /\ DemonHistory /\ (treated = DE!Null \/ treated.mode = mode)
             /\ \A j \in 1..Len(deferred) : deferred[j].mode = mode
             /\ undos \in Seq(Seq(CallSet)) /\ redos \in Seq(Seq(CallSet)) /\ tree \in Spots /\ deferred \in Seq(StackSet)
             /\ s \in StackSet /\ undos' \in Seq(Seq(CallSet)) /\ redos' \in Seq(Seq(CallSet))
  <2>1. ~mixed /\ DemonTyped /\ DemonAt /\ DemonHistory /\ (treated = DE!Null \/ treated.mode = mode)
    BY <1>1, <1>3 DEF DemonInv
  <2>2. undos \in Seq(Seq(CallSet)) /\ redos \in Seq(Seq(CallSet)) /\ tree \in Spots /\ deferred \in Seq(StackSet)
    BY <2>1 DEF DemonTyped
  <2>3. DE!from(mode) \in Seq(Seq(CallSet)) /\ (mode = "undo" => undos # <<>>) /\ (mode = "redo" => redos # <<>>)
    BY <1>1, <2>2 DEF DE!from
  <2>4. DE!Last(DE!from(mode)) \in Seq(CallSet)
    BY <1>1, <2>3, LastTyped
  <2>5. s \in StackSet
    BY <1>2, <2>4 DEF StackSet
  <2>6. undos' \in Seq(Seq(CallSet)) /\ redos' \in Seq(Seq(CallSet))
    BY <1>1, <2>2, <2>3, LastTyped
  <2>7. DOMAIN deferred = 1..Len(deferred)
    BY <2>2
  <2> QED BY <1>1, <1>3, <2>1, <2>2, <2>5, <2>6, <2>7
<1>4. CASE treated = DE!Null
  <2>1. treated' = s /\ index' = 1 /\ deferred' = deferred
    BY <1>1, <1>4 DEF DE!start
  <2>2. treated.mode = "none" /\ deferred = <<>> /\ waiting = "nothing"
    BY <1>2, <1>4 DEF DemonWaits, DE!Null
  <2>3. DemonWaits'
    BY <1>1, <1>2, <2>1, <2>2 DEF DemonWaits
  <2>4. ASSUME ~mixed' PROVE DemonTyped' /\ DemonAt' /\ DemonHistory'
    <3>1. DemonTyped'
      BY <1>1, <1>3, <2>1, <2>4 DEF DemonTyped
    <3>2. DemonAt'
      <4>1. 1 \in 1..(Len(s.calls) + 1)
        BY <1>3, <2>4 DEF StackSet
      <4> QED BY <1>1, <1>2, <1>3, <2>1, <2>2, <2>4, <4>1 DEF DemonAt
    <3>3. DemonHistory'
      <4>1. PICK k \in 0..Len(deferred) :
              /\ Led("undo", undos, base, tree, treated, index, deferred, k, restorers)
              /\ Led("redo", redos, latest, tree, treated, index, deferred, k, restorers)
        BY <1>3, <2>2, <2>4 DEF DemonHistory, Reached
      <4>2. restorers = <<>>
        BY <1>3, <2>2, <2>4 DEF DemonAt
      <4>3. Behind(undos, base, tree, <<>>) /\ Behind(redos, latest, tree, <<>>)
        BY <2>2, <4>1, <4>2 DEF Led
      <4>4. Led("undo", undos', base, tree, s, 1, deferred, 0, restorers)
        <5>1. CASE mode = "undo"
          BY <1>1, <1>2, <1>3, <2>4, <4>3, <5>1, LedStarted DEF DE!from
        <5>2. CASE mode = "redo"
          BY <1>1, <1>2, <4>2, <4>3, <5>2 DEF Led
        <5> QED BY <5>1, <5>2
      <4>5. Led("redo", redos', latest, tree, s, 1, deferred, 0, restorers)
        <5>1. CASE mode = "redo"
          BY <1>1, <1>2, <1>3, <2>4, <4>3, <5>1, LedStarted DEF DE!from
        <5>2. CASE mode = "undo"
          BY <1>1, <1>2, <4>2, <4>3, <5>2 DEF Led
        <5> QED BY <5>1, <5>2
      <4>6. 0 \in 0..Len(deferred) /\ Modes(deferred, 0, s.mode)
        BY <2>2 DEF Modes
      <4> QED BY <1>1, <2>1, <2>2, <4>4, <4>5, <4>6 DEF DemonHistory, Reached
    <3> QED BY <3>1, <3>2, <3>3
  <2> QED BY <1>1, <2>3, <2>4 DEF DemonInv
<1>5. CASE treated # DE!Null
  <2>1. treated' = treated /\ index' = index /\ deferred' = Append(deferred, s)
    BY <1>1, <1>5 DEF DE!start
  <2>2. treated.mode # "none"
    BY <1>2, <1>5 DEF DemonWaits
  <2>3. DemonWaits'
    <3>1. PICK S : deferred \in Seq(S) /\ \A x \in S : x.mode # "none" /\ x = [calls |-> x.calls, mode |-> x.mode]
      BY <1>2 DEF DemonWaits
    <3>2. PICK R : R = S \cup {s}
      OBVIOUS
    <3>3. deferred \in Seq(R) /\ s \in R /\ \A x \in R : x.mode # "none" /\ x = [calls |-> x.calls, mode |-> x.mode]
      <4>1. deferred \in Seq(R)
        BY <3>1, <3>2, SeqMonotonic
      <4> QED BY <1>2, <3>1, <3>2, <4>1
    <3>4. deferred' \in Seq(R)
      BY <2>1, <3>3
    <3>5. \E more : deferred' \in Seq(more) /\ \A x \in more : x.mode # "none" /\ x = [calls |-> x.calls, mode |-> x.mode]
      BY <3>3, <3>4
    <3>6. waiting = "forever" => mixed'
      BY <1>1, <1>2 DEF DemonWaits
    <3> QED BY <1>1, <1>2, <2>1, <2>2, <3>5, <3>6 DEF DemonWaits
  <2>4. ASSUME ~mixed' PROVE DemonTyped' /\ DemonAt' /\ DemonHistory'
    <3>1. deferred' \in Seq(StackSet) /\ Len(deferred') = Len(deferred) + 1 /\ deferred'[Len(deferred) + 1] = s
          /\ \A j \in 1..Len(deferred) : deferred'[j] = deferred[j]
      BY <1>3, <2>1, <2>4
    <3>2. DemonTyped'
      <4>1. ASSUME NEW j \in 1..Len(deferred'), deferred'[j].mode = "user" PROVE FALSE
        <5>1. CASE j = Len(deferred) + 1
          BY <1>2, <3>1, <4>1, <5>1
        <5>2. CASE j # Len(deferred) + 1
          <6>1. j \in 1..Len(deferred)
            BY <1>3, <2>4, <3>1, <5>2
          <6> QED BY <1>2, <1>3, <2>4, <3>1, <4>1, <6>1
        <5> QED BY <5>1, <5>2
      <4> QED BY <1>1, <1>3, <2>1, <2>4, <3>1, <4>1 DEF DemonTyped
    <3>3. DemonAt'
      BY <1>1, <1>3, <2>1, <2>4 DEF DemonAt
    <3>4. DemonHistory'
      <4>1. PICK k \in 0..Len(deferred) :
              /\ Modes(deferred, k, treated.mode)
              /\ Led("undo", undos, base, tree, treated, Reached, deferred, k, restorers)
              /\ Led("redo", redos, latest, tree, treated, Reached, deferred, k, restorers)
        BY <1>3, <2>4 DEF DemonHistory
      <4>2. treated.mode = mode /\ treated \in StackSet /\ mode # "user"
        BY <1>2, <1>3, <1>5, <2>4 DEF DemonTyped
      <4>3. k = Len(deferred)
        BY <1>3, <2>4, <4>1, <4>2, ModesAll
      <4>4. Led("undo", undos', base, tree, treated, Reached, deferred', Len(deferred) + 1, restorers)
        <5>1. CASE mode = "undo"
          BY <1>1, <1>2, <1>3, <2>1, <2>4, <4>1, <4>2, <4>3, <5>1, LedTaken DEF DE!from
        <5>2. CASE mode = "redo"
          BY <1>1, <4>1, <4>2, <5>2 DEF Led
        <5> QED BY <5>1, <5>2
      <4>5. Led("redo", redos', latest, tree, treated, Reached, deferred', Len(deferred) + 1, restorers)
        <5>1. CASE mode = "redo"
          BY <1>1, <1>2, <1>3, <2>1, <2>4, <4>1, <4>2, <4>3, <5>1, LedTaken DEF DE!from
        <5>2. CASE mode = "undo"
          BY <1>1, <4>1, <4>2, <5>2 DEF Led
        <5> QED BY <5>1, <5>2
      <4>6. Modes(deferred', Len(deferred) + 1, mode)
        BY <1>2, <1>3, <2>1, <2>4, <4>1, <4>2, <4>3, ModesMore
      <4>7. Len(deferred) + 1 \in 0..Len(deferred')
        BY <1>3, <2>4, <3>1
      <4>8. Reached' = Reached
        BY <1>1, <2>1 DEF Reached
      <4> QED BY <1>1, <2>1, <4>2, <4>4, <4>5, <4>6, <4>7, <4>8 DEF DemonHistory
    <3> QED BY <3>2, <3>3, <3>4
  <2> QED BY <1>1, <2>3, <2>4 DEF DemonInv
<1> QED BY <1>4, <1>5

\* A list whose last entry was treated, and one that remembers it.
LEMMA LedOver ==
  ASSUME NEW mode, NEW list, NEW first, NEW t \in Spots, NEW s \in StackSet, s.mode = mode, NEW i \in Nat,
         i = Len(s.calls) + 1, NEW stacks \in Seq(StackSet), NEW k \in 0..Len(stacks), NEW done,
         Led(mode, list, first, t, s, i, stacks, k, done)
  PROVE  /\ k = 0 => Behind(list, first, t, <<>>)
         /\ k # 0 => Ahead(list, first, t, Head(stacks).calls, 1, Tail(stacks), k - 1)
<1>1. Ahead(list, first, t, s.calls, i, stacks, k) /\ s.calls \in Seq(CallSet)
  BY DEF Led, StackSet
<1>2. ASSUME k = 0 PROVE Behind(list, first, t, <<>>)
  BY <1>1, <1>2, AheadOver
<1>3. ASSUME k # 0 PROVE Ahead(list, first, t, Head(stacks).calls, 1, Tail(stacks), k - 1)
  <2>1. k \in 1..Len(stacks)
    BY <1>3
  <2> QED BY <1>1, <2>1, AheadNext
<1> QED BY <1>2, <1>3

\* What was done is an entry of the other list.
LEMMA LedEntry ==
  ASSUME NEW mode, NEW list \in Seq(Seq(CallSet)), NEW first, NEW t \in Spots, NEW s, s.mode # mode, NEW i,
         NEW stacks, NEW k, NEW done \in Seq(CallSet), Led(mode, list, first, t, s, i, stacks, k, done),
         NEW more, more = IF done = <<>> THEN list ELSE Append(list, DE!entry(done))
  PROVE  Behind(more, first, t, <<>>) /\ more \in Seq(Seq(CallSet))
<1>1. Behind(list, first, t, done)
  BY DEF Led
<1>2. CASE done = <<>>
  BY <1>1, <1>2
<1>3. CASE done # <<>>
  BY <1>1, <1>3, BehindEntry
<1> QED BY <1>2, <1>3

\* The stacks that remain when the first one starts.
LEMMA StacksNext ==
  ASSUME NEW stacks \in Seq(StackSet), stacks # <<>>, NEW k \in 0..Len(stacks), NEW mode, Modes(stacks, k, mode)
  PROVE  /\ Head(stacks) \in StackSet /\ Head(stacks) = stacks[1] /\ Tail(stacks) \in Seq(StackSet)
         /\ \A j \in 1..Len(Tail(stacks)) : j + 1 \in 1..Len(stacks) /\ Tail(stacks)[j] = stacks[j + 1]
         /\ Head(stacks).mode = (IF k = 0 THEN "user" ELSE mode)
         /\ (IF k = 0 THEN 0 ELSE k - 1) \in 0..Len(Tail(stacks))
         /\ Modes(Tail(stacks), IF k = 0 THEN 0 ELSE k - 1, Head(stacks).mode)
<1> DEFINE n == Len(stacks)  rest == Tail(stacks)
<1>1. n \in Nat \ {0} /\ 1 \in 1..n
  BY EmptySeq
<1>2. Head(stacks) = stacks[1] /\ Head(stacks) \in StackSet
  BY <1>1, ElementOfSeq
<1>3. rest \in Seq(StackSet) /\ Len(rest) = n - 1 /\ \A i \in 1..(n - 1) : rest[i] = stacks[i + 1]
  BY HeadTailProperties
<1> HIDE DEF rest
<1>4. \A j \in 1..Len(rest) : j + 1 \in 1..n /\ rest[j] = stacks[j + 1]
  BY <1>1, <1>3
<1>5. stacks[1].mode = (IF k = 0 THEN "user" ELSE mode)
  BY <1>1 DEF Modes
<1>6. (IF k = 0 THEN 0 ELSE k - 1) \in 0..Len(rest)
  BY <1>1, <1>3
<1>7. Modes(rest, IF k = 0 THEN 0 ELSE k - 1, stacks[1].mode)
  <2>1. ASSUME NEW j \in 1..Len(rest)
        PROVE  rest[j].mode = IF j <= (IF k = 0 THEN 0 ELSE k - 1) THEN stacks[1].mode ELSE "user"
    <3>1. stacks[j + 1].mode = IF j + 1 <= k THEN mode ELSE "user"
      BY <1>4 DEF Modes
    <3>2. rest[j] = stacks[j + 1] /\ j \in Nat \ {0}
      BY <1>4
    <3>3. CASE k = 0
      BY <3>1, <3>2, <3>3
    <3>4. CASE k # 0
      <4>1. (j + 1 <= k) = (j <= k - 1)
        BY <3>2
      <4> QED BY <1>5, <3>1, <3>2, <3>4, <4>1
    <3> QED BY <3>3, <3>4
  <2> QED BY <2>1 DEF Modes
<1> QED BY <1>2, <1>3, <1>4, <1>5, <1>6, <1>7 DEF rest

\* What a user's stack leaves in memory.
LEMMA StoreKeeps ==
  ASSUME DE!DemonAssumption, tree \in Spots, base \in Spots, undos \in Seq(Seq(CallSet)), restorers \in Seq(CallSet),
         Behind(undos, base, tree, restorers), DE!store(restorers),
         base' = IF Len(undos) = UndoLimit THEN DE!Walk(tree, undos') ELSE base
  PROVE  /\ Behind(undos', base', tree, <<>>) /\ base' \in Spots /\ undos' \in Seq(Seq(CallSet))
         /\ redos' = <<>>
<1>1. CASE Len(undos) = UndoLimit
  <2>1. undos # <<>> /\ undos' = Append(Tail(undos), DE!entry(restorers)) /\ redos' = <<>>
    BY <1>1 DEF DE!DemonAssumption, DE!store
  <2>2. PICK u \in Spots : Behind(Tail(undos), u, tree, restorers) /\ Tail(undos) \in Seq(Seq(CallSet))
    BY <2>1, BehindForgotten
  <2>3. Behind(undos', u, tree, <<>>) /\ undos' \in Seq(Seq(CallSet))
    BY <2>1, <2>2, BehindEntry
  <2>4. DE!Walk(tree, undos') = u
    BY <2>3, BehindWalk
  <2> QED BY <1>1, <2>1, <2>2, <2>3, <2>4
<1>2. CASE Len(undos) # UndoLimit
  <2>1. undos' = Append(undos, DE!entry(restorers)) /\ redos' = <<>> /\ base' = base
    BY <1>2 DEF DE!store
  <2> QED BY <2>1, BehindEntry
<1> QED BY <1>1, <1>2

\* The end of a stack.
LEMMA DemonEnd == ASSUME DE!DemonAssumption, DemonInv, DE!end PROVE DemonInv'
<1>1. /\ treated # DE!Null /\ waiting = "nothing" /\ index > Len(treated.calls)
      /\ restorers' = <<>> /\ index' = 1
      /\ treated' = (IF deferred = <<>> THEN DE!Null ELSE Head(deferred))
      /\ deferred' = (IF deferred = <<>> THEN deferred ELSE Tail(deferred))
      /\ call' = call /\ tree' = tree /\ ins' = ins /\ lockers' = lockers /\ waiting' = waiting /\ mixed' = mixed
  BY DEF DE!end, DE!Treating, DE!next
<1>2. DemonWaits /\ treated.mode # "none" /\ DE!Null.mode = "none" /\ DE!Null = [calls |-> DE!Null.calls, mode |-> DE!Null.mode]
  BY <1>1 DEF DemonInv, DemonWaits, DE!Null
<1>3. DemonWaits'
  <2>1. CASE deferred = <<>>
    <3>1. treated' = DE!Null /\ deferred' = deferred
      BY <1>1, <2>1
    <3> QED BY <1>1, <1>2, <2>1, <3>1 DEF DemonWaits
  <2>2. CASE deferred # <<>>
    <3>1. PICK S : deferred \in Seq(S) /\ \A x \in S : x.mode # "none" /\ x = [calls |-> x.calls, mode |-> x.mode]
      BY <1>2 DEF DemonWaits
    <3>2. Head(deferred) \in S /\ Tail(deferred) \in Seq(S)
      BY <2>2, <3>1, HeadTailProperties
    <3>3. treated' \in S /\ deferred' \in Seq(S)
      BY <1>1, <2>2, <3>2
    <3>4. treated'.mode # "none" /\ treated' = [calls |-> treated'.calls, mode |-> treated'.mode]
      BY <3>1, <3>3
    <3>5. \E more : deferred' \in Seq(more) /\ \A x \in more : x.mode # "none" /\ x = [calls |-> x.calls, mode |-> x.mode]
      BY <3>1, <3>3
    <3> QED BY <1>1, <1>2, <3>4, <3>5 DEF DemonWaits
  <2> QED BY <2>1, <2>2
<1>4. ASSUME ~mixed PROVE DemonTyped' /\ DemonAt' /\ DemonHistory'
  <2>1. DemonTyped /\ DemonAt /\ DemonHistory
    BY <1>4 DEF DemonInv
  <2>2. /\ treated \in StackSet /\ tree \in Spots /\ deferred \in Seq(StackSet) /\ restorers \in Seq(CallSet)
        /\ undos \in Seq(Seq(CallSet)) /\ redos \in Seq(Seq(CallSet)) /\ base \in Spots /\ latest \in Spots
        /\ treated.mode \in {"user", "undo", "redo"}
    BY <1>2, <2>1 DEF DemonTyped, StackSet
  <2>3. index \in Nat /\ index = Len(treated.calls) + 1
    <3>1. Len(treated.calls) \in Nat
      BY <2>2 DEF StackSet
    <3> QED BY <1>1, <1>2, <2>1, <3>1 DEF DemonAt
  <2>4. PICK k \in 0..Len(deferred) :
          /\ Modes(deferred, k, treated.mode) /\ (treated.mode \in {"none", "user"} => k = 0)
          /\ Led("undo", undos, base, tree, treated, index, deferred, k, restorers)
          /\ Led("redo", redos, latest, tree, treated, index, deferred, k, restorers)
    BY <1>1, <2>1 DEF DemonHistory, Reached
  <2>5. /\ undos' \in Seq(Seq(CallSet)) /\ redos' \in Seq(Seq(CallSet)) /\ base' \in Spots /\ latest' \in Spots
        /\ IF treated.mode = "undo" /\ k # 0 THEN Ahead(undos', base', tree, Head(deferred).calls, 1, Tail(deferred), k - 1)
           ELSE Behind(undos', base', tree, <<>>)
        /\ IF treated.mode = "redo" /\ k # 0 THEN Ahead(redos', latest', tree, Head(deferred).calls, 1, Tail(deferred), k - 1)
           ELSE Behind(redos', latest', tree, <<>>)
    <3>1. CASE treated.mode = "user" /\ restorers = <<>>
      <4>1. undos' = undos /\ redos' = redos /\ base' = base /\ latest' = latest
        BY <3>1 DEF DE!end
      <4> QED BY <2>2, <2>4, <3>1, <4>1 DEF Led
    <3>2. CASE treated.mode = "user" /\ restorers # <<>>
      <4>1. /\ DE!store(restorers) /\ base' = (IF Len(undos) = UndoLimit THEN DE!Walk(tree, undos') ELSE base) /\ latest' = tree
        BY <3>2 DEF DE!end
      <4>2. Behind(undos, base, tree, restorers)
        BY <2>4, <3>2 DEF Led
      <4>3. Behind(undos', base', tree, <<>>) /\ base' \in Spots /\ undos' \in Seq(Seq(CallSet)) /\ redos' = <<>>
        BY <2>2, <4>1, <4>2, StoreKeeps
      <4>4. Behind(redos', latest', tree, <<>>) /\ redos' \in Seq(Seq(CallSet))
        BY <2>2, <4>1, <4>3, BehindNothing
      <4> QED BY <2>2, <3>2, <4>1, <4>3, <4>4
    <3>3. CASE treated.mode = "undo"
      <4>1. /\ undos' = undos /\ base' = base /\ latest' = latest
            /\ redos' = (IF restorers = <<>> THEN redos ELSE Append(redos, DE!entry(restorers)))
        BY <3>3 DEF DE!end
      <4>2. Behind(redos', latest, tree, <<>>) /\ redos' \in Seq(Seq(CallSet))
        BY <2>2, <2>4, <3>3, <4>1, LedEntry
      <4>3. /\ k = 0 => Behind(undos, base, tree, <<>>)
            /\ k # 0 => Ahead(undos, base, tree, Head(deferred).calls, 1, Tail(deferred), k - 1)
        BY <2>2, <2>3, <2>4, <3>3, LedOver
      <4> QED BY <2>2, <3>3, <4>1, <4>2, <4>3
    <3>4. CASE treated.mode = "redo"
      <4>1. /\ redos' = redos /\ base' = base /\ latest' = latest
            /\ undos' = (IF restorers = <<>> THEN undos ELSE Append(undos, DE!entry(restorers)))
        BY <3>4 DEF DE!end
      <4>2. Behind(undos', base, tree, <<>>) /\ undos' \in Seq(Seq(CallSet))
        BY <2>2, <2>4, <3>4, <4>1, LedEntry
      <4>3. /\ k = 0 => Behind(redos, latest, tree, <<>>)
            /\ k # 0 => Ahead(redos, latest, tree, Head(deferred).calls, 1, Tail(deferred), k - 1)
        BY <2>2, <2>3, <2>4, <3>4, LedOver
      <4> QED BY <2>2, <3>4, <4>1, <4>2, <4>3
    <3> QED BY <2>2, <3>1, <3>2, <3>3, <3>4
  <2>6. CASE deferred = <<>>
    <3>1. k = 0 /\ treated' = DE!Null /\ deferred' = deferred
      BY <1>1, <2>4, <2>6
    <3>2. DemonTyped'
      BY <1>1, <2>1, <2>5, <2>6, <3>1 DEF DemonTyped
    <3>3. DemonAt'
      BY <1>1, <1>2, <2>1, <3>1 DEF DemonAt
    <3>4. DemonHistory'
      <4>1. /\ Led("undo", undos', base', tree, DE!Null, 1, deferred, 0, <<>>)
            /\ Led("redo", redos', latest', tree, DE!Null, 1, deferred, 0, <<>>)
        BY <1>2, <2>5, <3>1 DEF Led
      <4>2. 0 \in 0..Len(deferred) /\ Modes(deferred, 0, "none")
        BY <2>6 DEF Modes
      <4> QED BY <1>1, <1>2, <3>1, <4>1, <4>2 DEF DemonHistory, Reached
    <3> QED BY <3>2, <3>3, <3>4
  <2>7. CASE deferred # <<>>
    <3> DEFINE m == IF k = 0 THEN 0 ELSE k - 1
    <3>1. /\ treated' = Head(deferred) /\ treated' = deferred[1] /\ deferred' = Tail(deferred)
          /\ treated' \in StackSet /\ deferred' \in Seq(StackSet)
          /\ \A j \in 1..Len(deferred') : j + 1 \in 1..Len(deferred) /\ deferred'[j] = deferred[j + 1]
          /\ treated'.mode = (IF k = 0 THEN "user" ELSE treated.mode)
          /\ m \in 0..Len(deferred') /\ Modes(deferred', m, treated'.mode)
      BY <1>1, <2>2, <2>4, <2>7, StacksNext
    <3> HIDE DEF m
    <3>2. DemonTyped'
      <4>1. \A j \in 1..Len(deferred') : deferred'[j].mode = "user" => MovesFrom(deferred'[j].calls, 1)
        BY <2>1, <3>1 DEF DemonTyped
      <4> QED BY <1>1, <2>1, <2>5, <3>1, <4>1 DEF DemonTyped
    <3>3. DemonAt'
      <4>1. treated'.mode = "user" => MovesFrom(treated'.calls, 1)
        <5>1. 1 \in 1..Len(deferred)
          BY <2>2, <2>7, EmptySeq
        <5> QED BY <2>1, <3>1, <5>1 DEF DemonTyped
      <4>2. treated'.mode # "none" /\ 1 \in 1..(Len(treated'.calls) + 1)
        <5>1. Len(treated'.calls) \in Nat /\ treated'.mode # "none"
          BY <3>1 DEF StackSet
        <5> QED BY <5>1
      <4> QED BY <1>1, <1>2, <2>1, <4>1, <4>2 DEF DemonAt
    <3>4. DemonHistory'
      <4>1. /\ Led("undo", undos', base', tree, treated', 1, deferred', m, <<>>)
            /\ Led("redo", redos', latest', tree, treated', 1, deferred', m, <<>>)
        <5>1. CASE k = 0
          BY <2>5, <3>1, <5>1 DEF Led
        <5>2. CASE k # 0
          <6>1. treated'.mode = treated.mode /\ m = k - 1
            BY <3>1, <5>2 DEF m
          <6> QED BY <2>5, <3>1, <5>2, <6>1 DEF Led
        <5> QED BY <5>1, <5>2
      <4>2. treated'.mode \in {"none", "user"} => m = 0
        BY <2>4, <3>1 DEF m
      <4> QED BY <1>1, <3>1, <4>1, <4>2 DEF DemonHistory, Reached
    <3> QED BY <3>2, <3>3, <3>4
  <2> QED BY <2>6, <2>7
<1> QED BY <1>1, <1>3, <1>4 DEF DemonInv

\* Every step of the demon.
LEMMA DemonStep == ASSUME DE!DemonAssumption, DemonInv, [DE!Next]_(DE!vars) PROVE DemonInv'
<1>1. CASE DE!Next
  <2>1. ASSUME NEW q \in Spot, DE!Demand(q) PROVE DemonInv'
    BY <2>1, DemonDemand
  <2>2. ASSUME NEW mode \in {"undo", "redo"}, DE!go(mode) PROVE DemonInv'
    BY <2>2, DemonGo
  <2> QED BY <1>1, <2>1, <2>2, DemonUnlock, DemonEnd, DemonSkip, DemonSubmit, DemonList, DemonCancel, DemonRemove,
        DemonUseFree, DemonAnswer, DemonError
      DEF DE!Next
<1>2. CASE UNCHANGED DE!vars
  <2>1. /\ tree' = tree /\ ins' = ins /\ lockers' = lockers /\ treated' = treated /\ index' = index /\ deferred' = deferred
        /\ call' = call /\ waiting' = waiting /\ restorers' = restorers /\ undos' = undos /\ redos' = redos
        /\ base' = base /\ latest' = latest /\ mixed' = mixed
    BY <1>2 DEF DE!vars
  <2>2. DemonWaits'
    BY <2>1 DEF DemonInv, DemonWaits
  <2>3. ASSUME ~mixed PROVE DemonTyped' /\ DemonAt'
    BY <2>1, <2>3 DEF DemonInv, DemonTyped, DemonAt
  <2>4. ASSUME ~mixed PROVE DemonHistory'
    BY <2>1, <2>4 DEF DemonInv, DemonHistory, Reached
  <2> QED BY <2>1, <2>2, <2>3, <2>4 DEF DemonInv
<1> QED BY <1>1, <1>2

\* What it means for undo and redo.
LEMMA DemonKeeps == ASSUME DemonInv PROVE DE!UndoLeadsBack /\ DE!NothingStuck
<1>1. DE!NothingStuck
  BY DEF DemonInv, DemonWaits, DE!NothingStuck, DE!Null
<1>2. ASSUME treated = DE!Null, ~mixed PROVE DE!Walk(tree, undos) = base /\ DE!Walk(tree, redos) = latest
  <2>1. DemonTyped /\ DemonAt /\ DemonHistory /\ treated.mode = "none" /\ waiting = "nothing"
    BY <1>2 DEF DemonInv, DemonWaits, DE!Null
  <2>2. restorers = <<>>
    BY <2>1 DEF DemonAt
  <2>3. PICK k \in 0..Len(deferred) :
          /\ Led("undo", undos, base, tree, treated, index, deferred, k, restorers)
          /\ Led("redo", redos, latest, tree, treated, index, deferred, k, restorers)
    BY <2>1 DEF DemonHistory, Reached
  <2>4. Behind(undos, base, tree, <<>>) /\ Behind(redos, latest, tree, <<>>)
    BY <2>1, <2>2, <2>3 DEF Led
  <2>5. tree \in Spots /\ undos \in Seq(Seq(CallSet)) /\ redos \in Seq(Seq(CallSet))
    BY <2>1 DEF DemonTyped
  <2> QED BY <2>4, <2>5, BehindWalk
<1> QED BY <1>1, <1>2 DEF DE!UndoLeadsBack, DE!Idle

-----------------------------------------------------------------------------
(* The channel between the old server and its process.                     *)

ManagerTyped ==
  /\ sent \in [Side -> Seq({"action", "result"})]
  /\ callbacks \in [Side -> Nat] /\ doing \in [Side -> Nat] /\ demands \in [Side -> Nat] /\ answers \in [Side -> Nat]

\* While p waits for an action that q does, one demand, action or result is
\* under way.
OneUnderWay(p, q) ==
  /\ doing[p] = 0 /\ sent[p] \in Seq({"action"}) /\ sent[q] \in Seq({"result"})
  /\ Len(sent[p]) + doing[q] + Len(sent[q]) = IF callbacks[p] > 0 THEN 1 ELSE 0

ManagerInv ==
  /\ ManagerTyped
  /\ \A p \in Side : answers[p] + callbacks[p] = demands[p]
  /\ \A p, q \in Side : p # q /\ p \notin Handlers /\ q \in Handlers => OneUnderWay(p, q)

\* There are two sides.
LEMMA TwoSides ==
  ASSUME MG!ManagerAssumption, NEW p \in Side
  PROVE  MG!Other(p) \in Side /\ MG!Other(p) # p /\ \A q \in Side : q = p \/ q = MG!Other(p)
<1>1. \E q \in Side : q # p /\ \A r \in Side : r = p \/ r = q
  BY DEF MG!ManagerAssumption
<1>2. MG!Other(p) \in Side /\ MG!Other(p) # p
  BY <1>1 DEF MG!Other
<1> QED BY <1>1, <1>2

\* At first nothing is under way.
LEMMA ManagerStart == ASSUME MG!Init PROVE ManagerInv
<1> USE DEF MG!Init
<1>1. ManagerTyped
  BY DEF ManagerTyped
<1>2. \A p \in Side : answers[p] + callbacks[p] = demands[p]
  OBVIOUS
<1>3. \A p, q \in Side : OneUnderWay(p, q)
  <2>1. \A p \in Side : sent[p] = <<>> /\ callbacks[p] = 0 /\ doing[p] = 0
    OBVIOUS
  <2>2. <<>> \in Seq({"action"}) /\ <<>> \in Seq({"result"}) /\ Len(<<>>) = 0
    OBVIOUS
  <2> QED BY <2>1, <2>2 DEF OneUnderWay
<1> QED BY <1>1, <1>2, <1>3 DEF ManagerInv

\* A demand is sent when none is waiting.
LEMMA ManagerDemand ==
  ASSUME MG!ManagerAssumption, ManagerInv, NEW r \in Side, MG!demand(r)
  PROVE  ManagerInv'
<1>1. /\ demands' = [demands EXCEPT ![r] = @ + 1] /\ callbacks' = [callbacks EXCEPT ![r] = @ + 1]
      /\ sent' = (IF callbacks[r] > 0 \/ r \in Handlers THEN sent ELSE [sent EXCEPT ![r] = Append(@, "action")])
      /\ doing' = doing /\ answers' = answers
  BY DEF MG!demand, MG!running
<1>2. ManagerTyped /\ \A p \in Side : answers[p] + callbacks[p] = demands[p]
  BY DEF ManagerInv
<1>3. /\ \A p \in Side : callbacks[p] \in Nat /\ doing[p] \in Nat /\ demands[p] \in Nat /\ answers[p] \in Nat
                        /\ sent[p] \in Seq({"action", "result"})
  BY <1>2 DEF ManagerTyped
<1>4. ManagerTyped'
  <2>1. sent' \in [Side -> Seq({"action", "result"})]
    <3>1. Append(sent[r], "action") \in Seq({"action", "result"})
      BY <1>3
    <3> QED BY <1>1, <1>2, <3>1 DEF ManagerTyped
  <2>2. demands' \in [Side -> Nat] /\ callbacks' \in [Side -> Nat]
    BY <1>1, <1>2, <1>3 DEF ManagerTyped
  <2> QED BY <1>1, <1>2, <2>1, <2>2 DEF ManagerTyped
<1>5. ASSUME NEW p \in Side PROVE answers'[p] + callbacks'[p] = demands'[p]
  BY <1>1, <1>2, <1>3 DEF ManagerTyped
<1>6. ASSUME NEW p \in Side, NEW q \in Side, p # q, p \notin Handlers, q \in Handlers PROVE OneUnderWay(p, q)'
  <2>1. OneUnderWay(p, q)
    BY <1>6 DEF ManagerInv
  <2>2. CASE r = q
    <3>1. sent' = sent /\ callbacks'[p] = callbacks[p]
      BY <1>1, <1>2, <1>6, <2>2 DEF ManagerTyped
    <3> QED BY <1>1, <2>1, <3>1 DEF OneUnderWay
  <2>3. CASE r = p /\ callbacks[p] > 0
    <3>1. sent' = sent /\ callbacks'[p] = callbacks[p] + 1 /\ callbacks'[p] > 0
      BY <1>1, <1>2, <1>3, <2>3 DEF ManagerTyped
    <3> QED BY <1>1, <2>1, <2>3, <3>1 DEF OneUnderWay
  <2>4. CASE r = p /\ ~(callbacks[p] > 0)
    <3>1. /\ sent'[p] = Append(sent[p], "action") /\ sent'[q] = sent[q]
          /\ callbacks'[p] = callbacks[p] + 1 /\ callbacks'[p] > 0
      BY <1>1, <1>2, <1>3, <1>6, <2>4 DEF ManagerTyped
    <3>2. sent[p] \in Seq({"action"}) /\ Len(sent[p]) \in Nat /\ Len(sent[q]) \in Nat /\ doing[q] \in Nat
      BY <1>3, <2>1 DEF OneUnderWay
    <3>3. Append(sent[p], "action") \in Seq({"action"}) /\ Len(Append(sent[p], "action")) = Len(sent[p]) + 1
      BY <3>2
    <3>4. Len(sent[p]) + doing[q] + Len(sent[q]) = 0
      BY <2>1, <2>4 DEF OneUnderWay
    <3>5. Len(sent'[p]) + doing'[q] + Len(sent'[q]) = 1
      <4>1. Len(sent'[p]) = Len(sent[p]) + 1 /\ doing'[q] = doing[q] /\ Len(sent'[q]) = Len(sent[q])
        BY <1>1, <3>1, <3>3
      <4>2. PICK x \in Nat, y \in Nat, z \in Nat : x = Len(sent[p]) /\ y = doing[q] /\ z = Len(sent[q])
        BY <3>2
      <4>3. x + y + z = 0 => (x + 1) + y + z = 1
        OBVIOUS
      <4> QED BY <3>4, <4>1, <4>2, <4>3
    <3> QED BY <1>1, <2>1, <3>1, <3>3, <3>5 DEF OneUnderWay
  <2>5. r = p \/ r = q
    BY <1>6, TwoSides
  <2> QED BY <2>2, <2>3, <2>4, <2>5
<1> QED BY <1>4, <1>5, <1>6 DEF ManagerInv

\* A message is received: every callback is called, and the action starts.
LEMMA ManagerMessage ==
  ASSUME MG!ManagerAssumption, ManagerInv, NEW r \in Side, MG!onmessage(r)
  PROVE  ManagerInv'
<1> DEFINE s == MG!Other(r)
<1>0. s \in Side /\ s # r /\ \A p \in Side : p = r \/ p = s
  BY TwoSides
<1>1. /\ sent[s] # <<>> /\ sent' = [sent EXCEPT ![s] = Tail(@)] /\ demands' = demands
      /\ callbacks' = [callbacks EXCEPT ![r] = 0] /\ answers' = [answers EXCEPT ![r] = @ + callbacks[r]]
      /\ doing' = (IF Head(sent[s]) = "action" /\ r \in Handlers THEN [doing EXCEPT ![r] = @ + 1] ELSE doing)
  BY DEF MG!onmessage, MG!emit
<1> HIDE DEF s
<1>2. ManagerTyped /\ \A p \in Side : answers[p] + callbacks[p] = demands[p]
  BY DEF ManagerInv
<1>3. /\ \A p \in Side : callbacks[p] \in Nat /\ doing[p] \in Nat /\ demands[p] \in Nat /\ answers[p] \in Nat
                        /\ sent[p] \in Seq({"action", "result"})
  BY <1>2 DEF ManagerTyped
<1>4. ManagerTyped'
  <2>1. sent' \in [Side -> Seq({"action", "result"})]
    <3>1. Tail(sent[s]) \in Seq({"action", "result"})
      BY <1>0, <1>1, <1>3, HeadTailProperties
    <3> QED BY <1>1, <1>2, <3>1 DEF ManagerTyped
  <2>2. callbacks' \in [Side -> Nat] /\ answers' \in [Side -> Nat]
    BY <1>1, <1>2, <1>3 DEF ManagerTyped
  <2>3. doing' \in [Side -> Nat]
    BY <1>1, <1>2, <1>3 DEF ManagerTyped
  <2> QED BY <1>1, <1>2, <2>1, <2>2, <2>3 DEF ManagerTyped
<1>5. ASSUME NEW p \in Side PROVE answers'[p] + callbacks'[p] = demands'[p]
  BY <1>1, <1>2, <1>3 DEF ManagerTyped
<1>6. ASSUME NEW p \in Side, NEW q \in Side, p # q, p \notin Handlers, q \in Handlers PROVE OneUnderWay(p, q)'
  <2>1. /\ OneUnderWay(p, q) /\ sent[p] \in Seq({"action"}) /\ sent[q] \in Seq({"result"})
        /\ Len(sent[p]) \in Nat /\ Len(sent[q]) \in Nat /\ doing[q] \in Nat /\ callbacks[p] \in Nat /\ doing[p] = 0
        /\ Len(sent[p]) + doing[q] + Len(sent[q]) = IF callbacks[p] > 0 THEN 1 ELSE 0
    <3>1. OneUnderWay(p, q)
      BY <1>6 DEF ManagerInv
    <3> QED BY <1>3, <3>1 DEF OneUnderWay
  <2>2. CASE r = q
    <3>1. s = p
      BY <1>0, <1>6, <2>2
    <3>2. Head(sent[p]) = "action" /\ Tail(sent[p]) \in Seq({"action"}) /\ Len(Tail(sent[p])) = Len(sent[p]) - 1
      BY <1>1, <2>1, <3>1, HeadTailProperties
    <3>3. /\ sent'[p] = Tail(sent[p]) /\ sent'[q] = sent[q] /\ callbacks'[p] = callbacks[p]
          /\ doing'[q] = doing[q] + 1 /\ doing'[p] = doing[p]
      BY <1>1, <1>2, <1>6, <2>2, <3>1, <3>2 DEF ManagerTyped
    <3>4. Len(sent'[p]) + doing'[q] + Len(sent'[q]) = Len(sent[p]) + doing[q] + Len(sent[q])
      BY <2>1, <3>2, <3>3
    <3> QED BY <2>1, <3>2, <3>3, <3>4 DEF OneUnderWay
  <2>3. CASE r = p
    <3>1. s = q
      BY <1>0, <1>6, <2>3
    <3>2. Head(sent[q]) = "result" /\ Tail(sent[q]) \in Seq({"result"}) /\ Len(Tail(sent[q])) = Len(sent[q]) - 1 /\ Len(sent[q]) # 0
      BY <1>1, <2>1, <3>1, HeadTailProperties
    <3>3. /\ sent'[q] = Tail(sent[q]) /\ sent'[p] = sent[p] /\ callbacks'[p] = 0 /\ doing' = doing
      BY <1>1, <1>2, <1>6, <2>3, <3>1, <3>2 DEF ManagerTyped
    <3>4. Len(sent'[p]) + doing'[q] + Len(sent'[q]) = 0
      BY <2>1, <3>2, <3>3
    <3> QED BY <2>1, <3>2, <3>3, <3>4 DEF OneUnderWay
  <2> QED BY <1>0, <1>6, <2>2, <2>3
<1> QED BY <1>4, <1>5, <1>6 DEF ManagerInv

\* The action ends, and its result is sent.
LEMMA ManagerResult ==
  ASSUME MG!ManagerAssumption, ManagerInv, NEW r \in Side, MG!sendResult(r)
  PROVE  ManagerInv'
<1>1. /\ doing[r] > 0 /\ doing' = [doing EXCEPT ![r] = @ - 1] /\ sent' = [sent EXCEPT ![r] = Append(@, "result")]
      /\ callbacks' = callbacks /\ demands' = demands /\ answers' = answers
  BY DEF MG!sendResult
<1>2. ManagerTyped /\ \A p \in Side : answers[p] + callbacks[p] = demands[p]
  BY DEF ManagerInv
<1>3. /\ \A p \in Side : doing[p] \in Nat /\ sent[p] \in Seq({"action", "result"})
  BY <1>2 DEF ManagerTyped
<1>4. ManagerTyped'
  <2>1. sent' \in [Side -> Seq({"action", "result"})]
    <3>1. Append(sent[r], "result") \in Seq({"action", "result"})
      BY <1>3
    <3> QED BY <1>1, <1>2, <3>1 DEF ManagerTyped
  <2>2. doing' \in [Side -> Nat]
    <3>1. doing[r] - 1 \in Nat
      BY <1>1, <1>3
    <3> QED BY <1>1, <1>2, <3>1 DEF ManagerTyped
  <2> QED BY <1>1, <1>2, <2>1, <2>2 DEF ManagerTyped
<1>5. ASSUME NEW p \in Side, NEW q \in Side, p # q, p \notin Handlers, q \in Handlers PROVE OneUnderWay(p, q)'
  <2>1. OneUnderWay(p, q)
    BY <1>5 DEF ManagerInv
  <2>2. r = q
    <3>1. r # p
      BY <1>1, <2>1 DEF OneUnderWay
    <3> QED BY <1>5, <3>1, TwoSides
  <2>3. sent[q] \in Seq({"result"}) /\ Len(sent[p]) \in Nat /\ Len(sent[q]) \in Nat /\ doing[q] \in Nat
    BY <1>3, <2>1 DEF OneUnderWay
  <2>4. /\ sent'[q] = Append(sent[q], "result") /\ sent'[p] = sent[p] /\ doing'[q] = doing[q] - 1 /\ doing'[p] = doing[p]
    BY <1>1, <1>2, <1>5, <2>2 DEF ManagerTyped
  <2>5. Append(sent[q], "result") \in Seq({"result"}) /\ Len(Append(sent[q], "result")) = Len(sent[q]) + 1
    BY <2>3
  <2>6. Len(sent'[p]) + doing'[q] + Len(sent'[q]) = Len(sent[p]) + doing[q] + Len(sent[q])
    <3>1. Len(sent'[p]) = Len(sent[p]) /\ doing'[q] = doing[q] - 1 /\ Len(sent'[q]) = Len(sent[q]) + 1
      BY <2>4, <2>5
    <3>2. PICK x \in Nat, y \in Nat, z \in Nat : x = Len(sent[p]) /\ y = doing[q] /\ z = Len(sent[q])
      BY <2>3
    <3>3. x + (y - 1) + (z + 1) = x + y + z
      OBVIOUS
    <3> QED BY <3>1, <3>2, <3>3
  <2> QED BY <1>1, <2>1, <2>4, <2>5, <2>6 DEF OneUnderWay
<1> QED BY <1>1, <1>2, <1>4, <1>5 DEF ManagerInv

\* Every step of the channel.
LEMMA ManagerStep == ASSUME MG!ManagerAssumption, ManagerInv, [MG!Next]_(MG!vars) PROVE ManagerInv'
<1>1. CASE MG!Next
  BY <1>1, ManagerDemand, ManagerMessage, ManagerResult DEF MG!Next
<1>2. CASE UNCHANGED MG!vars
  BY <1>2 DEF MG!vars, ManagerInv, ManagerTyped, OneUnderWay
<1> QED BY <1>1, <1>2

\* As many of a kind as there are, when there is no other.
LEMMA OneKind ==
  ASSUME NEW label, NEW s \in Seq({label})
  PROVE  MG!Count(s, label) = Len(s)
<1> DEFINE n == Len(s)
           Is(f) == f = [i \in 0..n |-> IF i = 0 THEN 0 ELSE f[i - 1] + IF s[i] = label THEN 1 ELSE 0]
           g == CHOOSE f : Is(f)
           w == [i \in 0..n |-> i]
<1>1. n \in Nat /\ n \in 0..n /\ \A i \in 1..n : s[i] = label
  BY ElementOfSeq
<1>2. Is(w)
  <2>1. ASSUME NEW i \in 0..n PROVE w[i] = IF i = 0 THEN 0 ELSE w[i - 1] + IF s[i] = label THEN 1 ELSE 0
    <3>1. i = 0 \/ (i \in 1..n /\ i - 1 \in 0..n)
      BY <1>1
    <3> QED BY <1>1, <3>1
  <2> QED BY <2>1
<1>3. Is(g)
  BY <1>2
<1>4. MG!Count(s, label) = g[n]
  BY DEF MG!Count
<1> HIDE DEF g, w
<1>5. g[0] = 0 /\ \A i \in 1..n : g[i] = g[i - 1] + 1
  <2>1. \A i \in 0..n : g[i] = IF i = 0 THEN 0 ELSE g[i - 1] + IF s[i] = label THEN 1 ELSE 0
    BY <1>3
  <2> QED BY <1>1, <2>1
<1> DEFINE bad == {i \in 0..n : g[i] # i}
<1>6. bad = {}
  <2> SUFFICES ASSUME bad # {} PROVE FALSE
    OBVIOUS
  <2>1. bad \in SUBSET Nat
    BY <1>1
  <2>2. PICK k \in bad : \A y \in bad : k <= y
    <3> HIDE DEF bad
    <3> QED BY <2>1, LeastNat
  <2>3. k \in 1..n /\ k - 1 \in 0..n /\ ~(k <= k - 1) /\ g[k] # k
    BY <1>1, <1>5
  <2>4. g[k - 1] = k - 1
    BY <2>2, <2>3
  <2> QED BY <1>5, <2>3, <2>4
<1> QED BY <1>1, <1>4, <1>6

\* What it means for those who wait.
LEMMA ManagerKeeps == ASSUME MG!ManagerAssumption, ManagerInv PROVE MG!OneAsked
<1> SUFFICES ASSUME NEW p \in Side \ Handlers
             PROVE  /\ MG!Other(p) \in Handlers => MG!UnderWay(p) = IF callbacks[p] > 0 THEN 1 ELSE 0
                    /\ answers[p] + callbacks[p] = demands[p]
  BY DEF MG!OneAsked
<1>1. ASSUME MG!Other(p) \in Handlers PROVE MG!UnderWay(p) = IF callbacks[p] > 0 THEN 1 ELSE 0
  <2>1. OneUnderWay(p, MG!Other(p))
    BY <1>1, TwoSides DEF ManagerInv
  <2>2. /\ MG!Count(sent[p], "action") = Len(sent[p])
        /\ MG!Count(sent[MG!Other(p)], "result") = Len(sent[MG!Other(p)])
    BY <2>1, OneKind DEF OneUnderWay
  <2> QED BY <2>1, <2>2 DEF MG!UnderWay, OneUnderWay
<1> QED BY <1>1 DEF ManagerInv

\* Undo and redo lead back and forth over what the user did, and what he asked
\* is not left behind, unless both were mixed; and while a process waits for the
\* other one, one demand or result is under way (tree.demon.js, tree.memory.js,
\* memory.js; manager.js of the old server).
THEOREM CallsAreAnswered == ControlSpec => []CallsAnswered
<1> DEFINE Inv == DemonInv /\ ManagerInv
<1>1. ControlInit => Inv
  BY ControlAssumption, DemonStart, ManagerStart DEF ControlInit
<1>2. Inv /\ [ControlNext]_controlVars => Inv'
  <2> SUFFICES ASSUME Inv, [ControlNext]_controlVars PROVE Inv'
    OBVIOUS
  <2>1. [DE!Next]_(DE!vars)
    BY DEF ControlNext, DemonNext, ManagerNext, MenuNext, TreeMenuNext, controlVars, demonVars, DE!vars
  <2>2. [MG!Next]_(MG!vars)
    BY DEF ControlNext, DemonNext, ManagerNext, MenuNext, TreeMenuNext, controlVars, managerVars, MG!vars
  <2> QED
    BY <2>1, <2>2, ControlAssumption, DemonStep, ManagerStep
<1>3. Inv => CallsAnswered
  BY ControlAssumption, DemonKeeps, ManagerKeeps DEF CallsAnswered
<1> QED
  BY <1>1, <1>2, <1>3, PTL DEF ControlSpec

-----------------------------------------------------------------------------
(* The options of a menu: every one is once in one list.                   *)

\* The lists, and those that have one.
MenuList == MenuOption \cup {MenuRoot}
MenuGroup == {n \in MenuOption : MenuOptions[n] # << >>}

LEMMA MenuLists ==
  ASSUME NEW p \in MenuList
  PROVE  /\ MenuOptions[p] \in Seq(MenuOption)
         /\ Len(MenuOptions[p]) \in Nat /\ DOMAIN MenuOptions[p] = 1..Len(MenuOptions[p])
         /\ \A i \in DOMAIN MenuOptions[p] : MenuOptions[p][i] \in MenuOption
<1>1. MenuOptions[p] \in Seq(MenuOption)
  BY ControlAssumption DEF MN!MenuAssumption, MenuList
<1> QED
  BY <1>1, LenProperties

\* The list an option is in.
LEMMA MenuAbove ==
  ASSUME NEW n \in MenuOption
  PROVE  /\ MN!Above(n) \in MenuList
         /\ \E i \in DOMAIN MenuOptions[MN!Above(n)] : MenuOptions[MN!Above(n)][i] = n
<1>1. \E p \in MenuOption \cup {MenuRoot} : MN!Contains(MenuOptions[p], n)
  BY ControlAssumption DEF MN!MenuAssumption
<1>2. MN!Above(n) \in MenuOption \cup {MenuRoot} /\ MN!Contains(MenuOptions[MN!Above(n)], n)
  BY <1>1 DEF MN!Above
<1>3. MN!Above(n) \in MenuList
  BY <1>2 DEF MenuList
<1> HIDE DEF MenuList
<1> QED
  BY <1>2, <1>3, MenuLists DEF MN!Contains

LEMMA MenuAboveIs ==
  ASSUME NEW p \in MenuList, NEW i \in DOMAIN MenuOptions[p]
  PROVE  MenuOptions[p][i] \in MenuOption /\ MN!Above(MenuOptions[p][i]) = p
<1> DEFINE n == MenuOptions[p][i]  q == MN!Above(n)
<1>1. n \in MenuOption
  BY MenuLists
<1>2. PICK j \in DOMAIN MenuOptions[q] : MenuOptions[q][j] = n
  BY <1>1, MenuAbove
<1>3. q \in MenuList
  BY <1>1, MenuAbove
<1> HIDE DEF q
<1>4. p = q
  BY <1>2, <1>3, ControlAssumption DEF MN!MenuAssumption, MenuList
<1> QED
  BY <1>1, <1>4 DEF q

\* The options beside one are the others below the same one.
LEMMA MenuBeside ==
  ASSUME NEW n \in MenuOption
  PROVE  MN!Beside(n) = {o \in MenuOption : o # n /\ MN!Above(o) = MN!Above(n)}
<1> DEFINE p == MN!Above(n)
<1>1. p \in MenuList
  BY MenuAbove
<1>2. MN!Beside(n) = {MenuOptions[p][i] : i \in DOMAIN MenuOptions[p]} \ {n}
  BY DEF MN!Beside, MN!ToSet
<1>3. ASSUME NEW o \in MN!Beside(n) PROVE o \in MenuOption /\ o # n /\ MN!Above(o) = p
  <2> HIDE DEF p
  <2> QED
    BY <1>1, <1>2, <1>3, MenuAboveIs
<1>4. ASSUME NEW o \in MenuOption, o # n, MN!Above(o) = p PROVE o \in MN!Beside(n)
  <2>1. \E i \in DOMAIN MenuOptions[p] : MenuOptions[p][i] = o
    BY <1>4, MenuAbove
  <2> HIDE DEF p
  <2> QED
    BY <1>2, <1>4, <2>1
<1> QED
  BY <1>3, <1>4

\* There are two levels: a group is below the root.
LEMMA MenuTwoLevels ==
  ASSUME NEW n \in MenuGroup
  PROVE  n \in MenuOption /\ MN!Group(n) /\ MN!Above(n) = MenuRoot
<1>1. n \in MenuOption /\ MenuOptions[n] # << >>
  BY DEF MenuGroup
<1>2. PICK i \in DOMAIN MenuOptions[MN!Above(n)] : MenuOptions[MN!Above(n)][i] = n
  BY <1>1, MenuAbove
<1>3. MN!Above(n) \in MenuOption \cup {MenuRoot}
  BY <1>1, MenuAbove DEF MenuList
<1>4. MN!Above(n) \notin MenuOption
  BY <1>1, <1>2, ControlAssumption DEF MN!MenuAssumption
<1> QED
  BY <1>1, <1>3, <1>4 DEF MN!Group

\* A radio among the rivals of another one: each is among those of the other.
LEMMA MenuRivals ==
  ASSUME NEW n \in MenuOption, NEW o \in MN!Rivals(n)
  PROVE  o \in MenuOption /\ o # n /\ n \in Radio /\ o \in Radio /\ n \in MN!Rivals(o)
<1> DEFINE p == MN!Above(n)
           list == MenuOptions[p]
           at(x) == CHOOSE k \in DOMAIN list : list[k] = x
           Joined(j, k) == \A l \in j..k : list[l] \in Radio /\ (l < k => list[l] \notin Sep)
           Near(i) == {k \in DOMAIN list \ {i} : IF k < i THEN Joined(k, i) ELSE Joined(i, k)}
<1>1. p \in MenuList
  BY MenuAbove
<1>2. DOMAIN list = 1..Len(list) /\ Len(list) \in Nat
  BY <1>1, MenuLists
<1>3. \A i \in DOMAIN list : list[i] \in MenuOption /\ MN!Above(list[i]) = p
  BY <1>1, MenuAboveIs
<1>4. \A i, j \in DOMAIN list : list[i] = list[j] => i = j
  BY <1>1, ControlAssumption DEF MN!MenuAssumption, MenuList
<1>5. at(n) \in DOMAIN list /\ list[at(n)] = n
  BY MenuAbove
<1>6. MN!Rivals(n) = {list[j] : j \in Near(at(n))}
  BY DEF MN!Rivals
<1>7. PICK j \in Near(at(n)) : o = list[j]
  BY <1>6
<1>8. MN!Above(o) = p
  BY <1>3, <1>7
<1>9. MN!Rivals(o) = {list[k] : k \in Near(at(o))}
  BY <1>8 DEF MN!Rivals
<1>10. at(o) = j
  <2>1. j \in DOMAIN list
    BY <1>7
  <2>2. at(o) \in DOMAIN list /\ list[at(o)] = o
    BY <1>7, <2>1
  <2> QED
    BY <1>4, <1>7, <2>1, <2>2
<1> DEFINE i == at(n)
<1>11. i \in DOMAIN list /\ list[i] = n /\ j \in DOMAIN list /\ i # j
  BY <1>5, <1>7
<1>12. IF j < i THEN Joined(j, i) ELSE Joined(i, j)
  BY <1>7
<1> HIDE DEF i, p
<1>13. i \in Int /\ j \in Int
  BY <1>2, <1>11
<1>14. n \in Radio /\ o \in Radio
  BY <1>7, <1>11, <1>12, <1>13
<1>15. i \in Near(j)
  BY <1>11, <1>12, <1>13
<1>16. n \in MN!Rivals(o)
  BY <1>9, <1>10, <1>11, <1>15
<1> QED
  BY <1>3, <1>4, <1>7, <1>11, <1>14, <1>16

-----------------------------------------------------------------------------
(* The menu of the new views: each operation keeps it in order.            *)

MenuTimer == [action : {"none", "expand", "contract"}, node : MenuOption \cup {NoOption}, armed : BOOLEAN]

MenuShape ==
  [opened : BOOLEAN, watched : BOOLEAN, target : BOOLEAN, expandNode : MenuList,
   lighted : SUBSET MenuOption, expanded : SUBSET MenuGroup, actived : SUBSET MenuOption, timer : MenuTimer]

\* No two options that can be chosen are radios of one set.
MenuChosen(w) ==
  \A n \in w.actived \cap Radio : MN!isActivable(n) =>
    \A o \in MN!Rivals(n) \cap w.actived : ~MN!isActivable(o)

\* What holds within an operation as well: an armed timer is about a group.
MenuFit(w) ==
  /\ w \in MenuShape
  /\ w.timer.armed => w.timer.node \in MenuGroup
  /\ w.expandNode \in w.expanded \cup {MenuRoot}
  /\ \A n, o \in w.expanded : n = o
  /\ MenuChosen(w)

\* One option is lit at each level.
MenuLit(w) == \A n, o \in w.lighted : MN!Above(n) = MN!Above(o) => n = o

LEMMA MenuTimeoutFit ==
  ASSUME NEW w, MenuFit(w), NEW n \in MenuGroup, NEW action \in {"expand", "contract"}
  PROVE  /\ MenuFit(MN!setTimeout(w, n, action))
         /\ MN!setTimeout(w, n, action).lighted = w.lighted
<1> DEFINE t == [action |-> action, node |-> n, armed |-> TRUE]
           r == [w EXCEPT !.timer = t]
<1>1. n \in MenuOption
  BY DEF MenuGroup
<1>2. t \in MenuTimer
  BY <1>1 DEF MenuTimer
<1>3. w \in MenuShape
  BY DEF MenuFit
<1> HIDE DEF t
<1>4. r \in MenuShape /\ r.timer = t /\ r.lighted = w.lighted /\ r.expanded = w.expanded
      /\ r.expandNode = w.expandNode /\ r.actived = w.actived
  BY <1>2, <1>3 DEF MenuShape
<1>5. t.node = n
  BY DEF t
<1> HIDE DEF r
<1>6. MenuFit(r)
  BY <1>4, <1>5 DEF MenuFit, MenuChosen
<1> QED
  BY <1>4, <1>6 DEF MN!setTimeout, r, t

\* A level is unlit.
LEMMA MenuUnlightFit ==
  ASSUME NEW w, MenuFit(w), NEW level
  PROVE  MenuFit(MN!unlight(w, level)) /\ MN!unlight(w, level).lighted = w.lighted \ level
<1> DEFINE dark == [w EXCEPT !.lighted = @ \ level]
           groups == {o \in level \cap w.lighted : MN!Group(o)}
<1>1. w \in MenuShape
  BY DEF MenuFit
<1>2. dark \in MenuShape /\ dark.lighted = w.lighted \ level /\ dark.timer = w.timer /\ dark.expanded = w.expanded
      /\ dark.expandNode = w.expandNode /\ dark.actived = w.actived
  BY <1>1 DEF MenuShape
<1>3. MenuFit(dark)
  <2> HIDE DEF dark
  <2> QED
    BY <1>2 DEF MenuFit, MenuChosen
<1>4. groups \subseteq MenuGroup
  BY <1>1 DEF MenuShape, MenuGroup, MN!Group
<1>5. MN!unlight(w, level) = IF groups = {} THEN dark ELSE MN!setTimeout(dark, CHOOSE o \in groups : TRUE, "contract")
  BY DEF MN!unlight
<1> HIDE DEF dark, groups
<1>6. CASE groups = {}
  BY <1>2, <1>3, <1>5, <1>6
<1>7. CASE groups # {}
  <2>1. (CHOOSE o \in groups : TRUE) \in MenuGroup
    BY <1>4, <1>7
  <2> DEFINE o == CHOOSE o \in groups : TRUE
  <2> HIDE DEF o
  <2>2. MenuFit(MN!setTimeout(dark, o, "contract")) /\ MN!setTimeout(dark, o, "contract").lighted = dark.lighted
    BY <1>3, <2>1, MenuTimeoutFit DEF o
  <2> QED
    BY <1>2, <1>5, <1>7, <2>2 DEF o
<1> QED
  BY <1>6, <1>7

\* One option is lit, and those beside it are not.
LEMMA MenuLitAlone ==
  ASSUME NEW w, MenuFit(w), MenuLit(w), NEW n \in MenuOption,
         NEW r, r = MN!unlight([w EXCEPT !.lighted = @ \cup {n}], MN!Beside(n))
  PROVE  MenuFit(r) /\ MenuLit(r)
<1> DEFINE on == [w EXCEPT !.lighted = @ \cup {n}]
<1>1. w \in MenuShape
  BY DEF MenuFit
<1>2. on \in MenuShape /\ on.lighted = w.lighted \cup {n} /\ on.timer = w.timer /\ on.expanded = w.expanded
      /\ on.expandNode = w.expandNode /\ on.actived = w.actived
  BY <1>1 DEF MenuShape
<1> HIDE DEF on
<1>3. MenuFit(on)
  BY <1>2 DEF MenuFit, MenuChosen
<1>4. MenuFit(r) /\ r.lighted = (w.lighted \cup {n}) \ MN!Beside(n)
  <2>1. r = MN!unlight(on, MN!Beside(n))
    BY DEF on
  <2>2. MenuFit(MN!unlight(on, MN!Beside(n)))
        /\ MN!unlight(on, MN!Beside(n)).lighted = on.lighted \ MN!Beside(n)
    BY <1>3, MenuUnlightFit
  <2> QED
    BY <1>2, <2>1, <2>2
<1>5. w.lighted \subseteq MenuOption
  BY <1>1 DEF MenuShape
<1>6. MenuLit(r)
  <2>1. MN!Beside(n) = {o \in MenuOption : o # n /\ MN!Above(o) = MN!Above(n)}
    BY MenuBeside
  <2> QED
    BY <1>4, <1>5, <2>1 DEF MenuLit
<1> QED
  BY <1>4, <1>6

LEMMA MenuLightFit ==
  ASSUME NEW w, MenuFit(w), MenuLit(w), NEW n \in MenuOption
  PROVE  MenuFit(MN!light(w, n)) /\ MenuLit(MN!light(w, n))
<1> DEFINE Lit(v, o) == IF o \in v.lighted THEN v ELSE MN!unlight([v EXCEPT !.lighted = @ \cup {o}], MN!Beside(o))
           p == MN!Above(n)
<1>1. ASSUME NEW v, MenuFit(v), MenuLit(v), NEW o \in MenuOption PROVE MenuFit(Lit(v, o)) /\ MenuLit(Lit(v, o))
  BY <1>1, MenuLitAlone
<1>2. MN!light(w, n) =
        IF n \in w.lighted THEN w ELSE IF p = MenuRoot THEN Lit(w, n) ELSE MN!clearTimeout(Lit(Lit(w, n), p))
  BY DEF MN!light
<1>3. p \in MenuOption \cup {MenuRoot}
  BY MenuAbove DEF MenuList
<1> HIDE DEF Lit, p
<1>4. ASSUME NEW v, MenuFit(v), MenuLit(v) PROVE MenuFit(MN!clearTimeout(v)) /\ MenuLit(MN!clearTimeout(v))
  <2> DEFINE r == [v EXCEPT !.timer = MN!Quiet]
  <2>1. MN!Quiet \in MenuTimer /\ ~MN!Quiet.armed
    BY DEF MN!Quiet, MenuTimer
  <2>2. v \in MenuShape
    BY <1>4 DEF MenuFit
  <2>3. r \in MenuShape /\ r.timer = MN!Quiet /\ r.lighted = v.lighted /\ r.expanded = v.expanded
        /\ r.expandNode = v.expandNode /\ r.actived = v.actived
    BY <2>1, <2>2 DEF MenuShape
  <2> HIDE DEF r
  <2>4. MenuFit(r) /\ MenuLit(r)
    BY <1>4, <2>1, <2>3 DEF MenuFit, MenuChosen, MenuLit
  <2> QED
    BY <2>4 DEF MN!clearTimeout, r
<1> QED
  BY <1>1, <1>2, <1>3, <1>4

\* A group is contracted.
LEMMA MenuContractFit ==
  ASSUME NEW w, MenuFit(w), MenuLit(w), NEW n \in MenuGroup
  PROVE  MenuFit(MN!contract(w, n)) /\ MenuLit(MN!contract(w, n))
<1> DEFINE r == [w EXCEPT !.expanded = @ \ {n}, !.expandNode = MN!Above(n)]
<1>1. w \in MenuShape
  BY DEF MenuFit
<1>2. MN!Above(n) = MenuRoot
  BY MenuTwoLevels
<1>3. r \in MenuShape /\ r.timer = w.timer /\ r.lighted = w.lighted /\ r.expanded = w.expanded \ {n}
      /\ r.expandNode = MenuRoot /\ r.actived = w.actived
  BY <1>1, <1>2 DEF MenuShape, MenuList
<1> HIDE DEF r
<1>4. MenuFit(r) /\ MenuLit(r)
  BY <1>3 DEF MenuFit, MenuChosen, MenuLit
<1> QED
  BY <1>4 DEF MN!contract, r

\* A group is expanded, and the one that was no longer is.
LEMMA MenuExpandFit ==
  ASSUME NEW w, MenuFit(w), MenuLit(w), NEW n \in MenuGroup
  PROVE  MenuFit(MN!expand(w, n)) /\ MenuLit(MN!expand(w, n))
<1> DEFINE on == [w EXCEPT !.expanded = @ \cup {n}]
           alone == MN!contractBeside(on, n)
           r == [alone EXCEPT !.expandNode = n]
<1>1. w \in MenuShape /\ \A o, q \in w.expanded : o = q
  BY DEF MenuFit
<1>2. n \in MenuOption /\ n \in MenuList
  BY DEF MenuGroup, MenuList
<1>3. on \in MenuShape /\ on.timer = w.timer /\ on.lighted = w.lighted /\ on.expanded = w.expanded \cup {n}
      /\ on.expandNode = w.expandNode /\ on.actived = w.actived
  BY <1>1 DEF MenuShape
<1>4. MN!Above(n) \in MenuList
  BY <1>2, MenuAbove
<1> HIDE DEF on
<1>5. alone \in MenuShape /\ alone.timer = w.timer /\ alone.lighted = w.lighted
      /\ alone.expanded = (w.expanded \cup {n}) \ MN!Beside(n) /\ alone.actived = w.actived
  <2>1. CASE MN!Beside(n) \cap on.expanded = {}
    <3>1. alone = on
      BY <2>1 DEF MN!contractBeside
    <3> QED
      BY <1>3, <2>1, <3>1
  <2>2. CASE MN!Beside(n) \cap on.expanded # {}
    <3> DEFINE v == [on EXCEPT !.expanded = @ \ MN!Beside(n), !.expandNode = MN!Above(n)]
    <3>1. alone = v
      BY <2>2 DEF MN!contractBeside
    <3>2. v \in MenuShape /\ v.timer = on.timer /\ v.lighted = on.lighted
          /\ v.expanded = on.expanded \ MN!Beside(n) /\ v.actived = on.actived
      BY <1>3, <1>4 DEF MenuShape
    <3> HIDE DEF v
    <3> QED
      BY <1>3, <3>1, <3>2
  <2> QED
    BY <2>1, <2>2
<1> HIDE DEF alone
<1>6. r \in MenuShape /\ r.timer = w.timer /\ r.lighted = w.lighted
      /\ r.expanded = (w.expanded \cup {n}) \ MN!Beside(n) /\ r.actived = w.actived /\ r.expandNode = n
  BY <1>2, <1>5 DEF MenuShape
<1> HIDE DEF r
<1>7. r.expanded = {n}
  <2>1. MN!Beside(n) = {o \in MenuOption : o # n /\ MN!Above(o) = MN!Above(n)}
    BY <1>2, MenuBeside
  <2>2. \A o \in w.expanded : o \in MenuOption /\ MN!Above(o) = MN!Above(n)
    BY <1>1, MenuTwoLevels DEF MenuShape
  <2> QED
    BY <1>6, <2>1, <2>2
<1>8. MenuFit(r) /\ MenuLit(r)
  BY <1>6, <1>7 DEF MenuFit, MenuChosen, MenuLit
<1>9. MN!expand(w, n) = IF n \in w.expanded THEN w ELSE r
  BY DEF MN!expand, MN!resetAll, on, alone, r
<1> QED
  BY <1>8, <1>9

LEMMA MenuCloseFit ==
  ASSUME NEW w, MenuFit(w), MenuLit(w)
  PROVE  MenuFit(MN!close(w)) /\ MenuLit(MN!close(w))
<1> DEFINE r == [w EXCEPT !.opened = FALSE, !.watched = FALSE]
<1>1. w \in MenuShape
  BY DEF MenuFit
<1>2. r \in MenuShape /\ r.timer = w.timer /\ r.lighted = w.lighted /\ r.expanded = w.expanded
      /\ r.expandNode = w.expandNode /\ r.actived = w.actived
  BY <1>1 DEF MenuShape
<1> HIDE DEF r
<1>3. MenuFit(r) /\ MenuLit(r)
  BY <1>2 DEF MenuFit, MenuChosen, MenuLit
<1> QED
  BY <1>3 DEF MN!close, r

\* What changes is what is actived.
LEMMA MenuActivedFit ==
  ASSUME NEW w, MenuFit(w), MenuLit(w), NEW A \in SUBSET MenuOption,
         NEW r, r = [w EXCEPT !.actived = A], MenuChosen(r)
  PROVE  MenuFit(r) /\ MenuLit(r)
<1>1. w \in MenuShape
  BY DEF MenuFit
<1>2. r \in MenuShape /\ r.timer = w.timer /\ r.lighted = w.lighted /\ r.expanded = w.expanded
      /\ r.expandNode = w.expandNode
  BY <1>1 DEF MenuShape
<1> QED
  BY <1>2 DEF MenuFit, MenuLit

\* An option is actived: of the radios of a set, the last one.
LEMMA MenuActiveFit ==
  ASSUME NEW w, MenuFit(w), MenuLit(w), NEW n \in MenuOption
  PROVE  MenuFit(MN!active(w, n)) /\ MenuLit(MN!active(w, n))
<1> DEFINE on == [w EXCEPT !.actived = @ \cup {n}]
           only == [on EXCEPT !.actived = @ \ MN!Rivals(n)]
<1>1. w \in MenuShape /\ MenuChosen(w)
  BY DEF MenuFit
<1>2. w.actived \in SUBSET MenuOption
  BY <1>1 DEF MenuShape
<1>3. on = [w EXCEPT !.actived = w.actived \cup {n}] /\ on.actived = w.actived \cup {n}
  BY <1>1 DEF MenuShape
<1>4. only = [w EXCEPT !.actived = (w.actived \cup {n}) \ MN!Rivals(n)]
      /\ only.actived = (w.actived \cup {n}) \ MN!Rivals(n)
  BY <1>1 DEF MenuShape
<1> HIDE DEF on, only
<1>5. CASE n \notin Radio \/ ~MN!isActivable(n)
  <2>1. MenuChosen(on)
    <3>1. ASSUME NEW a \in on.actived \cap Radio, MN!isActivable(a), NEW o \in MN!Rivals(a) \cap on.actived,
                 MN!isActivable(o)
          PROVE  FALSE
      <4>1. a \in MenuOption /\ o \in Radio
        BY <1>2, <1>3, <3>1, MenuRivals
      <4>2. a # n /\ o # n
        BY <1>5, <3>1, <4>1
      <4> QED
        BY <1>1, <1>3, <3>1, <4>2 DEF MenuChosen
    <3> QED
      BY <3>1 DEF MenuChosen
  <2>2. MenuFit(on) /\ MenuLit(on)
    BY <1>2, <1>3, <2>1, MenuActivedFit
  <2>3. MenuFit(MN!close(on)) /\ MenuLit(MN!close(on))
    BY <2>2, MenuCloseFit
  <2>4. MN!active(w, n) \in {w, on, MN!close(on)}
    BY <1>5 DEF MN!active, on
  <2> QED
    BY <2>2, <2>3, <2>4
<1>6. CASE n \in Radio /\ MN!isActivable(n)
  <2>1. n \notin Checkbox
    BY <1>6, ControlAssumption DEF MN!MenuAssumption
  <2>2. MenuChosen(only)
    <3>1. ASSUME NEW a \in only.actived \cap Radio, MN!isActivable(a), NEW o \in MN!Rivals(a) \cap only.actived,
                 MN!isActivable(o)
          PROVE  FALSE
      <4>1. a \in MenuOption /\ a \in MN!Rivals(o)
        BY <1>2, <1>4, <3>1, MenuRivals
      <4>2. a # n /\ o # n
        BY <1>4, <3>1, <4>1
      <4> QED
        BY <1>1, <1>4, <3>1, <4>2 DEF MenuChosen
    <3> QED
      BY <3>1 DEF MenuChosen
  <2>3. MenuFit(only) /\ MenuLit(only)
    BY <1>2, <1>4, <2>2, MenuActivedFit
  <2>4. MenuFit(MN!close(only)) /\ MenuLit(MN!close(only))
    BY <2>3, MenuCloseFit
  <2>5. MN!active(w, n) \in {w, MN!close(only)}
    BY <1>6, <2>1 DEF MN!active, MN!unactive, on, only
  <2> QED
    BY <2>4, <2>5
<1> QED
  BY <1>5, <1>6

\* The first option that can be is actived.
LEMMA MenuActiveFirstFit ==
  ASSUME NEW w, MenuFit(w), MenuLit(w)
  PROVE  MenuFit(MN!activeFirst(w)) /\ MenuLit(MN!activeFirst(w))
<1> DEFINE list == MenuOptions[MenuRoot]
           good == {i \in DOMAIN list : MN!isActivable(list[i])}
           at == CHOOSE i \in good : \A j \in good : i <= j
<1>1. MN!activeFirst(w) = IF good = {} THEN w ELSE MN!active(w, list[at])
  BY DEF MN!activeFirst
<1>2. DOMAIN list \in SUBSET Nat /\ \A i \in DOMAIN list : list[i] \in MenuOption
  BY MenuLists DEF MenuList
<1>3. CASE good = {}
  BY <1>1, <1>3
<1>4. CASE good # {}
  <2>1. good \in SUBSET Nat
    BY <1>2
  <2>2. \E i \in good : \A j \in good : i <= j
    <3> HIDE DEF good
    <3> QED
      BY <1>4, <2>1, LeastNat
  <2>3. at \in DOMAIN list
    BY <2>2
  <2>4. list[at] \in MenuOption
    BY <1>2, <2>3
  <2> DEFINE n == list[at]
  <2> HIDE DEF n
  <2>5. MenuFit(MN!active(w, n)) /\ MenuLit(MN!active(w, n))
    BY <2>4, MenuActiveFit DEF n
  <2> QED
    BY <1>1, <1>4, <2>5 DEF n
<1> QED
  BY <1>3, <1>4

\* The target is the one of the event, and the menu opens on it.
LEMMA MenuOpenFit ==
  ASSUME NEW w, MenuFit(w), MenuLit(w), NEW input \in BOOLEAN
  PROVE  /\ MenuFit(MN!updateTarget(w, input)) /\ MenuLit(MN!updateTarget(w, input))
         /\ MenuFit(MN!open(w, input)) /\ MenuLit(MN!open(w, input))
<1> DEFINE v == [w EXCEPT !.target = ~input]
           r == [v EXCEPT !.watched = TRUE, !.opened = TRUE]
<1>1. w \in MenuShape
  BY DEF MenuFit
<1>2. v \in MenuShape /\ v.timer = w.timer /\ v.lighted = w.lighted /\ v.expanded = w.expanded
      /\ v.expandNode = w.expandNode /\ v.actived = w.actived
  BY <1>1 DEF MenuShape
<1> HIDE DEF v
<1>3. r \in MenuShape /\ r.timer = w.timer /\ r.lighted = w.lighted /\ r.expanded = w.expanded
      /\ r.expandNode = w.expandNode /\ r.actived = w.actived
  BY <1>2 DEF MenuShape
<1> HIDE DEF r
<1>4. MenuFit(v) /\ MenuLit(v) /\ MenuFit(r) /\ MenuLit(r)
  BY <1>2, <1>3 DEF MenuFit, MenuChosen, MenuLit
<1>5. MN!updateTarget(w, input) = v
  BY DEF MN!updateTarget, v
<1>6. MN!open(w, input) \in {w, v, r}
  BY <1>5 DEF MN!open, MN!resetAll, r
<1> QED
  BY <1>4, <1>5, <1>6

\* Each step but those of the elements is one of these operations.
MenuKept == MenuFit(menu) /\ MenuLit(menu)

\* The shortcuts that are set are those of options that are there.
ShortcutsKept ==
  /\ shortcut \in [MN!Keys -> MenuOption \cup {NoOption}]
  /\ inserted \subseteq MenuOption
  /\ MN!ShortcutsThere

LEMMA MenuOneOfEach ==
  ASSUME MenuKept
  PROVE  MN!OneOfEach
<1>1. menu \in MenuShape
  BY DEF MenuKept, MenuFit
<1>2. menu.lighted \subseteq MenuOption /\ menu.expanded \subseteq MenuOption
  BY <1>1 DEF MenuShape, MenuGroup
<1>3. ASSUME NEW n \in MenuOption PROVE MN!Beside(n) = {o \in MenuOption : o # n /\ MN!Above(o) = MN!Above(n)}
  BY MenuBeside
<1>4. \A n \in menu.lighted : MN!Beside(n) \cap menu.lighted = {}
  <2>1. ASSUME NEW n \in menu.lighted, NEW o \in MN!Beside(n) \cap menu.lighted PROVE FALSE
    <3>1. o # n /\ MN!Above(o) = MN!Above(n)
      BY <1>2, <1>3, <2>1
    <3> QED
      BY <2>1, <3>1 DEF MenuKept, MenuLit
  <2> QED
    BY <2>1
<1>5. \A n \in menu.expanded : MN!Beside(n) \cap menu.expanded = {}
  BY <1>2, <1>3 DEF MenuKept, MenuFit
<1> QED
  BY <1>4, <1>5 DEF MenuKept, MenuFit, MenuChosen, MN!OneOfEach

LEMMA MenuFirst ==
  ASSUME MN!Init
  PROVE  MenuKept /\ ShortcutsKept
<1>1. MN!Quiet \in MenuTimer /\ ~MN!Quiet.armed
  BY DEF MN!Quiet, MenuTimer
<1>2. menu \in MenuShape /\ menu.timer = MN!Quiet /\ menu.lighted = {} /\ menu.expanded = {} /\ menu.actived = {}
      /\ menu.expandNode = MenuRoot
  BY <1>1 DEF MN!Init, MenuShape, MenuList
<1>3. MenuKept
  BY <1>1, <1>2 DEF MenuKept, MenuFit, MenuLit, MenuChosen
<1>4. ShortcutsKept
  BY DEF MN!Init, ShortcutsKept, MN!ShortcutsThere
<1> QED
  BY <1>3, <1>4

\* An element comes and its key is set, or goes and its key is unset.
LEMMA ShortcutsStay ==
  ASSUME ShortcutsKept, NEW n \in MenuOption, MN!insertElement(n) \/ MN!removeElement(n)
  PROVE  ShortcutsKept'
<1>1. Shortcut[n] \in MN!Keys
  BY DEF MN!Keys, MN!insertElement, MN!removeElement
<1>2. CASE MN!insertElement(n)
  <2>1. shortcut' = [shortcut EXCEPT ![Shortcut[n]] = n] /\ inserted' = inserted \cup {n}
    BY <1>2 DEF MN!insertElement, MN!traceIn
  <2> QED
    BY <1>1, <2>1 DEF ShortcutsKept, MN!ShortcutsThere
<1>3. CASE MN!removeElement(n)
  <2>1. shortcut' = [shortcut EXCEPT ![Shortcut[n]] = NoOption] /\ inserted' = inserted \ {n}
    BY <1>3 DEF MN!removeElement, MN!traceOut
  <2> QED
    BY <1>1, <2>1 DEF ShortcutsKept, MN!ShortcutsThere
<1> QED
  BY <1>2, <1>3

LEMMA MenuStays ==
  ASSUME MenuKept, ShortcutsKept, MN!Next
  PROVE  MenuKept' /\ ShortcutsKept'
<1> DEFINE Well(r) == MenuFit(r) /\ MenuLit(r)
<1>1. Well(menu) /\ menu \in MenuShape
  BY DEF MenuKept, MenuFit
<1>2. ASSUME NEW r, MN!Does(r), Well(r) PROVE MenuKept' /\ ShortcutsKept'
  <2>1. MenuKept'
    BY <1>2 DEF MN!Does, MenuKept, MenuFit, MenuChosen, MenuLit, MN!isActivable, MN!Group, MN!Rivals, MN!Above
  <2>2. ShortcutsKept'
    BY <1>2 DEF MN!Does, ShortcutsKept, MN!ShortcutsThere, MN!Keys
  <2> QED
    BY <2>1, <2>2
<1>3. ASSUME NEW input \in BOOLEAN PROVE Well(MN!open(menu, input)) /\ Well(MN!updateTarget(menu, input))
  BY <1>1, MenuOpenFit
<1>4. ASSUME NEW n \in MenuOption PROVE Well(MN!active(menu, n))
  BY <1>1, MenuActiveFit
<1>5. ASSUME NEW n \in MenuOption PROVE MN!Group(n) <=> n \in MenuGroup
  BY DEF MN!Group, MenuGroup
<1>6. CASE \E input \in BOOLEAN : MN!contextmenu(input)
  BY <1>2, <1>3, <1>6 DEF MN!contextmenu
<1>7. CASE MN!dblclick
  BY <1>2, <1>3, <1>7, MenuActiveFirstFit DEF MN!dblclick
<1>8. CASE MN!blur
  BY <1>1, <1>2, <1>8, MenuCloseFit DEF MN!blur
<1>9. CASE MN!enter
  BY <1>1, <1>2, <1>9, MenuActiveFirstFit DEF MN!enter
<1>10. CASE MN!timeout
  <2> DEFINE t == menu.timer
             r == [menu EXCEPT !.timer.armed = FALSE]
  <2>1. t \in MenuTimer /\ t.armed /\ t.node \in MenuGroup
    BY <1>1, <1>10 DEF MN!timeout, MenuShape, MenuFit
  <2>2. r \in MenuShape /\ r.timer.armed = FALSE /\ r.lighted = menu.lighted /\ r.expanded = menu.expanded
        /\ r.expandNode = menu.expandNode /\ r.actived = menu.actived
    BY <1>1, <2>1 DEF MenuShape, MenuTimer
  <2>3. MN!Does(IF t.action = "expand" THEN MN!expand(r, t.node) ELSE MN!contract(r, t.node))
    BY <1>10 DEF MN!timeout
  <2> HIDE DEF r, t
  <2>4. Well(r)
    BY <1>1, <2>2 DEF MenuFit, MenuChosen, MenuLit
  <2>5. Well(MN!expand(r, t.node)) /\ Well(MN!contract(r, t.node))
    BY <2>1, <2>4, MenuExpandFit, MenuContractFit
  <2> QED
    BY <1>2, <2>3, <2>5
<1>11. CASE \E n \in MenuOption : MN!mousedown(n)
  BY <1>1, <1>2, <1>5, <1>11, MenuExpandFit DEF MN!mousedown
<1>12. CASE \E n \in MenuOption : MN!mousemove(n)
  <2>1. PICK n \in MenuOption : MN!mousemove(n)
    BY <1>12
  <2> DEFINE r == MN!light(menu, n)
  <2>2. Well(r)
    BY <1>1, MenuLightFit
  <2>3. MN!Does(IF MN!Group(n) THEN MN!setTimeout(r, n, "expand") ELSE r)
    BY <2>1 DEF MN!mousemove
  <2> HIDE DEF r
  <2>4. CASE n \in MenuGroup
    <3>1. MenuFit(MN!setTimeout(r, n, "expand")) /\ MN!setTimeout(r, n, "expand").lighted = r.lighted
      BY <2>2, <2>4, MenuTimeoutFit
    <3>2. Well(MN!setTimeout(r, n, "expand"))
      BY <2>2, <3>1 DEF MenuLit
    <3> QED
      BY <1>2, <1>5, <2>3, <2>4, <3>2
  <2>5. CASE n \notin MenuGroup
    BY <1>2, <1>5, <2>2, <2>3, <2>5
  <2> QED
    BY <2>4, <2>5
<1>13. CASE \E n \in MenuOption : MN!click(n)
  <2>1. PICK n \in MenuOption : MN!click(n)
    BY <1>13
  <2> DEFINE r == [menu EXCEPT !.actived = @ \ {n}]
  <2>2. Well(r)
    <3>1. menu.actived \in SUBSET MenuOption
      BY <1>1 DEF MenuShape
    <3>2. r = [menu EXCEPT !.actived = menu.actived \ {n}] /\ r.actived = menu.actived \ {n}
      BY <1>1 DEF MenuShape
    <3> HIDE DEF r
    <3>3. MenuChosen(r)
      BY <1>1, <3>2 DEF MenuFit, MenuChosen
    <3> QED
      BY <1>1, <3>1, <3>2, <3>3, MenuActivedFit
  <2>3. MN!Does(MN!activeNode(menu, n))
    BY <2>1 DEF MN!click
  <2>4. n \in MenuGroup => Well(MN!expand(menu, n))
    BY <1>1, MenuExpandFit
  <2>5. Well(MN!activeNode(menu, n))
    BY <1>4, <1>5, <2>2, <2>4 DEF MN!activeNode
  <2> QED
    BY <1>2, <2>3, <2>5
<1>14. CASE \E n \in MenuOption : MN!insertElement(n) \/ MN!removeElement(n)
  <2>1. ShortcutsKept'
    BY <1>14, ShortcutsStay
  <2>2. UNCHANGED menu
    BY <1>14 DEF MN!insertElement, MN!removeElement
  <2>3. MenuKept'
    BY <1>1, <2>2 DEF MenuKept, MenuFit, MenuChosen, MenuLit, MN!isActivable, MN!Group, MN!Rivals, MN!Above
  <2> QED
    BY <2>1, <2>3
<1>15. CASE \E n \in MenuOption \cup {NoOption} : MN!mouseout(n)
  <2>1. MN!Does(MN!unlight(menu, MN!ToSet(MenuOptions[menu.expandNode])))
    BY <1>15 DEF MN!mouseout
  <2> DEFINE level == MN!ToSet(MenuOptions[menu.expandNode])
             r == MN!unlight(menu, level)
  <2> HIDE DEF level
  <2>2. MenuFit(r) /\ r.lighted = menu.lighted \ level
    BY <1>1, MenuUnlightFit
  <2>3. Well(r)
    BY <1>1, <2>2 DEF MenuLit
  <2> QED
    BY <1>2, <2>1, <2>3 DEF level
<1>16. CASE \E k \in MN!Keys : MN!keydown(k)
  <2>1. PICK k \in MN!Keys : MN!keydown(k)
    BY <1>16
  <2>2. shortcut[k] \in MenuOption
    BY <2>1 DEF MN!keydown, ShortcutsKept
  <2> QED
    BY <1>2, <1>4, <2>1, <2>2 DEF MN!keydown
<1> QED
  BY <1>6, <1>7, <1>8, <1>9, <1>10, <1>11, <1>12, <1>13, <1>14, <1>15, <1>16 DEF MN!Next

LEMMA MenuStutters ==
  ASSUME MenuKept, ShortcutsKept, UNCHANGED <<menu, shortcut, inserted>>
  PROVE  MenuKept' /\ ShortcutsKept'
<1>1. MenuKept'
  BY DEF MenuKept, MenuFit, MenuChosen, MenuLit, MN!isActivable, MN!Group, MN!Rivals, MN!Above
<1>2. ShortcutsKept'
  BY DEF ShortcutsKept, MN!ShortcutsThere, MN!Keys
<1> QED
  BY <1>1, <1>2

-----------------------------------------------------------------------------
(* The menu of a tree: each operation keeps it in order.                   *)

TreeMenuShape ==
  [opened : BOOLEAN, shown : BOOLEAN, watched : BOOLEAN, target : Target \cup {NoOption},
   lit : SUBSET MenuOption, lighted : MenuOption \cup {NoOption}, focused : MenuList, expanded : SUBSET MenuOption,
   actived : SUBSET MenuOption, hidden : SUBSET MenuOption, disabled : SUBSET MenuOption, lent : SUBSET MenuOption,
   timer : [MenuOption -> {"none", "expand", "contract"}], nav : SUBSET MenuOption]

\* Of the radios between two separators, one is actived.
TreeMenuChosen(w) == \A n \in w.actived \cap Radio : CM!Rivals(w, n) \cap w.actived = {}

\* A separator is lent to the option before a hidden one that has it.
TreeMenuLent(w) ==
  \A o \in w.lent : \E p \in MenuList : \E i \in DOMAIN MenuOptions[p] :
    i + 1 \in DOMAIN MenuOptions[p] /\ MenuOptions[p][i] = o /\ MenuOptions[p][i + 1] \in w.hidden

\* What holds within an operation as well.
TreeMenuFit(w) ==
  /\ w \in TreeMenuShape
  /\ w.lit = {w.lighted} \ {NoOption}
  /\ \A n, o \in w.expanded : MN!Above(n) = MN!Above(o) => n = o
  /\ TreeMenuChosen(w)
  /\ TreeMenuLent(w)

\* The menu is shown and watched while it is open.
TreeMenuOpen(w) == w.shown = w.opened /\ w.watched = w.opened

\* What an operation does not open or close.
SameOpen(w, v) == w.opened = v.opened /\ w.shown = v.shown /\ w.watched = v.watched

\* The two menus are trees of the same kind.
LEMMA TreeMenuTree ==
  ASSUME NEW n
  PROVE  CM!Above(n) = MN!Above(n) /\ CM!Beside(n) = MN!Beside(n) /\ CM!Group(n) = MN!Group(n)
<1>1. CM!Above(n) = MN!Above(n)
  BY DEF CM!Above, MN!Above, CM!Contains, MN!Contains
<1> QED
  BY <1>1 DEF CM!Beside, MN!Beside, CM!Group, MN!Group, CM!ToSet, MN!ToSet

LEMMA TreeMenuNone == NoOption \notin MenuList
BY ControlAssumption DEF MN!MenuAssumption, MenuList

\* The fields that say nothing of what is in order.
LEMMA TreeMenuAlike ==
  ASSUME NEW w, TreeMenuFit(w), NEW r \in TreeMenuShape,
         r.lit = w.lit, r.lighted = w.lighted, r.expanded \subseteq w.expanded, r.actived = w.actived,
         r.lent = w.lent, w.hidden \subseteq r.hidden
  PROVE  TreeMenuFit(r)
<1>1. r.lit = {r.lighted} \ {NoOption} /\ \A n, o \in r.expanded : MN!Above(n) = MN!Above(o) => n = o
  BY DEF TreeMenuFit
<1>2. TreeMenuLent(r)
  BY DEF TreeMenuFit, TreeMenuLent
<1>3. ASSUME NEW n PROVE CM!Rivals(r, n) = CM!Rivals(w, n)
  BY DEF CM!Rivals, CM!HasSep
<1>4. TreeMenuChosen(r)
  BY <1>3 DEF TreeMenuFit, TreeMenuChosen
<1> QED
  BY <1>1, <1>2, <1>4 DEF TreeMenuFit

\* The options the arrows go through.
LEMMA NavListFit ==
  ASSUME NEW w, TreeMenuFit(w)
  PROVE  TreeMenuFit(CM!updateNavList(w)) /\ SameOpen(CM!updateNavList(w), w)
         /\ CM!updateNavList(w).expanded = w.expanded /\ CM!updateNavList(w).target = w.target
<1> DEFINE p == IF w.focused = MenuRoot \/ w.focused \in w.expanded THEN w.focused ELSE CM!Above(w.focused)
           q == IF p = MenuRoot \/ p \in w.expanded THEN p ELSE MenuRoot
           nav == CM!ToSet(MenuOptions[q]) \ w.hidden
           r == [w EXCEPT !.nav = nav]
<1>1. w \in TreeMenuShape
  BY DEF TreeMenuFit
<1>2. q \in MenuList
  BY <1>1 DEF TreeMenuShape, MenuList
<1>3. CM!updateNavList(w) = r
  BY DEF CM!updateNavList
<1> HIDE DEF q
<1>4. nav \in SUBSET MenuOption
  BY <1>2, MenuLists DEF CM!ToSet
<1> HIDE DEF nav
<1>5. /\ r \in TreeMenuShape /\ r.lit = w.lit /\ r.lighted = w.lighted /\ r.expanded = w.expanded
      /\ r.actived = w.actived /\ r.lent = w.lent /\ r.hidden = w.hidden
      /\ r.target = w.target /\ r.opened = w.opened /\ r.shown = w.shown /\ r.watched = w.watched
  BY <1>1, <1>4 DEF TreeMenuShape
<1> HIDE DEF r
<1> QED
  BY <1>3, <1>5, TreeMenuAlike DEF SameOpen

\* What has the focus.
LEMMA MenuFocusFit ==
  ASSUME NEW w, TreeMenuFit(w), NEW n \in MenuList
  PROVE  TreeMenuFit(CM!focus(w, n)) /\ SameOpen(CM!focus(w, n), w)
<1> DEFINE r == [w EXCEPT !.focused = n]
<1>1. w \in TreeMenuShape
  BY DEF TreeMenuFit
<1>2. /\ r \in TreeMenuShape /\ r.lit = w.lit /\ r.lighted = w.lighted /\ r.expanded = w.expanded
      /\ r.actived = w.actived /\ r.lent = w.lent /\ r.hidden = w.hidden
      /\ r.opened = w.opened /\ r.shown = w.shown /\ r.watched = w.watched
  BY <1>1 DEF TreeMenuShape
<1>3. CM!focus(w, n) = r
  BY DEF CM!focus
<1> HIDE DEF r
<1> QED
  BY <1>2, <1>3, TreeMenuAlike DEF SameOpen

\* The timer of an option.
LEMMA MenuTimerFit ==
  ASSUME NEW w, TreeMenuFit(w), NEW n \in MenuOption, NEW action \in {"none", "expand", "contract"}
  PROVE  /\ TreeMenuFit(CM!setTimeout(w, n, action)) /\ SameOpen(CM!setTimeout(w, n, action), w)
         /\ TreeMenuFit(CM!clearTimeout(w, n)) /\ SameOpen(CM!clearTimeout(w, n), w)
<1>1. w \in TreeMenuShape
  BY DEF TreeMenuFit
<1>2. ASSUME NEW a \in {"none", "expand", "contract"}, NEW r, r = [w EXCEPT !.timer[n] = a]
      PROVE  TreeMenuFit(r) /\ SameOpen(r, w)
  <2> DEFINE t == [w.timer EXCEPT ![n] = a]
  <2>1. t \in [MenuOption -> {"none", "expand", "contract"}]
    BY <1>1 DEF TreeMenuShape
  <2>2. r = [w EXCEPT !.timer = t]
    BY <1>1, <1>2 DEF TreeMenuShape
  <2> HIDE DEF t
  <2>3. /\ r \in TreeMenuShape /\ r.lit = w.lit /\ r.lighted = w.lighted /\ r.expanded = w.expanded
        /\ r.actived = w.actived /\ r.lent = w.lent /\ r.hidden = w.hidden
        /\ r.opened = w.opened /\ r.shown = w.shown /\ r.watched = w.watched
    BY <1>1, <2>1, <2>2 DEF TreeMenuShape
  <2> QED
    BY <2>3, TreeMenuAlike DEF SameOpen
<1>3. TreeMenuFit(w) /\ SameOpen(w, w)
  BY DEF SameOpen
<1>4. CM!setTimeout(w, n, action) \in {w, [w EXCEPT !.timer[n] = action]}
  BY DEF CM!setTimeout
<1>5. CM!clearTimeout(w, n) = [w EXCEPT !.timer[n] = "none"]
  BY DEF CM!clearTimeout
<1> QED
  BY <1>2, <1>3, <1>4, <1>5

\* What is lit changes with what the menu knows of it.
LEMMA MenuLighted ==
  ASSUME NEW w, TreeMenuFit(w), NEW r \in TreeMenuShape, r.lit = {r.lighted} \ {NoOption},
         r.expanded = w.expanded, r.actived = w.actived, r.lent = w.lent, r.hidden = w.hidden
  PROVE  TreeMenuFit(r)
<1>1. TreeMenuLent(r) /\ TreeMenuChosen(r)
  BY DEF TreeMenuFit, TreeMenuLent, TreeMenuChosen, CM!Rivals, CM!HasSep
<1> QED
  BY <1>1 DEF TreeMenuFit

LEMMA MenuUnlight ==
  ASSUME NEW w, TreeMenuFit(w), NEW n \in MenuOption
  PROVE  TreeMenuFit(CM!Unlight(w, n)) /\ SameOpen(CM!Unlight(w, n), w)
<1> DEFINE l == IF w.lighted = n THEN NoOption ELSE w.lighted
           r == CM!Unlight(w, n)
<1>1. w \in TreeMenuShape /\ w.lit = {w.lighted} \ {NoOption}
  BY DEF TreeMenuFit
<1>2. l \in MenuOption \cup {NoOption} /\ w.lit \ {n} = {l} \ {NoOption}
  BY <1>1 DEF TreeMenuShape
<1>3. r = [w EXCEPT !.lit = w.lit \ {n}, !.lighted = l]
  BY <1>1 DEF CM!Unlight, TreeMenuShape
<1> HIDE DEF l, r
<1>4. /\ r \in TreeMenuShape /\ r.lit = w.lit \ {n} /\ r.lighted = l /\ r.expanded = w.expanded
      /\ r.actived = w.actived /\ r.lent = w.lent /\ r.hidden = w.hidden
      /\ r.opened = w.opened /\ r.shown = w.shown /\ r.watched = w.watched
  BY <1>1, <1>2, <1>3 DEF TreeMenuShape
<1>5. TreeMenuFit(r) /\ SameOpen(r, w)
  BY <1>2, <1>4, MenuLighted DEF SameOpen
<1> QED
  BY <1>5 DEF r

LEMMA MenuSetLighted ==
  ASSUME NEW w, TreeMenuFit(w), NEW n \in MenuOption
  PROVE  TreeMenuFit(CM!setLighted(w, n)) /\ SameOpen(CM!setLighted(w, n), w)
<1> DEFINE L == (w.lit \ {w.lighted}) \cup {n}
           r == CM!setLighted(w, n)
<1>1. w \in TreeMenuShape /\ w.lit = {w.lighted} \ {NoOption}
  BY DEF TreeMenuFit
<1>2. n # NoOption
  BY TreeMenuNone DEF MenuList
<1>3. L = {n} \ {NoOption} /\ L \in SUBSET MenuOption
  BY <1>1, <1>2
<1>4. r = [w EXCEPT !.lit = L, !.lighted = n]
  BY <1>1 DEF CM!setLighted, TreeMenuShape
<1> HIDE DEF L, r
<1>5. /\ r \in TreeMenuShape /\ r.lit = L /\ r.lighted = n /\ r.expanded = w.expanded
      /\ r.actived = w.actived /\ r.lent = w.lent /\ r.hidden = w.hidden
      /\ r.opened = w.opened /\ r.shown = w.shown /\ r.watched = w.watched
  BY <1>1, <1>3, <1>4 DEF TreeMenuShape
<1>6. TreeMenuFit(r) /\ SameOpen(r, w)
  BY <1>3, <1>5, MenuLighted DEF SameOpen
<1> QED
  BY <1>6 DEF r

\* An option is lit, with the one above it.
LEMMA TreeMenuLight ==
  ASSUME NEW w, TreeMenuFit(w), NEW n \in MenuOption
  PROVE  TreeMenuFit(CM!light(w, n)) /\ SameOpen(CM!light(w, n), w)
<1>1. ASSUME NEW v, TreeMenuFit(v), NEW o \in MenuOption
      PROVE  TreeMenuFit(CM!beforeLight(v, o)) /\ SameOpen(CM!beforeLight(v, o), v)
  <2> DEFINE s == CM!Beside(o) \cap v.lit
             x == CHOOSE x \in s : TRUE
  <2>1. CM!beforeLight(v, o) = IF s = {} THEN v ELSE CM!setTimeout(CM!Unlight(v, x), x, "contract")
    BY DEF CM!beforeLight
  <2>2. v.lit \subseteq MenuOption
    BY <1>1 DEF TreeMenuFit, TreeMenuShape
  <2>3. s # {} => x \in MenuOption
    BY <2>2
  <2> HIDE DEF s, x
  <2>4. CASE s = {}
    BY <1>1, <2>1, <2>4 DEF SameOpen
  <2>5. CASE s # {}
    <3> DEFINE u == CM!Unlight(v, x)
    <3>1. TreeMenuFit(u) /\ SameOpen(u, v)
      BY <1>1, <2>3, <2>5, MenuUnlight
    <3> HIDE DEF u
    <3>2. TreeMenuFit(CM!setTimeout(u, x, "contract")) /\ SameOpen(CM!setTimeout(u, x, "contract"), u)
      BY <2>3, <2>5, <3>1, MenuTimerFit
    <3> QED
      BY <2>1, <2>5, <3>1, <3>2 DEF SameOpen, u
  <2> QED
    BY <2>4, <2>5
<1> DEFINE p == CM!Above(n)
           alone == CM!beforeLight(w, n)
           first == CM!beforeLight(alone, p)
           lit == CM!setLighted(first, p)
           above == IF p = MenuRoot THEN alone ELSE CM!clearTimeout(lit, p)
<1>2. CM!light(w, n) = CM!setLighted(above, n)
  BY DEF CM!light
<1>3. p \in MenuOption \cup {MenuRoot}
  BY MenuAbove, TreeMenuTree DEF MenuList
<1> HIDE DEF p
<1>4. TreeMenuFit(alone) /\ SameOpen(alone, w)
  BY <1>1
<1> HIDE DEF alone
<1>5. TreeMenuFit(above) /\ SameOpen(above, w)
  <2>1. CASE p = MenuRoot
    BY <1>4, <2>1
  <2>2. CASE p # MenuRoot
    <3>1. p \in MenuOption
      BY <1>3, <2>2
    <3>2. TreeMenuFit(first) /\ SameOpen(first, alone)
      BY <1>1, <1>4, <3>1
    <3> HIDE DEF first
    <3>3. TreeMenuFit(lit) /\ SameOpen(lit, first)
      BY <3>1, <3>2, MenuSetLighted
    <3> HIDE DEF lit
    <3>4. TreeMenuFit(CM!clearTimeout(lit, p)) /\ SameOpen(CM!clearTimeout(lit, p), lit)
      BY <3>1, <3>3, MenuTimerFit
    <3> QED
      BY <1>4, <2>2, <3>2, <3>3, <3>4 DEF SameOpen
  <2> QED
    BY <2>1, <2>2
<1> HIDE DEF above
<1>6. TreeMenuFit(CM!setLighted(above, n)) /\ SameOpen(CM!setLighted(above, n), above)
  BY <1>5, MenuSetLighted
<1> QED
  BY <1>2, <1>5, <1>6 DEF SameOpen

LEMMA NaviguateFit ==
  ASSUME NEW w, TreeMenuFit(w), NEW n \in MenuOption \cup {NoOption}
  PROVE  TreeMenuFit(CM!naviguate(w, n)) /\ SameOpen(CM!naviguate(w, n), w)
<1>1. CASE n = NoOption
  BY <1>1 DEF CM!naviguate, SameOpen
<1>2. CASE n # NoOption
  <2> DEFINE v == CM!focus(w, n)
  <2>1. n \in MenuOption /\ n \in MenuList
    BY <1>2 DEF MenuList
  <2>2. TreeMenuFit(v) /\ SameOpen(v, w)
    BY <2>1, MenuFocusFit
  <2>3. CM!naviguate(w, n) = CM!light(v, n)
    BY <1>2 DEF CM!naviguate
  <2> HIDE DEF v
  <2>4. TreeMenuFit(CM!light(v, n)) /\ SameOpen(CM!light(v, n), v)
    BY <2>1, <2>2, TreeMenuLight
  <2> QED
    BY <2>2, <2>3, <2>4 DEF SameOpen
<1> QED
  BY <1>1, <1>2

\* A group is contracted, or those beside the one that will be expanded.
LEMMA TreeMenuLess ==
  ASSUME NEW w, TreeMenuFit(w), NEW L,
         NEW r, r = CM!updateNavList([w EXCEPT !.expanded = @ \ L])
  PROVE  TreeMenuFit(r) /\ SameOpen(r, w) /\ r.expanded = w.expanded \ L /\ r.target = w.target
<1> DEFINE v == [w EXCEPT !.expanded = @ \ L]
<1>1. w \in TreeMenuShape
  BY DEF TreeMenuFit
<1>2. /\ v \in TreeMenuShape /\ v.lit = w.lit /\ v.lighted = w.lighted /\ v.expanded = w.expanded \ L
      /\ v.actived = w.actived /\ v.lent = w.lent /\ v.hidden = w.hidden
      /\ v.target = w.target /\ v.opened = w.opened /\ v.shown = w.shown /\ v.watched = w.watched
  BY <1>1 DEF TreeMenuShape
<1>3. r = CM!updateNavList(v)
  OBVIOUS
<1> HIDE DEF v
<1>4. TreeMenuFit(v)
  BY <1>2, TreeMenuAlike
<1> QED
  BY <1>2, <1>3, <1>4, NavListFit DEF SameOpen

LEMMA TreeMenuContract ==
  ASSUME NEW w, TreeMenuFit(w), NEW n
  PROVE  TreeMenuFit(CM!contract(w, n)) /\ SameOpen(CM!contract(w, n), w)
BY TreeMenuLess DEF CM!contract

\* The rivals of the menu of a tree: each is among those of the other, and there
\* are no more of them when more separators are lent.
LEMMA TreeMenuRivals ==
  ASSUME NEW w, NEW n \in MenuOption, NEW o \in CM!Rivals(w, n)
  PROVE  o \in MenuOption /\ o # n /\ n \in Radio /\ o \in Radio /\ n \in CM!Rivals(w, o)
<1> DEFINE p == MN!Above(n)
           list == MenuOptions[p]
           at(x) == CHOOSE i \in DOMAIN list : list[i] = x
           Between(i, j) == \A k \in i..j : list[k] \in Radio
           Near(i, j) == IF i < j THEN Between(i, j) /\ \A k \in i..(j - 1) : ~CM!HasSep(w, list[k])
                                  ELSE Between(j, i) /\ \A k \in j..(i - 1) : ~CM!HasSep(w, list[k])
           Around(q, x) ==
             LET l == MenuOptions[q]
                 at2(y) == CHOOSE i \in DOMAIN l : l[i] = y
                 All(i, j) == \A k \in i..j : l[k] \in Radio
             IN  {y \in CM!Beside(x) :
                   LET i == at2(y) j == at2(x)
                   IN  IF i < j THEN All(i, j) /\ \A k \in i..(j - 1) : ~CM!HasSep(w, l[k])
                       ELSE All(j, i) /\ \A k \in j..(i - 1) : ~CM!HasSep(w, l[k])}
<1>1. ASSUME NEW x \in MenuOption, MN!Above(x) = p
      PROVE  CM!Rivals(w, x) = {y \in CM!Beside(x) : Near(at(y), at(x))}
  <2>1. CM!Rivals(w, x) = Around(CM!Above(x), x)
    BY DEF CM!Rivals
  <2>2. CM!Above(x) = p
    BY <1>1, TreeMenuTree
  <2>3. Around(p, x) = {y \in CM!Beside(x) : Near(at(y), at(x))}
    OBVIOUS
  <2> HIDE DEF Around, Near, at
  <2> QED
    BY <2>1, <2>2, <2>3
<1>2. o \in CM!Beside(n) /\ Near(at(o), at(n))
  BY <1>1
<1>3. o \in MenuOption /\ o # n /\ MN!Above(o) = p
  BY <1>2, MenuBeside, TreeMenuTree
<1>4. n \in CM!Beside(o)
  BY <1>3, MenuBeside, TreeMenuTree
<1>5. p \in MenuList /\ DOMAIN list = 1..Len(list) /\ Len(list) \in Nat
  BY MenuAbove, MenuLists
<1>6. at(n) \in DOMAIN list /\ list[at(n)] = n
  BY MenuAbove
<1>7. at(o) \in DOMAIN list /\ list[at(o)] = o
  <2>1. \E i \in DOMAIN list : list[i] = o
    BY <1>3, MenuAbove
  <2> HIDE DEF list
  <2> QED
    BY <2>1
<1> DEFINE i == at(o)  j == at(n)
<1> HIDE DEF at, Near, list
<1>8. i \in Int /\ j \in Int /\ list[i] = o /\ list[j] = n /\ i # j /\ Near(i, j)
  BY <1>2, <1>3, <1>5, <1>6, <1>7
<1> HIDE DEF i, j, p
<1>9. Near(j, i)
  BY <1>8 DEF Near
<1>10. n \in Radio /\ o \in Radio
  BY <1>8 DEF Near
<1>11. n \in CM!Rivals(w, o)
  BY <1>1, <1>3, <1>4, <1>9 DEF i, j
<1> QED
  BY <1>3, <1>10, <1>11

LEMMA TreeMenuFewer ==
  ASSUME NEW w, NEW r, w.lent \subseteq r.lent, NEW n
  PROVE  CM!Rivals(r, n) \subseteq CM!Rivals(w, n)
<1>1. \A o : CM!HasSep(w, o) => CM!HasSep(r, o)
  BY DEF CM!HasSep
<1> DEFINE list == MenuOptions[CM!Above(n)]
           at(x) == CHOOSE i \in DOMAIN list : list[i] = x
           Between(i, j) == \A k \in i..j : list[k] \in Radio
           Near(v, i, j) == IF i < j THEN Between(i, j) /\ \A k \in i..(j - 1) : ~CM!HasSep(v, list[k])
                                     ELSE Between(j, i) /\ \A k \in j..(i - 1) : ~CM!HasSep(v, list[k])
<1>2. ASSUME NEW v PROVE CM!Rivals(v, n) = {y \in CM!Beside(n) : Near(v, at(y), at(n))}
  BY DEF CM!Rivals
<1>3. \A i, j : Near(r, i, j) => Near(w, i, j)
  BY <1>1
<1> HIDE DEF Near
<1> QED
  BY <1>2, <1>3

\* The menu closes.
LEMMA TreeMenuClosed ==
  ASSUME NEW w, TreeMenuFit(w)
  PROVE  /\ TreeMenuFit(CM!Closed(w)) /\ CM!Closed(w).target = w.target
         /\ TreeMenuOpen(w) => TreeMenuOpen(CM!Closed(w))
<1> DEFINE r == [w EXCEPT !.opened = FALSE, !.shown = FALSE, !.watched = FALSE]
<1>1. w \in TreeMenuShape
  BY DEF TreeMenuFit
<1>2. /\ r \in TreeMenuShape /\ r.lit = w.lit /\ r.lighted = w.lighted /\ r.expanded = w.expanded
      /\ r.actived = w.actived /\ r.lent = w.lent /\ r.hidden = w.hidden /\ r.target = w.target
      /\ r.opened = FALSE /\ r.shown = FALSE /\ r.watched = FALSE
  BY <1>1 DEF TreeMenuShape
<1>3. CM!Closed(w) = IF w.opened THEN r ELSE w
  BY DEF CM!Closed, CM!close
<1> HIDE DEF r
<1>4. TreeMenuFit(r) /\ TreeMenuOpen(r)
  BY <1>2, TreeMenuAlike DEF TreeMenuOpen
<1> QED
  BY <1>2, <1>3, <1>4

\* An option is actived, and the radios around it no longer are.
LEMMA TreeMenuActive ==
  ASSUME NEW w, TreeMenuFit(w), NEW n \in MenuOption
  PROVE  /\ TreeMenuFit(CM!active(w, n)) /\ CM!active(w, n).target = w.target
         /\ TreeMenuOpen(w) => TreeMenuOpen(CM!active(w, n))
<1> DEFINE A == (w.actived \cup {n}) \ (IF n \in Radio THEN CM!Rivals(w, n) ELSE {})
           r == [w EXCEPT !.actived = A]
<1>1. w \in TreeMenuShape
  BY DEF TreeMenuFit
<1>2. A \in SUBSET MenuOption
  BY <1>1 DEF TreeMenuShape
<1>3. CM!active(w, n) = IF n \in Checkbox THEN r ELSE CM!Closed(r)
  BY <1>1 DEF CM!active, TreeMenuShape
<1>4. A \subseteq w.actived \cup {n} /\ (n \in Radio => A \cap CM!Rivals(w, n) = {})
  OBVIOUS
<1> HIDE DEF A
<1>5. /\ r \in TreeMenuShape /\ r.lit = w.lit /\ r.lighted = w.lighted /\ r.expanded = w.expanded
      /\ r.actived = A /\ r.lent = w.lent /\ r.hidden = w.hidden /\ r.target = w.target
      /\ r.opened = w.opened /\ r.shown = w.shown /\ r.watched = w.watched
  BY <1>1, <1>2 DEF TreeMenuShape
<1> HIDE DEF r
<1>6. ASSUME NEW a PROVE CM!Rivals(r, a) \subseteq CM!Rivals(w, a)
  BY <1>5, TreeMenuFewer
<1>7. ASSUME NEW a \in A \cap Radio, NEW o \in CM!Rivals(w, a) \cap A PROVE FALSE
  <2>1. a \in MenuOption
    BY <1>2
  <2>2. a # o /\ o \in Radio /\ a \in CM!Rivals(w, o)
    BY <1>7, <2>1, TreeMenuRivals
  <2>3. a # n /\ o # n
    BY <1>4, <1>7, <2>2
  <2>4. a \in w.actived /\ o \in w.actived
    BY <1>4, <1>7, <2>3
  <2> QED
    BY <1>7, <2>4 DEF TreeMenuFit, TreeMenuChosen
<1>8. TreeMenuChosen(r)
  BY <1>5, <1>6, <1>7 DEF TreeMenuChosen
<1>9. TreeMenuFit(r)
  BY <1>5, <1>8 DEF TreeMenuFit, TreeMenuLent
<1>10. TreeMenuOpen(w) => TreeMenuOpen(r)
  BY <1>5 DEF TreeMenuOpen
<1> QED
  BY <1>3, <1>5, <1>9, <1>10, TreeMenuClosed

\* A checkbox that was actived no longer is.
LEMMA TreeMenuUnactive ==
  ASSUME NEW w, TreeMenuFit(w), NEW n
  PROVE  LET r == [w EXCEPT !.actived = @ \ {n}]
         IN  TreeMenuFit(r) /\ SameOpen(r, w)
<1> DEFINE A == w.actived \ {n}
           r == [w EXCEPT !.actived = A]
<1>1. w \in TreeMenuShape
  BY DEF TreeMenuFit
<1>2. A \subseteq w.actived /\ A \in SUBSET MenuOption
  BY <1>1 DEF TreeMenuShape
<1>3. r = [w EXCEPT !.actived = @ \ {n}]
  BY <1>1 DEF TreeMenuShape
<1> HIDE DEF A
<1>4. /\ r \in TreeMenuShape /\ r.lit = w.lit /\ r.lighted = w.lighted /\ r.expanded = w.expanded
      /\ r.actived = A /\ r.lent = w.lent /\ r.hidden = w.hidden
      /\ r.opened = w.opened /\ r.shown = w.shown /\ r.watched = w.watched
  BY <1>1, <1>2 DEF TreeMenuShape
<1> HIDE DEF r
<1>5. ASSUME NEW a PROVE CM!Rivals(r, a) \subseteq CM!Rivals(w, a)
  BY <1>4, TreeMenuFewer
<1>6. TreeMenuChosen(r)
  BY <1>2, <1>4, <1>5 DEF TreeMenuChosen, TreeMenuFit
<1>7. TreeMenuFit(r)
  BY <1>4, <1>6 DEF TreeMenuFit, TreeMenuLent
<1> QED
  BY <1>3, <1>4, <1>7 DEF SameOpen

\* A hidden option that has a separator lends it to the one before.
LEMMA TreeMenuLends ==
  ASSUME NEW w, TreeMenuFit(w), NEW p \in MenuList, NEW i, i \in DOMAIN MenuOptions[p], i > 1,
         NEW r, r = [w EXCEPT !.lent = IF MenuOptions[p][i] \in w.hidden THEN @ \cup {MenuOptions[p][i - 1]}
                                                                         ELSE @ \ {MenuOptions[p][i - 1]}]
  PROVE  TreeMenuFit(r) /\ SameOpen(r, w) /\ r.target = w.target
<1> DEFINE n == MenuOptions[p][i]
           before == MenuOptions[p][i - 1]
           L == IF n \in w.hidden THEN w.lent \cup {before} ELSE w.lent \ {before}
<1>1. w \in TreeMenuShape /\ TreeMenuLent(w)
  BY DEF TreeMenuFit
<1>2. i \in Int /\ i - 1 \in DOMAIN MenuOptions[p]
  BY MenuLists
<1>3. before \in MenuOption
  BY <1>2, MenuLists
<1>4. n \notin w.hidden => before \notin w.lent
  <2>1. SUFFICES ASSUME n \notin w.hidden, before \in w.lent PROVE FALSE
    OBVIOUS
  <2>2. PICK q \in MenuList : \E j \in DOMAIN MenuOptions[q] :
          j + 1 \in DOMAIN MenuOptions[q] /\ MenuOptions[q][j] = before /\ MenuOptions[q][j + 1] \in w.hidden
    BY <1>1, <2>1 DEF TreeMenuLent
  <2>3. PICK j \in DOMAIN MenuOptions[q] :
          j + 1 \in DOMAIN MenuOptions[q] /\ MenuOptions[q][j] = before /\ MenuOptions[q][j + 1] \in w.hidden
    BY <2>2
  <2>4. q = p /\ j = i - 1
    <3>1. \A a, b \in MenuList : \A k \in DOMAIN MenuOptions[a], l \in DOMAIN MenuOptions[b] :
            MenuOptions[a][k] = MenuOptions[b][l] => a = b /\ k = l
      BY ControlAssumption DEF MN!MenuAssumption, MenuList
    <3>2. MenuOptions[q][j] = MenuOptions[p][i - 1]
      BY <2>3
    <3> QED
      BY <1>2, <3>1, <3>2
  <2> QED
    BY <1>2, <2>1, <2>3, <2>4
<1>5. w.lent \subseteq L /\ L \in SUBSET MenuOption
  BY <1>1, <1>3, <1>4 DEF TreeMenuShape
<1>6. r = [w EXCEPT !.lent = L]
  BY <1>1 DEF TreeMenuShape
<1>7. \A o \in L : o \in w.lent \/ (o = before /\ n \in w.hidden)
  OBVIOUS
<1> HIDE DEF L
<1>8. /\ r \in TreeMenuShape /\ r.lit = w.lit /\ r.lighted = w.lighted /\ r.expanded = w.expanded
      /\ r.actived = w.actived /\ r.lent = L /\ r.hidden = w.hidden /\ r.target = w.target
      /\ r.opened = w.opened /\ r.shown = w.shown /\ r.watched = w.watched
  BY <1>1, <1>5, <1>6 DEF TreeMenuShape
<1>9. TreeMenuLent(r)
  <2>1. SUFFICES ASSUME NEW o \in L
                 PROVE  \E q \in MenuList : \E j \in DOMAIN MenuOptions[q] :
                          j + 1 \in DOMAIN MenuOptions[q] /\ MenuOptions[q][j] = o /\ MenuOptions[q][j + 1] \in w.hidden
    BY <1>8 DEF TreeMenuLent
  <2>2. CASE o \in w.lent
    BY <1>1, <2>2 DEF TreeMenuLent
  <2>3. CASE o = before /\ n \in w.hidden
    <3>1. (i - 1) + 1 = i
      BY <1>2
    <3> QED
      BY <1>2, <2>3, <3>1
  <2> QED
    BY <1>7, <2>2, <2>3
<1>10. TreeMenuChosen(r)
  <2>1. ASSUME NEW a PROVE CM!Rivals(r, a) \subseteq CM!Rivals(w, a)
    BY <1>5, <1>8, TreeMenuFewer
  <2> QED
    BY <1>8, <2>1 DEF TreeMenuChosen, TreeMenuFit
<1> QED
  BY <1>8, <1>9, <1>10 DEF TreeMenuFit, SameOpen

\* An option is reset: what is in order stays so; and when the option does not
\* ask to be actived, nothing closes.
LEMMA TreeMenuReset ==
  ASSUME NEW w, TreeMenuFit(w), NEW n \in MenuOption
  PROVE  /\ TreeMenuFit(CM!reset(w, n)) /\ CM!reset(w, n).target = w.target
         /\ TreeMenuOpen(w) => TreeMenuOpen(CM!reset(w, n))
         /\ Asked[n][w.target] # "actived" => SameOpen(CM!reset(w, n), w)
<1> DEFINE keep == Asked[n][w.target]
           list == MenuOptions[CM!Above(n)]
           at == CHOOSE i \in DOMAIN list : list[i] = n
           hid == [w EXCEPT !.hidden = @ \cup {n}]
           off == [w EXCEPT !.disabled = @ \cup {n}]
           v == CASE keep = "hidden"   -> CM!updateNavList(hid)
                  [] keep = "disabled" -> off
                  [] keep = "actived"  -> IF n \in w.actived THEN w ELSE CM!active(w, n)
                  [] OTHER -> w
           lends == [v EXCEPT !.lent = IF n \in v.hidden THEN @ \cup {list[at - 1]} ELSE @ \ {list[at - 1]}]
<1>1. w \in TreeMenuShape
  BY DEF TreeMenuFit
<1>2. CM!reset(w, n) = IF n \in Sep /\ at > 1 THEN lends ELSE v
  BY DEF CM!reset
<1>3. /\ hid \in TreeMenuShape /\ hid.lit = w.lit /\ hid.lighted = w.lighted /\ hid.expanded = w.expanded
      /\ hid.actived = w.actived /\ hid.lent = w.lent /\ w.hidden \subseteq hid.hidden /\ hid.target = w.target
      /\ hid.opened = w.opened /\ hid.shown = w.shown /\ hid.watched = w.watched
  BY <1>1 DEF TreeMenuShape
<1>4. /\ off \in TreeMenuShape /\ off.lit = w.lit /\ off.lighted = w.lighted /\ off.expanded = w.expanded
      /\ off.actived = w.actived /\ off.lent = w.lent /\ off.hidden = w.hidden /\ off.target = w.target
      /\ off.opened = w.opened /\ off.shown = w.shown /\ off.watched = w.watched
  BY <1>1 DEF TreeMenuShape
<1> DEFINE Good(r) == /\ TreeMenuFit(r) /\ r.target = w.target
                      /\ TreeMenuOpen(w) => TreeMenuOpen(r)
                      /\ keep # "actived" => SameOpen(r, w)
<1> HIDE DEF hid, off
<1>5. Good(CM!updateNavList(hid))
  <2>1. TreeMenuFit(hid)
    BY <1>3, TreeMenuAlike
  <2> QED
    BY <1>3, <2>1, NavListFit DEF SameOpen, TreeMenuOpen
<1>6. Good(off) /\ Good(w)
  BY <1>4, TreeMenuAlike DEF SameOpen, TreeMenuOpen
<1>7. keep = "actived" => Good(CM!active(w, n))
  BY TreeMenuActive
<1> HIDE DEF Good, keep
<1>8. Good(v)
  BY <1>5, <1>6, <1>7
<1> HIDE DEF v
<1>9. CM!Above(n) \in MenuList /\ at \in DOMAIN list /\ list[at] = n
  BY MenuAbove, TreeMenuTree
<1>10. ASSUME at > 1 PROVE Good(lends)
  <2> DEFINE i == at
  <2>1. /\ i \in DOMAIN list /\ list[i] = n /\ i > 1
        /\ lends = [v EXCEPT !.lent = IF list[i] \in v.hidden THEN @ \cup {list[i - 1]} ELSE @ \ {list[i - 1]}]
    BY <1>9, <1>10
  <2> HIDE DEF i, lends
  <2>2. TreeMenuFit(v)
    BY <1>8 DEF Good
  <2>3. TreeMenuFit(lends) /\ SameOpen(lends, v) /\ lends.target = v.target
    BY <1>9, <2>1, <2>2, TreeMenuLends
  <2> QED
    BY <1>8, <2>3 DEF Good, SameOpen, TreeMenuOpen
<1> HIDE DEF lends, at
<1>11. Good(CM!reset(w, n))
  BY <1>2, <1>8, <1>10
<1> QED
  BY <1>11 DEF Good, keep

\* What is true of the menu, and kept by the reset of each option of a list, is
\* true as the options are reset in turn.
LEMMA TreeMenuResets ==
  ASSUME NEW S, NEW R \in SUBSET MenuOption, \A u \in S, n \in R : CM!reset(u, n) \in S,
         NEW v \in S, NEW list, NEW len \in Nat, DOMAIN list = 1..len, len = Len(list), \A i \in 1..len : list[i] \in R
  PROVE  CM!resets(v, list) \in [0..len -> S] /\ CM!resetAll(v, list) \in S
<1> DEFINE Is(f) == f = [i \in 0..Len(list) |-> IF i = 0 THEN v ELSE CM!reset(f[i - 1], list[i])]
           step == [u \in S |-> [n \in R |-> CM!reset(u, n)]]
           word == [i \in 1..len |-> list[i]]
           g == CM!resets(v, list)
<1>1. step \in [S -> [R -> S]]
  OBVIOUS
<1>2. word \in Seq(R) /\ Len(word) = len
  OBVIOUS
<1>3. PICK f \in [0..len -> S] : Walks(f, step, v, word, len)
  <2> HIDE DEF step, word
  <2>1. len \in 0..Len(word)
    BY <1>2
  <2> QED
    BY <1>1, <1>2, <2>1, WalkExists
<1>4. f[0] = v /\ \A i \in 1..len : f[i] = CM!reset(f[i - 1], list[i])
  <2>1. ASSUME NEW i \in 1..len PROVE f[i - 1] \in S /\ list[i] \in R /\ word[i] = list[i]
    <3>1. word[i] = list[i] /\ list[i] \in R
      OBVIOUS
    <3>2. i - 1 \in 0..len
      OBVIOUS
    <3> HIDE DEF step, word
    <3> QED
      BY <1>3, <3>1, <3>2
  <2>2. ASSUME NEW i \in 1..len PROVE f[i] = CM!reset(f[i - 1], list[i])
    <3>1. f[i] = step[f[i - 1]][word[i]]
      BY <1>3 DEF Walks
    <3>2. \A u \in S, n \in R : step[u][n] = CM!reset(u, n)
      OBVIOUS
    <3> HIDE DEF step, word
    <3> QED
      BY <2>1, <3>1, <3>2
  <2> QED
    BY <1>3, <2>2 DEF Walks
<1>5. Is(f)
  BY <1>4
<1>6. Is(g)
  <2>1. g = CHOOSE h : Is(h)
    BY DEF CM!resets
  <2> HIDE DEF Is, g
  <2> QED
    BY <1>5, <2>1
<1>7. g[0] = v /\ \A i \in 1..len : g[i] = CM!reset(g[i - 1], list[i])
  <2> HIDE DEF g
  <2> QED
    BY <1>6
<1>8. \A i \in 0..len : g[i] = f[i]
  <2> DEFINE bad == {i \in 0..len : g[i] # f[i]}
  <2>1. SUFFICES ASSUME bad # {} PROVE FALSE
    OBVIOUS
  <2>2. bad \in SUBSET Nat
    OBVIOUS
  <2>3. PICK k \in bad : \A y \in bad : k <= y
    <3> HIDE DEF bad
    <3> QED
      BY <2>1, <2>2, LeastNat
  <2>4. k \in 0..len /\ g[k] # f[k]
    OBVIOUS
  <2>5. k # 0
    BY <1>4, <1>7, <2>4
  <2>6. k \in 1..len /\ k - 1 \in 0..len /\ ~(k <= k - 1)
    BY <2>4, <2>5
  <2>7. g[k - 1] = f[k - 1]
    BY <2>3, <2>6
  <2> HIDE DEF g
  <2> QED
    BY <1>4, <1>7, <2>4, <2>6, <2>7
<1>9. g \in [0..len -> S]
  <2>1. DOMAIN g = 0..len /\ g = [i \in 0..len |-> g[i]]
    <3> HIDE DEF g
    <3>1. g = [i \in 0..len |-> IF i = 0 THEN v ELSE CM!reset(g[i - 1], list[i])]
      BY <1>6
    <3> QED
      BY <3>1
  <2> HIDE DEF g
  <2> QED
    BY <1>8, <2>1
<1>10. CM!resetAll(v, list) = g[len]
  BY DEF CM!resetAll
<1> HIDE DEF g
<1>11. g[len] \in S
  BY <1>9
<1> QED
  BY <1>9, <1>10, <1>11 DEF g

\* The menus that are in order and as open as they are shown.
TreeMenus == {w \in TreeMenuShape : TreeMenuFit(w) /\ TreeMenuOpen(w)}

LEMMA TreeMenusAre ==
  ASSUME NEW w
  PROVE  /\ w \in TreeMenus <=> TreeMenuFit(w) /\ TreeMenuOpen(w)
         /\ \A v : w \in TreeMenus /\ TreeMenuFit(v) /\ SameOpen(v, w) => v \in TreeMenus
BY DEF TreeMenus, TreeMenuFit, TreeMenuOpen, SameOpen

LEMMA TreeMenuResetList ==
  ASSUME NEW w \in TreeMenus, NEW p \in MenuList
  PROVE  /\ CM!resetAll(w, MenuOptions[p]) \in TreeMenus
         /\ CM!resets(w, MenuOptions[p]) \in [0..Len(MenuOptions[p]) -> TreeMenus]
<1>1. \A u \in TreeMenus, n \in MenuOption : CM!reset(u, n) \in TreeMenus
  BY TreeMenusAre, TreeMenuReset
<1> DEFINE list == MenuOptions[p]
           len == Len(list)
<1>2. len \in Nat /\ DOMAIN list = 1..len /\ \A i \in 1..len : list[i] \in MenuOption
  BY MenuLists
<1> HIDE DEF list
<1>3. CM!resets(w, list) \in [0..len -> TreeMenus] /\ CM!resetAll(w, list) \in TreeMenus
  BY <1>1, <1>2, TreeMenuResets
<1> QED
  BY <1>3 DEF list

\* The first option that is good.
LEMMA FirstIs ==
  ASSUME NEW list, DOMAIN list \in SUBSET Nat, NEW good
  PROVE  CM!First(list, good) \in good \cup {NoOption}
<1> DEFINE at == {i \in DOMAIN list : list[i] \in good}
           k == CHOOSE i \in at : \A j \in at : i <= j
<1>1. CM!First(list, good) = IF at = {} THEN NoOption ELSE list[k]
  BY DEF CM!First
<1>2. at \in SUBSET Nat
  OBVIOUS
<1>3. at # {} => k \in at
  <2>1. SUFFICES ASSUME at # {} PROVE k \in at
    OBVIOUS
  <2> HIDE DEF at
  <2>2. \E i \in at : \A j \in at : i <= j
    BY <1>2, <2>1, LeastNat
  <2> QED
    BY <2>2
<1>4. \A i \in at : list[i] \in good
  OBVIOUS
<1> HIDE DEF at, k
<1> QED
  BY <1>1, <1>3, <1>4

\* A group is expanded, those beside it are not any longer, and its options are
\* reset.
LEMMA TreeMenuExpand ==
  ASSUME NEW w \in TreeMenus, NEW n \in MenuOption, NEW key \in BOOLEAN
  PROVE  CM!expand(w, n, key) \in TreeMenus
<1> DEFINE less == CM!beforeExpand(w, n)
           more == [less EXCEPT !.expanded = @ \cup {n}]
           v == CM!updateNavList(more)
           fresh == IF CM!Shown(v, n) THEN CM!resetAll(v, MenuOptions[n]) ELSE v
           first == CM!First(MenuOptions[n], MenuOption \ fresh.hidden)
<1>1. TreeMenuFit(w) /\ w \in TreeMenuShape
  BY TreeMenusAre DEF TreeMenuFit
<1>2. TreeMenuFit(less) /\ SameOpen(less, w) /\ less.expanded = w.expanded \ MN!Beside(n)
  <2>1. CM!Beside(n) = MN!Beside(n)
    BY TreeMenuTree
  <2>2. CASE CM!Beside(n) \cap w.expanded = {}
    <3>1. less = w
      BY <2>2 DEF CM!beforeExpand
    <3> QED
      BY <1>1, <2>1, <2>2, <3>1 DEF SameOpen
  <2>3. CASE CM!Beside(n) \cap w.expanded # {}
    <3> DEFINE L == CM!Beside(n)
    <3>1. less = CM!updateNavList([w EXCEPT !.expanded = @ \ L])
      BY <2>3 DEF CM!beforeExpand
    <3> HIDE DEF L, less
    <3>2. TreeMenuFit(less) /\ SameOpen(less, w) /\ less.expanded = w.expanded \ L
      BY <1>1, <3>1, TreeMenuLess
    <3> QED
      BY <2>1, <3>2 DEF L
  <2> QED
    BY <2>2, <2>3
<1>3. less \in TreeMenuShape
  BY <1>2 DEF TreeMenuFit
<1> HIDE DEF less
<1>4. /\ more \in TreeMenuShape /\ more.lit = less.lit /\ more.lighted = less.lighted
      /\ more.expanded = less.expanded \cup {n} /\ more.actived = less.actived /\ more.lent = less.lent
      /\ more.hidden = less.hidden
      /\ more.opened = less.opened /\ more.shown = less.shown /\ more.watched = less.watched
  BY <1>3 DEF TreeMenuShape
<1> HIDE DEF more
<1>5. \A a, b \in more.expanded : MN!Above(a) = MN!Above(b) => a = b
  <2>1. MN!Beside(n) = {o \in MenuOption : o # n /\ MN!Above(o) = MN!Above(n)}
    BY MenuBeside
  <2>2. more.expanded \subseteq MenuOption
    BY <1>4 DEF TreeMenuShape
  <2>3. \A a \in more.expanded : a = n \/ (a \in less.expanded /\ MN!Above(a) # MN!Above(n))
    BY <1>2, <1>4, <2>1, <2>2
  <2> QED
    BY <1>2, <2>3 DEF TreeMenuFit
<1>6. TreeMenuFit(more)
  <2>1. TreeMenuChosen(more) /\ TreeMenuLent(more)
    BY <1>2, <1>4 DEF TreeMenuFit, TreeMenuChosen, TreeMenuLent, CM!Rivals, CM!HasSep
  <2> QED
    BY <1>2, <1>4, <1>5, <2>1 DEF TreeMenuFit
<1>7. v \in TreeMenus
  <2>1. TreeMenuFit(v) /\ SameOpen(v, more)
    BY <1>6, NavListFit
  <2>2. SameOpen(v, w)
    BY <1>2, <1>4, <2>1 DEF SameOpen
  <2> QED
    BY <2>1, <2>2, TreeMenusAre
<1> HIDE DEF v
<1>8. n \in MenuList
  BY DEF MenuList
<1>9. fresh \in TreeMenus
  BY <1>7, <1>8, TreeMenuResetList
<1>10. CM!expand(w, n, key) = IF key THEN CM!naviguate(fresh, first) ELSE fresh
  BY DEF CM!expand, less, more, v
<1> HIDE DEF fresh
<1>11. first \in MenuOption \cup {NoOption}
  <2>1. DOMAIN MenuOptions[n] \in SUBSET Nat
    BY <1>8, MenuLists
  <2>2. first \in (MenuOption \ fresh.hidden) \cup {NoOption}
    BY <2>1, FirstIs
  <2> QED
    BY <2>2
<1> HIDE DEF first
<1>12. TreeMenuFit(CM!naviguate(fresh, first)) /\ SameOpen(CM!naviguate(fresh, first), fresh)
  BY <1>9, <1>11, NaviguateFit, TreeMenusAre
<1> QED
  BY <1>9, <1>10, <1>12, TreeMenusAre

\* The menu opens on a node: no option of the first level closes it.
LEMMA TreeMenuOpens ==
  ASSUME NEW w \in TreeMenus, NEW t \in Target
  PROVE  CM!open(w, t) \in TreeMenus
<1> DEFINE v == [w EXCEPT !.opened = TRUE, !.target = t]
           u == CM!opening(w, t)
           nav == CM!updateNavList(u)
           top == CM!focus(nav, MenuRoot)
           r == [top EXCEPT !.watched = TRUE, !.shown = TRUE]
           list == MenuOptions[MenuRoot]
           len == Len(list)
           S == {x \in TreeMenuShape : TreeMenuFit(x) /\ x.opened /\ x.target = t}
           R == {n \in MenuOption : Asked[n][t] # "actived"}
<1>1. w \in TreeMenuShape /\ TreeMenuFit(w)
  BY TreeMenusAre DEF TreeMenuFit
<1>2. MenuRoot \in MenuList
  BY DEF MenuList
<1>3. v \in S
  <2>1. /\ v \in TreeMenuShape /\ v.lit = w.lit /\ v.lighted = w.lighted /\ v.expanded = w.expanded
        /\ v.actived = w.actived /\ v.lent = w.lent /\ v.hidden = w.hidden /\ v.opened = TRUE /\ v.target = t
    BY <1>1 DEF TreeMenuShape
  <2> HIDE DEF v
  <2> QED
    BY <1>1, <2>1, TreeMenuAlike
<1>4. \A x \in S, n \in R : CM!reset(x, n) \in S
  <2>1. ASSUME NEW x \in S, NEW n \in R PROVE CM!reset(x, n) \in S
    <3>1. TreeMenuFit(CM!reset(x, n)) /\ CM!reset(x, n).target = t /\ SameOpen(CM!reset(x, n), x)
      BY TreeMenuReset
    <3> QED
      BY <3>1 DEF SameOpen, TreeMenuFit
  <2> QED
    BY <2>1
<1>5. len \in Nat /\ DOMAIN list = 1..len /\ \A i \in 1..len : list[i] \in R
  <2>1. len \in Nat /\ DOMAIN list = 1..len /\ \A i \in DOMAIN list : list[i] \in MenuOption
    BY <1>2, MenuLists
  <2>2. \A i \in DOMAIN list : Asked[list[i]][t] # "actived"
    BY ControlAssumption DEF CM!ContextMenuAssumption
  <2> QED
    BY <2>1, <2>2
<1>6. u = CM!resetAll(v, list)
  BY DEF CM!opening
<1>7. R \in SUBSET MenuOption
  OBVIOUS
<1>8. \A x \in S : TreeMenuFit(x) /\ x.opened = TRUE
  BY DEF TreeMenuShape
<1> HIDE DEF S, R, list, v
<1>9. CM!resetAll(v, list) \in S
  BY <1>3, <1>4, <1>5, <1>7, TreeMenuResets
<1>10. TreeMenuFit(u) /\ u.opened = TRUE
  BY <1>6, <1>8, <1>9
<1> HIDE DEF u
<1>11. TreeMenuFit(nav) /\ SameOpen(nav, u)
  BY <1>10, NavListFit
<1> HIDE DEF nav
<1>12. TreeMenuFit(top) /\ SameOpen(top, nav)
  BY <1>2, <1>11, MenuFocusFit
<1> HIDE DEF top
<1>13. top \in TreeMenuShape /\ top.opened = TRUE
  BY <1>10, <1>11, <1>12 DEF TreeMenuFit, SameOpen
<1>14. /\ r \in TreeMenuShape /\ r.lit = top.lit /\ r.lighted = top.lighted /\ r.expanded = top.expanded
       /\ r.actived = top.actived /\ r.lent = top.lent /\ r.hidden = top.hidden
       /\ r.opened = TRUE /\ r.shown = TRUE /\ r.watched = TRUE
  BY <1>13 DEF TreeMenuShape
<1>15. CM!open(w, t) = IF w.opened THEN w ELSE r
  BY DEF CM!open, top, nav, u
<1> HIDE DEF r
<1>16. TreeMenuFit(r) /\ TreeMenuOpen(r)
  BY <1>12, <1>14, TreeMenuAlike DEF TreeMenuOpen
<1> QED
  BY <1>15, <1>16, TreeMenusAre

\* The first option that can be is actived, as the options are reset in turn.
LEMMA TreeMenuActiveFirst ==
  ASSUME NEW w \in TreeMenus
  PROVE  CM!activeFirst(w) \in TreeMenus
<1> DEFINE list == MenuOptions[MenuRoot]
           tried == IF w.opened THEN [i \in 0..Len(list) |-> w] ELSE CM!resets(w, list)
           good == {i \in DOMAIN list : CM!isActivable(tried[i], list[i])}
           k == CHOOSE j \in good : \A l \in good : j <= l
<1>1. MenuRoot \in MenuList
  BY DEF MenuList
<1>2. Len(list) \in Nat /\ DOMAIN list = 1..Len(list) /\ \A i \in DOMAIN list : list[i] \in MenuOption
  BY <1>1, MenuLists
<1>3. tried \in [0..Len(list) -> TreeMenus]
  BY <1>1, TreeMenuResetList
<1>4. CM!activeFirst(w) = IF good = {} THEN tried[Len(list)] ELSE CM!active(tried[k], list[k])
  BY DEF CM!activeFirst
<1> HIDE DEF tried, list
<1>5. good \in SUBSET Nat /\ good \subseteq DOMAIN list
  BY <1>2
<1>6. good # {} => k \in good
  <2>1. SUFFICES ASSUME good # {} PROVE k \in good
    OBVIOUS
  <2> HIDE DEF good
  <2>2. \E j \in good : \A l \in good : j <= l
    BY <1>5, <2>1, LeastNat
  <2> QED
    BY <2>2
<1> HIDE DEF good, k
<1>7. CASE good = {}
  <2>1. tried[Len(list)] \in TreeMenus
    BY <1>2, <1>3
  <2> QED
    BY <1>4, <1>7, <2>1
<1>8. CASE good # {}
  <2>1. k \in DOMAIN list
    BY <1>5, <1>6, <1>8
  <2>0. k \in 0..Len(list)
    BY <1>2, <2>1
  <2>2. tried[k] \in TreeMenus /\ list[k] \in MenuOption
    BY <1>2, <1>3, <2>0, <2>1
  <2>3. CM!active(tried[k], list[k]) \in TreeMenus
    BY <2>2, TreeMenuActive, TreeMenusAre
  <2> QED
    BY <1>4, <1>8, <2>3
<1> QED
  BY <1>7, <1>8

TreeMenuKept == treeMenu \in TreeMenus /\ (treeMenu.opened <=> heard = {})

LEMMA TreeMenuOneOfEach ==
  ASSUME TreeMenuKept
  PROVE  CM!OneOfEach /\ CM!MenuOrTree
<1>1. treeMenu \in TreeMenuShape /\ TreeMenuFit(treeMenu) /\ TreeMenuOpen(treeMenu)
  BY TreeMenusAre DEF TreeMenuKept, TreeMenuFit
<1>2. treeMenu.expanded \subseteq MenuOption
  BY <1>1 DEF TreeMenuShape
<1>3. \A n \in treeMenu.expanded : CM!Beside(n) \cap treeMenu.expanded = {}
  <2>1. ASSUME NEW n \in treeMenu.expanded, NEW o \in CM!Beside(n) \cap treeMenu.expanded PROVE FALSE
    <3>1. o # n /\ MN!Above(o) = MN!Above(n)
      BY <1>2, <2>1, MenuBeside, TreeMenuTree
    <3> QED
      BY <1>1, <2>1, <3>1 DEF TreeMenuFit
  <2> QED
    BY <2>1
<1>4. CM!OneOfEach
  BY <1>1, <1>3 DEF CM!OneOfEach, TreeMenuFit, TreeMenuChosen
<1>5. CM!MenuOrTree
  BY <1>1 DEF CM!MenuOrTree, TreeMenuOpen, TreeMenuKept
<1> QED
  BY <1>4, <1>5

LEMMA TreeMenuFirst ==
  ASSUME CM!Init
  PROVE  TreeMenuKept
<1>1. /\ treeMenu.opened = FALSE /\ treeMenu.shown = FALSE /\ treeMenu.watched = FALSE
      /\ treeMenu.lit = {} /\ treeMenu.lighted = NoOption /\ treeMenu.expanded = {} /\ treeMenu.actived = {}
      /\ treeMenu.lent = {} /\ heard # {}
  BY DEF CM!Init
<1>2. treeMenu \in TreeMenuShape
  <2>1. MenuRoot \in MenuList
    BY DEF MenuList
  <2>2. CM!ToSet(MenuOptions[MenuRoot]) \in SUBSET MenuOption
    BY <2>1, MenuLists DEF CM!ToSet
  <2> QED
    BY <2>1, <2>2 DEF CM!Init, TreeMenuShape
<1>3. TreeMenuFit(treeMenu)
  BY <1>1, <1>2 DEF TreeMenuFit, TreeMenuChosen, TreeMenuLent
<1> QED
  BY <1>1, <1>2, <1>3 DEF TreeMenuKept, TreeMenus, TreeMenuOpen

\* When the menu opens the tree stops to hear, when it closes the tree hears.
LEMMA TreeMenuBecomes ==
  ASSUME TreeMenuKept, NEW v \in TreeMenus, CM!Becomes(v)
  PROVE  TreeMenuKept'
<1>1. v.shown = v.opened /\ v.opened \in BOOLEAN /\ treeMenu.opened \in BOOLEAN
  BY DEF TreeMenuKept, TreeMenus, TreeMenuShape, TreeMenuOpen
<1>2. treeMenu' = v
  BY DEF CM!Becomes
<1>3. v.opened <=> heard' = {}
  <2>1. CASE ~treeMenu.opened /\ v.opened
    BY <1>1, <2>1 DEF CM!Becomes
  <2>2. CASE treeMenu.opened /\ ~v.opened
    BY <1>1, <2>2 DEF CM!Becomes
  <2>3. CASE treeMenu.opened <=> v.opened
    <3>1. heard' = heard
      BY <1>1, <2>3 DEF CM!Becomes
    <3> QED
      BY <2>3, <3>1 DEF TreeMenuKept
  <2> QED
    BY <2>1, <2>2, <2>3
<1>4. (treeMenu \in TreeMenus)'
  BY <1>2 DEF TreeMenus, TreeMenuFit, TreeMenuOpen, TreeMenuChosen, TreeMenuLent, CM!Rivals, CM!HasSep, CM!Beside,
     CM!Above, MN!Above
<1> QED
  BY <1>2, <1>3, <1>4 DEF TreeMenuKept

\* An arrow leads to an option that is there, or to none.
LEMMA TreeMenuArrow ==
  ASSUME NEW key \in {"up", "down", "left", "right"}, treeMenu \in TreeMenus
  PROVE  CM!arrow(key) \in TreeMenus
<1> DEFINE n == treeMenu.focused
           o == CHOOSE o \in treeMenu.nav : TRUE
           list == MenuOptions[CM!Above(o)]
           i == IF n \in treeMenu.nav THEN CHOOSE k \in DOMAIN list : list[k] = n ELSE 0
           turned == SubSeq(list, i + 1, Len(list)) \o SubSeq(list, 1, i)
           back == CM!Reverse(SubSeq(list, 1, i - 1)) \o CM!Reverse(SubSeq(list, IF i = 0 THEN 1 ELSE i, Len(list)))
           next == CM!First(IF key = "down" THEN turned ELSE back, treeMenu.nav \ treeMenu.disabled)
           nav == IF treeMenu.nav = {} THEN treeMenu ELSE CM!naviguate(treeMenu, next)
           up == CM!Above(n)
<1>1. treeMenu \in TreeMenuShape /\ TreeMenuFit(treeMenu)
  BY TreeMenusAre DEF TreeMenuFit
<1>2. n \in MenuOption \cup {MenuRoot} /\ treeMenu.nav \subseteq MenuOption
  BY <1>1 DEF TreeMenuShape, MenuList
<1>3. n # MenuRoot => up \in MenuList
  BY <1>2, MenuAbove, TreeMenuTree
<1>4. nav \in TreeMenus
  <2>1. DOMAIN turned \in SUBSET Nat /\ DOMAIN back \in SUBSET Nat
    <3>1. ASSUME NEW s, NEW t PROVE DOMAIN (s \o t) \in SUBSET Nat
      OBVIOUS
    <3> HIDE DEF list, i
    <3> QED
      BY <3>1
  <2>2. next \in (treeMenu.nav \ treeMenu.disabled) \cup {NoOption}
    <3> HIDE DEF turned, back
    <3> QED
      BY <2>1, FirstIs
  <2> HIDE DEF next
  <2>3. TreeMenuFit(CM!naviguate(treeMenu, next)) /\ SameOpen(CM!naviguate(treeMenu, next), treeMenu)
    BY <1>1, <1>2, <2>2, NaviguateFit
  <2> QED
    BY <2>3, TreeMenusAre
<1>5. ASSUME NEW x PROVE CM!contract(treeMenu, x) \in TreeMenus
  BY <1>1, TreeMenuContract, TreeMenusAre
<1>6. ASSUME NEW x \in MenuOption \cup {NoOption}, NEW w \in TreeMenus PROVE CM!naviguate(w, x) \in TreeMenus
  BY NaviguateFit, TreeMenusAre
<1>7. CM!arrow(key) =
        IF key \in {"up", "down"} THEN nav
        ELSE IF n = MenuRoot THEN treeMenu
        ELSE IF key = "left"
          THEN IF n \in treeMenu.expanded THEN CM!contract(treeMenu, n)
               ELSE IF up = MenuRoot THEN treeMenu
               ELSE CM!naviguate(CM!contract(treeMenu, up), up)
          ELSE IF ~CM!Group(n) THEN treeMenu
               ELSE IF n \in treeMenu.expanded THEN CM!contract(treeMenu, n) ELSE CM!expand(treeMenu, n, TRUE)
  BY DEF CM!arrow
<1> HIDE DEF nav, up, n
<1>8. n # MenuRoot => CM!expand(treeMenu, n, TRUE) \in TreeMenus
  BY <1>2, TreeMenuExpand
<1>9. (n # MenuRoot /\ up # MenuRoot) => CM!naviguate(CM!contract(treeMenu, up), up) \in TreeMenus
  BY <1>3, <1>5, <1>6 DEF MenuList
<1>10. treeMenu \in TreeMenus
  BY <1>1, TreeMenusAre
<1>11. CASE key \in {"up", "down"}
  BY <1>4, <1>7, <1>11
<1>12. CASE key \notin {"up", "down"} /\ n = MenuRoot
  BY <1>7, <1>10, <1>12
<1>13. CASE key = "left" /\ n # MenuRoot
  BY <1>5, <1>7, <1>9, <1>10, <1>13
<1>14. CASE key = "right" /\ n # MenuRoot
  BY <1>5, <1>7, <1>8, <1>10, <1>14
<1> QED
  BY <1>11, <1>12, <1>13, <1>14

LEMMA TreeMenuStays ==
  ASSUME TreeMenuKept, CM!Next
  PROVE  TreeMenuKept'
<1> DEFINE w == treeMenu
<1>1. w \in TreeMenus /\ TreeMenuFit(w) /\ w \in TreeMenuShape
  BY TreeMenusAre DEF TreeMenuKept, TreeMenuFit
<1>2. ASSUME NEW v \in TreeMenus, CM!Becomes(v) PROVE TreeMenuKept'
  BY <1>2, TreeMenuBecomes
<1>3. ASSUME NEW v, TreeMenuFit(v), SameOpen(v, w) PROVE v \in TreeMenus
  BY <1>1, <1>3, TreeMenusAre
<1>4. w.focused \in MenuOption \cup {MenuRoot} /\ w.lighted \in MenuOption \cup {NoOption}
  BY <1>1 DEF TreeMenuShape, MenuList
<1>5. ASSUME NEW n \in MenuOption PROVE CM!demandActive(w, n) \in TreeMenus
  <2> DEFINE r == [w EXCEPT !.actived = @ \ {n}]
  <2>1. TreeMenuFit(r) /\ SameOpen(r, w)
    BY <1>1, TreeMenuUnactive
  <2>2. CM!demandActive(w, n) = IF n \in w.actived THEN (IF n \in Checkbox THEN r ELSE w)
                                ELSE IF CM!isActivable(w, n) THEN CM!active(w, n) ELSE w
    BY DEF CM!demandActive
  <2> HIDE DEF r
  <2>3. r \in TreeMenus
    BY <1>3, <2>1
  <2> QED
    BY <1>1, <2>2, <2>3, TreeMenuActive, TreeMenusAre
<1>6. CM!Closed(w) \in TreeMenus
  BY <1>1, TreeMenuClosed, TreeMenusAre
<1>7. CASE \E t \in Target : CM!contextmenu(t)
  BY <1>1, <1>2, <1>7, TreeMenuOpens DEF CM!contextmenu
<1>8. CASE \E t \in Target : CM!dblclick(t)
  <2>1. PICK t \in Target : CM!dblclick(t)
    BY <1>8
  <2> DEFINE r == [w EXCEPT !.target = t]
  <2>2. /\ r \in TreeMenuShape /\ r.lit = w.lit /\ r.lighted = w.lighted /\ r.expanded = w.expanded
        /\ r.actived = w.actived /\ r.lent = w.lent /\ r.hidden = w.hidden
        /\ r.opened = w.opened /\ r.shown = w.shown /\ r.watched = w.watched
    BY <1>1 DEF TreeMenuShape
  <2>3. CM!Becomes(CM!activeFirst(r))
    BY <2>1 DEF CM!dblclick, CM!updateTarget
  <2> HIDE DEF r
  <2>4. r \in TreeMenus
    BY <1>1, <1>3, <2>2, TreeMenuAlike DEF SameOpen
  <2> QED
    BY <1>2, <2>3, <2>4, TreeMenuActiveFirst
<1>9. CASE \E n \in MenuOption : CM!mousedown(n)
  BY <1>1, <1>2, <1>9, TreeMenuExpand DEF CM!mousedown
<1>10. CASE \E n \in MenuOption : CM!mousemove(n)
  <2>1. PICK n \in MenuOption : CM!mousemove(n)
    BY <1>10
  <2> DEFINE f == CM!focus(w, n)
             v == IF n \in w.lit THEN w ELSE CM!light(f, n)
  <2>2. CM!Becomes(CM!setTimeout(v, n, "expand"))
    BY <2>1 DEF CM!mousemove
  <2>3. TreeMenuFit(f) /\ SameOpen(f, w)
    BY <1>1, MenuFocusFit DEF MenuList
  <2> HIDE DEF f
  <2>4. TreeMenuFit(CM!light(f, n)) /\ SameOpen(CM!light(f, n), f)
    BY <2>3, TreeMenuLight
  <2>5. TreeMenuFit(v) /\ SameOpen(v, w)
    BY <1>1, <2>3, <2>4 DEF SameOpen
  <2> HIDE DEF v
  <2>6. TreeMenuFit(CM!setTimeout(v, n, "expand")) /\ SameOpen(CM!setTimeout(v, n, "expand"), v)
    BY <2>5, MenuTimerFit
  <2> QED
    BY <1>2, <1>3, <2>2, <2>5, <2>6 DEF SameOpen
<1>11. CASE \E n \in MenuOption : CM!click(n)
  BY <1>2, <1>5, <1>11 DEF CM!click
<1>12. CASE \E n \in MenuOption : CM!timeout(n)
  <2>1. PICK n \in MenuOption : CM!timeout(n)
    BY <1>12
  <2> DEFINE v == CM!clearTimeout(w, n)
  <2>2. TreeMenuFit(v) /\ SameOpen(v, w)
    BY <1>1, MenuTimerFit
  <2>3. CM!Becomes(IF n \in w.disabled THEN v
                   ELSE IF w.timer[n] = "expand" THEN (IF n \in w.expanded THEN v ELSE CM!expand(v, n, FALSE))
                   ELSE IF n \in w.expanded THEN CM!contract(v, n) ELSE v)
    BY <2>1 DEF CM!timeout
  <2> HIDE DEF v
  <2>4. v \in TreeMenus
    BY <1>3, <2>2
  <2>5. CM!expand(v, n, FALSE) \in TreeMenus
    BY <2>4, TreeMenuExpand
  <2>6. CM!contract(v, n) \in TreeMenus
    BY <2>2, <2>4, TreeMenuContract, TreeMenusAre
  <2> QED
    BY <1>2, <2>3, <2>4, <2>5, <2>6
<1>13. CASE CM!blur
  BY <1>2, <1>6, <1>13 DEF CM!blur
<1>14. CASE CM!mouseout
  <2> DEFINE n == w.lighted
             v == CM!Unlight(w, n)
  <2>1. n \in MenuOption /\ CM!Becomes(CM!setTimeout(v, n, "contract"))
    BY <1>4, <1>14 DEF CM!mouseout
  <2> HIDE DEF n
  <2>2. TreeMenuFit(v) /\ SameOpen(v, w)
    BY <1>1, <2>1, MenuUnlight
  <2> HIDE DEF v
  <2>3. TreeMenuFit(CM!setTimeout(v, n, "contract")) /\ SameOpen(CM!setTimeout(v, n, "contract"), v)
    BY <2>1, <2>2, MenuTimerFit
  <2> QED
    BY <1>2, <1>3, <2>1, <2>2, <2>3 DEF SameOpen
<1>15. CASE CM!esc
  <2> DEFINE n == w.focused
             v == CM!focus(w, MenuRoot)
             u == CM!contract(w, CM!Above(n))
  <2>1. CM!Becomes(IF n = MenuRoot \/ CM!Above(n) = MenuRoot THEN CM!Closed(v) ELSE u)
    BY <1>15 DEF CM!esc
  <2>2. TreeMenuFit(v) /\ SameOpen(v, w)
    BY <1>1, MenuFocusFit DEF MenuList
  <2>3. TreeMenuFit(u) /\ SameOpen(u, w)
    BY <1>1, TreeMenuContract
  <2> HIDE DEF v, u, n
  <2>4. CM!Closed(v) \in TreeMenus
    BY <1>3, <2>2, TreeMenuClosed, TreeMenusAre
  <2>5. u \in TreeMenus
    BY <1>3, <2>3
  <2> QED
    BY <1>2, <2>1, <2>4, <2>5
<1>16. CASE CM!enter
  <2>1. w.focused \in MenuOption
    BY <1>4, <1>16 DEF CM!enter
  <2> QED
    BY <1>2, <1>5, <1>16, <2>1 DEF CM!enter
<1>17. CASE \E key \in {"up", "down", "left", "right"} : CM!keydown(key)
  BY <1>1, <1>2, <1>17, TreeMenuArrow DEF CM!keydown
<1> QED
  BY <1>7, <1>8, <1>9, <1>10, <1>11, <1>12, <1>13, <1>14, <1>15, <1>16, <1>17 DEF CM!Next

LEMMA TreeMenuStutters ==
  ASSUME TreeMenuKept, UNCHANGED <<treeMenu, heard>>
  PROVE  TreeMenuKept'
BY DEF TreeMenuKept, TreeMenus, TreeMenuFit, TreeMenuOpen, TreeMenuChosen, TreeMenuLent, CM!Rivals, CM!HasSep,
   CM!Beside, CM!Above, MN!Above

(***************************************************************************)
(* In both menus, whatever the mouse, the keys and the timers do, one      *)
(* option is lit at each level, one group is open, one radio of a set is   *)
(* chosen; a shortcut is that of an option that is there; an event goes to *)
(* the menu of the tree or to the tree (menu.js of both trees of views).   *)
(***************************************************************************)
THEOREM MenusAreKept == ControlSpec => []MenusKept
<1> DEFINE Inv == MenuKept /\ ShortcutsKept /\ TreeMenuKept
<1>1. ControlInit => Inv
  BY MenuFirst, TreeMenuFirst DEF ControlInit
<1>2. Inv /\ [ControlNext]_controlVars => Inv'
  <2> SUFFICES ASSUME Inv, [ControlNext]_controlVars PROVE Inv'
    OBVIOUS
  <2>1. MN!Next \/ UNCHANGED <<menu, shortcut, inserted>>
    BY DEF ControlNext, DemonNext, ManagerNext, MenuNext, TreeMenuNext, controlVars, menuVars
  <2>2. CM!Next \/ UNCHANGED <<treeMenu, heard>>
    BY DEF ControlNext, DemonNext, ManagerNext, MenuNext, TreeMenuNext, controlVars, treeMenuVars
  <2>3. MenuKept' /\ ShortcutsKept'
    BY <2>1, MenuStays, MenuStutters
  <2>4. TreeMenuKept'
    BY <2>2, TreeMenuStays, TreeMenuStutters
  <2> QED
    BY <2>3, <2>4
<1>3. Inv => MenusKept
  BY MenuOneOfEach, TreeMenuOneOfEach DEF MenusKept, ShortcutsKept
<1> QED
  BY <1>1, <1>2, <1>3, PTL DEF ControlSpec
=============================================================================
