------------------------------- MODULE Paths -------------------------------
(***************************************************************************)
(* The paths of the client (path.js).  A path is the sequence of what is   *)
(* between its slashes: "/a/" is <<"", "a", "">> and "" is <<"">>.  The    *)
(* operators are pure; the behaviours only grow two paths, so that all the *)
(* short ones are met.                                                     *)
(***************************************************************************)
EXTENDS Integers, SequencesExt

CONSTANTS
  Segment,      \* "", ".", ".." and names
  MaxFrom, MaxTo \* bounds: segments of the two paths

VARIABLES from, to

Init == from = <<"">> /\ to = <<"">>
Next ==
  \/ Len(from) < MaxFrom /\ (\E s \in Segment : from' \in {Append(from, s), <<s>>}) /\ UNCHANGED to
  \/ Len(to) < MaxTo /\ (\E s \in Segment : to' \in {Append(to, s), <<s>>}) /\ UNCHANGED from

Spec == Init /\ [][Next]_<<from, to>>

-----------------------------------------------------------------------------
\* Mutants: a ".." takes another ".." away; the names of both are compared
\* past the shorter one's end.
climbs_any(d, keepBlanks) == d.dirs # <<>> /\ d.prev \notin {".", "none"}
same_less(p, q, n) == \A i \in 1..(n - 1) : p[i] = q[i]

\* May a ".." take the directory before it away?  prev is "none" when there is none.
climbs(d, keepBlanks) == d.dirs # <<>> /\ d.prev \notin {"..", ".", "none"} /\ (d.prev # "" \/ keepBlanks)
same(p, q, n) == \A i \in 1..n : p[i] = q[i]

\* One turn of the loop of normalizeArray, for the part i of j; d is what the
\* loop has so far.
turn(d, dir, i, j, keepBlanks) ==
  LET prevOf(dirs) == IF dirs = <<>> THEN "none" ELSE Last(dirs)
      popped == Front(d.dirs)
      pushed == Append(IF d.prev = "." THEN popped ELSE d.dirs, dir)
  IN IF dir = "" /\ i \notin {1, j} /\ ~keepBlanks THEN d
     ELSE IF dir = "." /\ d.prev # "none" THEN d
     ELSE IF d.dirs = <<"">> /\ dir \in {".", ".."} THEN d
     ELSE IF dir = ".." /\ climbs(d, keepBlanks) THEN [dirs |-> popped, prev |-> prevOf(popped)]
     ELSE [dirs |-> pushed, prev |-> dir]

normalizeArray(parts, keepBlanks) ==
  FoldLeft(LAMBDA d, i : turn(d, parts[i], i, Len(parts), keepBlanks),
           [dirs |-> <<>>, prev |-> "none"], [i \in DOMAIN parts |-> i]).dirs

\* The parts of what split makes of the joined parts: no part is an empty text.
normalize(path) ==
  LET dirs == normalizeArray(path, FALSE) IN IF dirs = <<>> THEN <<"">> ELSE dirs

absolute(path) == Len(path) > 1 /\ path[1] = ""

\* Without the slashes at the end; "/" itself keeps its own.
unslashed(path) ==
  IF path = <<"", "">> \/ Last(path) # "" THEN path
  ELSE LET kept == {0} \union {i \in DOMAIN path : path[i] # ""}
           n == CHOOSE i \in kept : \A k \in kept : k <= i
       IN IF n = 0 THEN <<"">> ELSE SubSeq(path, 1, n)

dirname(path) ==
  LET p == unslashed(path)
  IN CASE Len(p) = 1 -> <<".">>
       [] Len(p) = 2 /\ p[1] = "" -> <<"", "">>
       [] OTHER -> Front(p)

basename(path) == Last(path)

\* resolve(a, b): from the last argument to the first and then "./", until an
\* absolute one.  An empty argument is skipped without leaving its turn: the
\* loop does not end.
hangs(a, b) == b = <<"">> \/ (a = <<"">> /\ ~absolute(b))
resolve(a, b) ==
  LET whole == IF absolute(b) THEN b ELSE IF absolute(a) THEN a \o b ELSE <<".">> \o a \o b
      parts == SelectSeq(whole, LAMBDA s : s # "")
      out == normalizeArray(parts, ~absolute(whole))
  IN IF absolute(whole) THEN <<"">> \o (IF out = <<>> THEN <<"">> ELSE out)
     ELSE IF out \in {<<>>, <<"">>} THEN <<".">> ELSE out

\* slice is given a length where it wants an end: with a slash in front, the
\* last name goes with it.
trim(parts) ==
  LET names == {i \in DOMAIN parts : parts[i] # ""}
      start == CHOOSE i \in names : \A k \in names : i <= k
      stop == CHOOSE i \in names : \A k \in names : k <= i
  IN IF names = {} THEN <<>> ELSE SubSeq(parts, start, stop - start + 1)

relative(a, b) ==
  LET p == trim(normalize(a))
      q == trim(normalize(b))
      short == IF Len(p) < Len(q) THEN Len(p) ELSE Len(q)
      n == CHOOSE k \in 0..short : same(p, q, k) /\ \A m \in 0..short : same(p, q, m) => m <= k
  IN [i \in 1..(Len(p) - n) |-> ".."] \o SubSeq(q, n + 1, Len(q))

-----------------------------------------------------------------------------
\* Where a path leads from a directory that is deep enough: a walk.
Start == <<"x", "x", "x", "x", "x", "x", "x", "x">>
Walk(dir, path) ==
  FoldLeft(LAMBDA d, s : CASE s \in {"", "."} -> d
                           [] s = ".." -> IF d = <<>> THEN d ELSE Front(d)
                           [] OTHER -> Append(d, s), dir, path)
Lead(path) == IF absolute(path) THEN Walk(<<>>, path) ELSE Walk(Start, path)

(* Normalizing, resolving and cutting a path in dirname and basename do not *)
(* change where it leads, but that an absolute path that leads to the root *)
(* by dots or by names that are taken back, as /. and /a/.. do, is         *)
(* normalized to the empty one, which is excused; and relative(from, to),  *)
(* walked from from, leads to to when both are relative and from has no    *)
(* dots left.                                                              *)
SamePlace ==
  LET normal == normalize(from)
  IN /\ Lead(normal) = Lead(from) \/ (absolute(from) /\ Lead(from) = <<>> /\ normal = <<"">>)
     /\ normalize(normal) = normal
     /\ ~hangs(from, to) => Lead(resolve(from, to)) = IF absolute(to) THEN Lead(to) ELSE Walk(Lead(from), to)
     /\ Last(from) # "" => Walk(Lead(dirname(from)), <<basename(from)>>) = Lead(from)
     /\ ~absolute(from) /\ ~absolute(to) /\ ToSet(normal) \cap {".", ".."} = {}
          => Walk(Lead(from), relative(from, to)) = Lead(to)
=============================================================================
