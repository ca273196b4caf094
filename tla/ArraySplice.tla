---------------------------- MODULE ArraySplice ----------------------------
(***************************************************************************)
(* How an array that changed is described: a list of splices <<index,      *)
(* removed, added>>, found either by comparing the array with a copy of    *)
(* what it was (vrac/Object.observe/ArrayObserver/ArraySplice.js) or by    *)
(* merging the records of what was done to it (ArrayObserver.js).          *)
(*                                                                         *)
(* There is no variable here.  An index counts from 0, as in the code.     *)
(***************************************************************************)
EXTENDS Integers, SequencesExt

Lesser(a, b) == IF a < b THEN a ELSE b

\* newSplice
Splice(index, removed, added) == [index |-> index, removed |-> removed, added |-> added]

At(list, index) == list[index + 1]
Slice(list, from, to) == SubSeq(list, from + 1, to)

\* Array.prototype.splice
SpliceArray(list, index, count, put) ==
  Slice(list, 0, index) \o put \o Slice(list, index + count, Len(list))

\* applySplices: `previous' after the splices is `current'.
ApplySplices(previous, current, splices) ==
  FoldLeft(LAMBDA list, s :
             SpliceArray(list, s.index, Len(s.removed), Slice(current, s.index, s.index + s.added)),
           previous, splices)

-----------------------------------------------------------------------------
(***************************************************************************)
(* Two arrays compared.                                                    *)
(***************************************************************************)

\* Fault: an update is one edit.
EditDistancesUpdate(current, old) ==
  LET d[i \in 0..Len(old), j \in 0..Len(current)] ==
        IF i = 0 THEN j
        ELSE IF j = 0 THEN i
        ELSE IF current[j] = old[i] THEN d[i - 1, j - 1]
        ELSE Lesser(d[i - 1, j - 1], Lesser(d[i - 1, j], d[i, j - 1])) + 1
  IN  d

\* calcEditDistances: an update is two edits.
EditDistances(current, old) ==
  LET d[i \in 0..Len(old), j \in 0..Len(current)] ==
        IF i = 0 THEN j
        ELSE IF j = 0 THEN i
        ELSE IF current[j] = old[i] THEN d[i - 1, j - 1]
        ELSE Lesser(d[i - 1, j] + 1, d[i, j - 1] + 1)
  IN  d

\* spliceOperationsFromEditDistances: from the last place to the first one,
\* always to the least distance, on the diagonal when there is a choice.
Edits(d, rows, columns) ==
  LET walk[i \in 0..rows, j \in 0..columns] ==
        IF i = 0 /\ j = 0 THEN << >>
        ELSE IF i = 0 THEN Append(walk[i, j - 1], "add")
        ELSE IF j = 0 THEN Append(walk[i - 1, j], "delete")
        ELSE LET northWest == d[i - 1, j - 1]
                 west == d[i - 1, j]
                 north == d[i, j - 1]
                 min == Lesser(Lesser(west, north), northWest)
             IN  IF min = northWest
                   THEN Append(walk[i - 1, j - 1],
                               IF northWest = d[i, j] THEN "leave" ELSE "update")
                   ELSE IF min = west THEN Append(walk[i - 1, j], "delete")
                   ELSE Append(walk[i, j - 1], "add")
  IN  walk[rows, columns]

\* sharedPrefix
SharedPrefix(current, old, limit) ==
  LET same == {n \in 0..limit : \A i \in 1..n : current[i] = old[i]}
  IN  CHOOSE n \in same : \A m \in same : m <= n

\* sharedSuffix
SharedSuffix(current, old, limit) == SharedPrefix(Reverse(current), Reverse(old), limit)

\* The splices of a list of edits; a splice is open between two "leave".
SplicesOf(edits, start, old) ==
  LET Step(acc, edit) ==
        IF edit = "leave"
          THEN [done |-> acc.done \o acc.open, open |-> << >>,
                index |-> acc.index + 1, oldIndex |-> acc.oldIndex + 1]
          ELSE LET s == IF acc.open = << >> THEN Splice(acc.index, << >>, 0) ELSE acc.open[1]
                   adds == edit \in {"update", "add"}
                   takes == edit \in {"update", "delete"}
               IN  [done |-> acc.done,
                    open |-> <<[s EXCEPT !.added = IF adds THEN @ + 1 ELSE @,
                                         !.removed = IF takes THEN Append(@, At(old, acc.oldIndex)) ELSE @]>>,
                    index |-> IF adds THEN acc.index + 1 ELSE acc.index,
                    oldIndex |-> IF takes THEN acc.oldIndex + 1 ELSE acc.oldIndex]
      end == FoldLeft(Step, [done |-> << >>, open |-> << >>, index |-> start, oldIndex |-> 0], edits)
  IN  end.done \o end.open

\* calcSplices of the part from..to of `current' with the whole of `old'.
CalcSplices(current, from, to, old) ==
  LET minLength == Lesser(to - from, Len(old))
      prefix == IF from = 0 THEN SharedPrefix(current, old, minLength) ELSE 0
      suffix == IF to = Len(current)
                  THEN SharedSuffix(current, old, minLength - prefix) ELSE 0
      start == from + prefix
      new == Slice(current, start, to - suffix)
      was == Slice(old, prefix, Len(old) - suffix)
  IN  CASE new = << >> /\ was = << >> -> << >>
        [] new = << >> /\ was # << >> -> <<Splice(start, was, 0)>>
        [] new # << >> /\ was = << >> -> <<Splice(start, << >>, Len(new))>>
        [] OTHER -> SplicesOf(Edits(EditDistances(new, was), Len(was), Len(new)), start, was)

CalculateSplices(current, previous) == CalcSplices(current, 0, Len(current), previous)

-----------------------------------------------------------------------------
(***************************************************************************)
(* The records merged.                                                     *)
(***************************************************************************)

\* -1 when the spans are apart, else the length they share.
Intersect(start1, end1, start2, end2) ==
  IF end1 < start2 \/ end2 < start1 THEN -1
  ELSE IF end1 = start2 \/ end2 = start1 THEN 0
  ELSE IF start1 < start2 THEN Lesser(end1, end2) - start2
  ELSE Lesser(end1, end2) - start1

\* What mergeSplice leaves of the new splice s and of the earlier one c it
\* touches: c.removed with the parts of s.removed that stick out of c.
Merged(s, c, shared) ==
  LET head == IF s.index < c.index THEN Slice(s.removed, 0, Lesser(c.index - s.index, Len(s.removed))) ELSE << >>
      tail == IF s.index + Len(s.removed) > c.index + c.added
                THEN Slice(s.removed, c.index + c.added - s.index, Len(s.removed)) ELSE << >>
  IN  Splice(Lesser(s.index, c.index), head \o c.removed \o tail, s.added + c.added - shared)

\* Fault: the splices after a merged one keep their place.
MergeSpliceStill(splices, new) ==
  LET Step(acc, c) ==
        LET shared == Intersect(acc.splice.index, acc.splice.index + Len(acc.splice.removed), c.index, c.index + c.added)
        IN  IF acc.inserted \/ (shared < 0 /\ acc.splice.index >= c.index)
              THEN [acc EXCEPT !.list = Append(@, c)]
            ELSE IF shared >= 0 THEN [acc EXCEPT !.splice = Merged(@, c, shared)]
            ELSE [acc EXCEPT !.inserted = TRUE, !.list = @ \o <<acc.splice, c>>]
      end == FoldLeft(Step, [list |-> << >>, splice |-> new, inserted |-> FALSE], splices)
  IN  IF end.inserted THEN end.list ELSE Append(end.list, end.splice)

\* mergeSplice: the new splice swallows the ones it touches, in ascending
\* order, and moves the ones after it.
MergeSplice(splices, new) ==
  LET Step(acc, e) ==
        LET c == [e EXCEPT !.index = @ + acc.offset]
            s == acc.splice
            shared == Intersect(s.index, s.index + Len(s.removed), c.index, c.index + c.added)
            noop == s.added + c.added - shared = 0 /\ Len(s.removed) + Len(c.removed) - shared = 0
            grown == s.added - Len(s.removed)
        IN  IF acc.inserted THEN [acc EXCEPT !.list = Append(@, c)]
            ELSE IF shared >= 0
              THEN [acc EXCEPT !.offset = @ - (c.added - Len(c.removed)),
                               !.inserted = noop,
                               !.splice = IF noop THEN s ELSE Merged(s, c, shared)]
            ELSE IF s.index < c.index
              THEN [acc EXCEPT !.inserted = TRUE, !.offset = @ + grown,
                               !.list = @ \o <<s, [c EXCEPT !.index = @ + grown]>>]
            ELSE [acc EXCEPT !.list = Append(@, c)]
      end == FoldLeft(Step, [list |-> << >>, splice |-> new, inserted |-> FALSE, offset |-> 0], splices)
  IN  IF end.inserted THEN end.list ELSE Append(end.list, end.splice)

\* createInitialSplices: a record of another type than splice stands for the
\* splice of one value.
CreateInitialSplices(records) ==
  FoldLeft(LAMBDA splices, r :
             MergeSplice(splices, IF r.type = "splice" THEN Splice(r.index, r.removed, r.added)
                                  ELSE Splice(r.index, <<r.old>>, 1)),
           << >>, records)

\* projectArraySplices: what a merged splice removed is compared with what is
\* there in its place.
ProjectArraySplices(array, records) ==
  LET Project(s) ==
        IF s.added = 1 /\ Len(s.removed) = 1
          THEN IF s.removed[1] = At(array, s.index) THEN << >> ELSE <<s>>
          ELSE CalcSplices(array, s.index, s.index + s.added, s.removed)
  IN  FoldLeft(LAMBDA list, s : list \o Project(s), << >>, CreateInitialSplices(records))
=============================================================================
