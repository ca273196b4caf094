--------------------------- MODULE ArrayObserver ---------------------------
(***************************************************************************)
(* An array under observation: the changes made to it, the records the     *)
(* engine keeps of them (Array.observe, external), and the check of        *)
(* vrac/Object.observe/ArrayObserver/ArrayObserver.js, which may run after *)
(* any of them: with the records where the engine has Array.observe, with  *)
(* a copy of the array where it has not.                                   *)
(***************************************************************************)
EXTENDS ArraySplice, FiniteSets

CONSTANTS
  Value,       \* what an array holds
  Undefined,   \* the value of a hole
  MaxLength,   \* bound: the length of the array
  MaxPut,      \* bound: the values one splice takes or puts
  MaxRecords   \* bound: the changes between two checks

VARIABLES
  array,       \* value_
  oldObject,   \* oldObject_: the array as it was at the last check
  records      \* the change records since then

vars == <<array, oldObject, records>>

Init == array = << >> /\ oldObject = << >> /\ records = << >>

Places == 0..(Len(array) - 1)
Record(type, index, old) == [type |-> type, index |-> index, old |-> old]
Recorded(r) ==
  /\ Len(records) < MaxRecords
  /\ records' = Append(records, r)
  /\ UNCHANGED oldObject

\* array.splice(index, count, put...): no record when it does nothing.
ChangeSplice(index, count, put) ==
  /\ index + count <= Len(array)
  /\ count + Len(put) > 0
  /\ Len(array) - count + Len(put) <= MaxLength
  /\ Recorded([type |-> "splice", index |-> index, added |-> Len(put),
               removed |-> Slice(array, index, index + count)])
  /\ array' = SpliceArray(array, index, count, put)

\* array[index] = v
ChangeUpdate(index, v) ==
  /\ At(array, index) # v
  /\ Recorded(Record(IF At(array, index) = Undefined THEN "add" ELSE "update", index, At(array, index)))
  /\ array' = [array EXCEPT ![index + 1] = v]

\* delete array[index]
ChangeDelete(index) ==
  /\ At(array, index) # Undefined
  /\ Recorded(Record("delete", index, At(array, index)))
  /\ array' = [array EXCEPT ![index + 1] = Undefined]

\* check_: the callback is given the splices, and the next check starts here.
Check == oldObject' = array /\ records' = << >> /\ UNCHANGED array

Next ==
  \/ \E index \in 0..Len(array), count \in 0..MaxPut, put \in SeqOf(Value, MaxPut) :
       ChangeSplice(index, count, put)
  \/ \E index \in Places, v \in Value : ChangeUpdate(index, v)
  \/ \E index \in Places : ChangeDelete(index)
  \/ Check

Spec == Init /\ [][Next]_vars

-----------------------------------------------------------------------------
FromRecords == ProjectArraySplices(array, records)
FromCopy == CalculateSplices(array, oldObject)

\* Whatever was done to the array, the splices made of the records turn what
\* the observer knows into what is there (mergeSplice, ArrayObserver.js:97-168).
RecordsReplay == ApplySplices(oldObject, array, FromRecords) = array

\* And so do the splices made by comparing with a copy
\* (calcSplices, ArraySplice.js:121-199).
CopyReplays == ApplySplices(oldObject, array, FromCopy) = array

Replays == RecordsReplay /\ CopyReplays

\* The length of the longest part two arrays have in common, in order.
Common(a, b) ==
  LET Parts(s) == {SelectSeq([i \in DOMAIN s |-> <<i, s[i]>>], LAMBDA e : e[1] \in S) : S \in SUBSET DOMAIN s}
      Values(s) == {[i \in DOMAIN p |-> p[i][2]] : p \in Parts(s)}
  IN  CHOOSE n \in {Len(p) : p \in Values(a) \cap Values(b)} :
        \A p \in Values(a) \cap Values(b) : Len(p) <= n

Weight(splices) == FoldLeft(LAMBDA n, s : n + s.added + Len(s.removed), 0, splices)

\* "the minimal set of splices can be synthesized": as many of the values as
\* possible are left where they are (ArraySplice.js:1-12, 111-120).
CopyMinimal ==
  Weight(FromCopy) = Len(array) + Len(oldObject) - 2 * Common(array, oldObject)

Ascending(splices) ==
  \A i, j \in DOMAIN splices : i < j => splices[i].index + splices[i].added <= splices[j].index

\* The splices are in ascending order and none starts in another: "kept in
\* ascending index order" (ArraySplice.js:106), which applySplices needs.
SplicesAscend == Ascending(FromCopy) /\ Ascending(FromRecords)

SplicesTidy == CopyMinimal /\ SplicesAscend
=============================================================================
