------------------------- MODULE PageResolverProofs -------------------------
(***************************************************************************)
(* For paths of any length and every file system: the page that answers is *)
(* the first candidate that is a file, and only a path without one goes to *)
(* the next middleware.                                                    *)
(*                                                                         *)
(* PageFound looks at the end of the search.  Searched says what is true   *)
(* in the middle of it: nothing that was asked before is a file, and the   *)
(* reasons the two Promise.first keep are those of a file system that      *)
(* works.                                                                  *)
(***************************************************************************)
EXTENDS PageResolver, TLAPS

\* Where the search stands.
Place ==
  /\ path \in Paths /\ Len(path) \in Nat /\ Len(path) >= 1
  /\ DOMAIN files = Candidates(path) \cup Documented(path)
  /\ dir \in 1..Len(path) /\ way \in {"file", "index"}

\* No file comes before way w of directory d; and the candidate is the first file.
Missed(d, w) == \A c \in InOrder(d, w) : files[Candidate(path, c[1], c[2])] # "file"
Hit(candidate) ==
  /\ files[candidate] = "file"
  /\ \E d \in 1..Len(path), w \in ToSet(Ways) :
       candidate = Candidate(path, d, w) /\ Missed(d, w)

\* While it goes on, no file was met.
Searched ==
  outcome.how = "pending" =>
    /\ Missed(dir, way) /\ answer = "none"
    /\ way = "file" => innerReason = "undefined"

\* The next middleware is asked when everything was, or the file system failed.
Exhausted ==
  answer = "next" /\ Works =>
    \A c \in Candidates(path) : files[c] # "file"

\* There is an error when the file system failed, a page when there is a file.
Answered ==
  /\ answer = "error" => ~Works
  /\ answer \in {"page", "app"} => outcome.how = "resolved"
  /\ answer \in {"none", "next", "error", "page", "app"}

Resolved == outcome.how = "resolved" => Hit(outcome.what)

PageInv == Place /\ Searched /\ Exhausted /\ Answered /\ Resolved

-----------------------------------------------------------------------------
LEMMA TwoWays == ToSet(Ways) = {"file", "index"}
BY DEF ToSet, Ways

LEMMA CandidateOfPath ==
  ASSUME NEW p, NEW d \in 1..Len(p), NEW w \in {"file", "index"}
  PROVE  Candidate(p, d, w) \in Candidates(p)
BY TwoWays DEF Candidates

LEMMA EveryCandidate ==
  ASSUME NEW p, NEW c \in Candidates(p)
  PROVE  \E d \in 1..Len(p), w \in {"file", "index"} : c = Candidate(p, d, w)
BY TwoWays DEF Candidates

LEMMA Bounds ==
  ASSUME NEW n \in Nat, NEW d \in 1..n, NEW e \in 1..n
  PROVE  /\ d < e + 1 => d < e \/ d = e
         /\ e < n => e + 1 \in 1..n
         /\ e = n => d < e \/ d = e
         /\ e < n \/ e = n
OBVIOUS

\* Only the search moves: what there is to find stays.
LEMMA Frame ==
  ASSUME UNCHANGED <<path, files>>
  PROVE  /\ \A d, w : Missed(d, w)' = Missed(d, w)
         /\ \A candidate : Hit(candidate)' = Hit(candidate)
         /\ Exhausted' = (answer' = "next" /\ Works
                            => \A c \in Candidates(path) : files[c] # "file")
         /\ Answered' = (/\ answer' = "error" => ~Works
                         /\ answer' \in {"page", "app"} => outcome'.how = "resolved"
                         /\ answer' \in {"none", "next", "error", "page", "app"})
         /\ Place /\ dir' \in 1..Len(path) /\ way' \in {"file", "index"} => Place'
<1>1. /\ \A d, w : InOrder(d, w)' = InOrder(d, w)
      /\ \A d, w : Candidate(path, d, w)' = Candidate(path, d, w)
      /\ Candidates(path)' = Candidates(path) /\ Documented(path)' = Documented(path)
  BY DEF InOrder, Candidate, Page, Candidates, Documented
<1>2. Works' = Works
  BY DEF Works
<1> QED BY <1>1, <1>2 DEF Missed, Hit, Exhausted, Answered, Place

LEMMA InitInv == Init => PageInv
<1> SUFFICES ASSUME Init PROVE PageInv
  OBVIOUS
<1>1. Len(path) \in Nat /\ Len(path) >= 1
  <2>1. path \in Seq(STRING) /\ path # << >>
    BY PathsAssumption DEF Init
  <2> QED BY <2>1
<1>2. Place
  BY <1>1 DEF Init, Place
<1>3. InOrder(dir, way) = {}
  BY <1>1, TwoWays DEF Init, InOrder
<1> QED
  BY <1>2, <1>3 DEF Init, PageInv, Searched, Missed, Exhausted, Answered, Resolved

-----------------------------------------------------------------------------
\* One lookup failed to find a file.
LEMMA RejectedInv ==
  ASSUME PageInv, outcome.how = "pending", NEW reason \in {"not found", "failure"},
         LookupRejects(reason), UNCHANGED <<path, files>>,
         files[Candidate(path, dir, way)] # "file",
         reason = "failure" => files[Candidate(path, dir, way)] = "failure"
  PROVE  PageInv'
<1> USE DEF PageInv
<1>1. /\ Candidate(path, dir, way) \in Candidates(path) /\ answer = "none"
      /\ Len(path) \in Nat /\ dir \in 1..Len(path) /\ way \in {"file", "index"}
  BY CandidateOfPath DEF Place, Searched
<1>2. ASSUME NEW d \in 1..Len(path), NEW w \in {"file", "index"},
             d < dir \/ (d = dir /\ (way = "index" \/ w = "file"))
      PROVE  files[Candidate(path, d, w)] # "file"
  <2>1. CASE d = dir /\ w = way
    BY <2>1
  <2>2. CASE ~(d = dir /\ w = way)
    <3> DEFINE c == <<d, w>>
    <3>1. c \in (1..Len(path)) \X ToSet(Ways) /\ c[1] = d /\ c[2] = w
      BY TwoWays
    <3>2. c[1] < dir \/ (c[1] = dir /\ way = "index" /\ c[2] = "file")
      BY <1>1, <1>2, <2>2
    <3> HIDE DEF c
    <3>3. c \in InOrder(dir, way)
      BY <3>1, <3>2 DEF InOrder
    <3> QED BY <3>1, <3>3 DEF Searched, Missed
  <2> QED BY <2>1, <2>2
<1>3. CASE /\ way = "file" /\ way' = "index" /\ UNCHANGED <<dir, outcome, answer>>
  <2>1. Missed(dir, "index")
    <3> SUFFICES ASSUME NEW c \in InOrder(dir, "index") PROVE files[Candidate(path, c[1], c[2])] # "file"
      BY DEF Missed
    <3>1. c[1] \in 1..Len(path) /\ c[2] \in {"file", "index"} /\ (c[1] < dir \/ (c[1] = dir /\ c[2] = "file"))
      BY TwoWays DEF InOrder
    <3> QED BY <1>2, <3>1
  <2> QED
    BY <1>1, <1>3, <2>1, Frame DEF Searched, Resolved
<1>4. CASE /\ way = "index" /\ way' = "file" /\ dir < Len(path) /\ dir' = dir + 1
           /\ innerReason' = "undefined" /\ UNCHANGED <<outcome, answer>>
  <2>1. Missed(dir + 1, "file")
    <3> SUFFICES ASSUME NEW c \in InOrder(dir + 1, "file") PROVE files[Candidate(path, c[1], c[2])] # "file"
      BY DEF Missed
    <3>1. c[1] \in 1..Len(path) /\ c[2] \in {"file", "index"} /\ c[1] < dir + 1
      BY TwoWays DEF InOrder
    <3>2. c[1] < dir \/ c[1] = dir
      BY <1>1, <3>1, Bounds
    <3> QED BY <1>2, <1>4, <3>1, <3>2
  <2>2. dir + 1 \in 1..Len(path)
    BY <1>1, <1>4, Bounds
  <2> QED
    BY <1>1, <1>4, <2>1, <2>2, Frame DEF Searched, Resolved
<1>5. ASSUME NEW why, Rejects(why),
             (why = "not found" /\ way = "index" /\ dir = Len(path)) \/ reason = "failure"
      PROVE  PageInv'
  <2>1. /\ outcome'.how = "rejected" /\ answer' \in {"next", "error"} /\ UNCHANGED <<dir, way>>
        /\ why = "not found" => answer' = "next"
    BY <1>5 DEF Rejects, Filtered
  <2>2. \/ ~Works
        \/ why = "not found" /\ \A c \in Candidates(path) : files[c] # "file"
    <3>1. CASE reason = "failure"
      BY <1>1, <3>1 DEF Place, Works
    <3>2. CASE why = "not found" /\ way = "index" /\ dir = Len(path)
      <4> SUFFICES ASSUME NEW c \in Candidates(path) PROVE files[c] # "file"
        BY <3>2
      <4>1. PICK d \in 1..Len(path), w \in {"file", "index"} : c = Candidate(path, d, w)
        BY EveryCandidate
      <4>2. d < dir \/ d = dir
        BY <1>1, <3>2, Bounds
      <4> QED BY <1>2, <3>2, <4>1, <4>2
    <3> QED BY <1>5, <3>1, <3>2
  <2>3. Place'
    BY <1>1, <2>1, Frame
  <2>4. Exhausted' /\ Answered'
    BY <2>1, <2>2, Frame
  <2> QED
    BY <2>1, <2>3, <2>4 DEF Searched, Resolved
<1>6. dir < Len(path) \/ dir = Len(path)
  BY <1>1, Bounds
<1> QED
  BY <1>1, <1>3, <1>4, <1>5, <1>6 DEF LookupRejects, DirectoryRejects, Filtered, Searched

\* It did find one.
LEMMA ResolvedInv ==
  ASSUME PageInv, outcome.how = "pending", files[Candidate(path, dir, way)] = "file",
         Resolves(Candidate(path, dir, way)), UNCHANGED <<path, files>>
  PROVE  PageInv'
<1> DEFINE candidate == Candidate(path, dir, way)
<1>1. /\ outcome' = [how |-> "resolved", what |-> candidate] /\ answer' \in {"page", "app"}
      /\ UNCHANGED <<dir, way>>
  BY DEF Resolves
<1>2. Hit(candidate)
  BY TwoWays DEF PageInv, Place, Searched, Hit
<1> HIDE DEF candidate
<1> QED
  BY <1>1, <1>2, Frame DEF PageInv, Place, Searched, Resolved

LEMMA StepInv == PageInv /\ [Next]_vars => PageInv'
<1> SUFFICES ASSUME PageInv, [Next]_vars PROVE PageInv'
  OBVIOUS
<1>1. CASE UNCHANGED vars
  <2>1. UNCHANGED <<path, files, dir, way, outcome, answer>>
    BY <1>1 DEF vars
  <2>2. UNCHANGED innerReason
    BY <1>1 DEF vars
  <2>3. Place'
    BY <2>1, Frame DEF PageInv, Place
  <2>4. Searched' /\ Resolved'
    BY <2>1, <2>2, Frame DEF PageInv, Searched, Resolved
  <2>5. Exhausted' /\ Answered'
    BY <2>1, Frame DEF PageInv, Exhausted, Answered
  <2> QED BY <2>3, <2>4, <2>5 DEF PageInv
<1>2. CASE Stat
  <2> DEFINE candidate == Candidate(path, dir, way)
  <2>1. CASE files[candidate] = "file" /\ Resolves(candidate)
    BY <1>2, <2>1, ResolvedInv DEF Stat
  <2>2. CASE files[candidate] \in {"missing", "no file"} /\ LookupRejects("not found")
    BY <1>2, <2>2, RejectedInv DEF Stat
  <2>3. CASE files[candidate] = "failure" /\ LookupRejects("failure")
    BY <1>2, <2>3, RejectedInv DEF Stat
  <2> QED BY <1>2, <2>1, <2>2, <2>3 DEF Stat
<1> QED BY <1>1, <1>2 DEF Next

\* The candidates of the path itself are looked for below the root, the last.
LEMMA OwnPages ==
  ASSUME NEW p \in Seq(STRING), Len(p) >= 1, NEW w
  PROVE  Page(p, w) = Candidate(p, Len(p), w)
<1>1. SubSeq(p, 1, Len(p) - Len(p)) = << >>
  OBVIOUS
<1>2. << >> \o p = p
  OBVIOUS
<1> QED BY <1>1, <1>2 DEF Candidate

\* A page of the path that exists is among the candidates.
LEMMA OwnPageThere ==
  ASSUME PageInv, NEW w \in {"file", "index"}
  PROVE  /\ Page(path, w) = Candidate(path, Len(path), w)
         /\ Page(path, w) \in Candidates(path)
         /\ Page(path, w) \in Documented(path)
<1>1. path \in Seq(STRING) /\ Len(path) \in Nat /\ Len(path) >= 1
  BY PathsAssumption DEF PageInv, Place
<1>2. Page(path, w) = Candidate(path, Len(path), w)
  BY <1>1, OwnPages
<1>3. SubSeq(path, 1, Len(path)) = path /\ Len(path) \in 1..Len(path)
  BY <1>1
<1>4. Page(path, w) = Page(SubSeq(path, 1, Len(path)), w)
  BY <1>3
<1>5. Page(path, w) \in Documented(path)
  BY <1>3, <1>4, TwoWays DEF Documented
<1> QED BY <1>2, <1>3, <1>5, CandidateOfPath

\* The page is the first of the candidates that is a file; while the file system
\* works the next middleware has the request if and only if there is none; and a
\* page of the path itself is found (PageResolver.resolve and the catch of the page
\* middleware).
THEOREM PageIsFound == Spec => []PageFound
<1>1. PageInv => FirstCandidate
  BY DEF FirstCandidate, PageInv, Resolved, Hit, Missed
<1>2. ASSUME PageInv, Works, answer # "none"
      PROVE  /\ answer = "next" <=> \A c \in Candidates(path) : files[c] # "file"
             /\ answer # "next" => answer \in {"page", "app"}
  <2>1. CASE answer = "next"
    BY <1>2, <2>1 DEF PageInv, Exhausted
  <2>2. CASE answer \in {"page", "app"}
    <3>1. Hit(outcome.what)
      BY <1>2, <2>2 DEF PageInv, Answered, Resolved
    <3>2. files[outcome.what] = "file" /\ outcome.what \in Candidates(path)
      BY <3>1 DEF Hit, Candidates
    <3> QED BY <2>2, <3>2
  <2>3. CASE answer = "error"
    BY <1>2, <2>3 DEF PageInv, Answered
  <2> QED BY <1>2, <2>1, <2>2, <2>3 DEF PageInv, Answered
<1>3. PageInv => NoCandidateMissed
  BY <1>2 DEF NoCandidateMissed
<1>4. ASSUME PageInv, Works, answer # "none",
             NEW w \in {"file", "index"}, files[Page(path, w)] = "file"
      PROVE  /\ outcome.how = "resolved"
             /\ \/ \E d \in 1..(Len(path) - 1), v \in ToSet(Ways) : outcome.what = Candidate(path, d, v)
                \/ outcome.what = Page(path, IF files[path] = "file" THEN "file" ELSE "index")
  <2>1. outcome.how = "resolved"
    BY <1>2, <1>4, OwnPageThere DEF PageInv, Answered
  <2>2. PICK d \in 1..Len(path), v \in {"file", "index"} :
          outcome.what = Candidate(path, d, v) /\ Missed(d, v)
    BY <1>4, <2>1, TwoWays DEF PageInv, Resolved, Hit
  <2>3. Len(path) \in Nat /\ Len(path) >= 1 /\ path \in Seq(STRING)
    BY <1>4, PathsAssumption DEF PageInv, Place
  <2>4. CASE d = Len(path)
    <3>1. outcome.what = Page(path, v)
      BY <1>4, <2>2, <2>3, <2>4, OwnPages
    <3>2. Page(path, "file") = path
      BY <2>3 DEF Page
    <3>3. v = "file" => files[path] = "file"
      BY <1>4, <2>1, <3>1, <3>2 DEF PageInv, Resolved, Hit
    <3>4. ASSUME v = "index" PROVE files[path] # "file"
      <4> DEFINE c == <<d, "file">>
      <4>1. c \in InOrder(d, v) /\ c[1] = d /\ c[2] = "file"
        BY <3>4, TwoWays DEF InOrder
      <4>2. files[Candidate(path, d, "file")] # "file"
        BY <2>2, <4>1 DEF Missed
      <4> QED BY <2>3, <2>4, <3>2, <4>2, OwnPages
    <3> QED BY <2>1, <2>2, <3>1, <3>3, <3>4
  <2>5. CASE d < Len(path)
    BY <2>1, <2>2, <2>3, <2>5, TwoWays
  <2>6. d = Len(path) \/ d < Len(path)
    BY <2>2, <2>3
  <2> QED BY <2>4, <2>5, <2>6
<1>5. PageInv => OwnPageFound
  BY <1>4, TwoWays DEF OwnPageFound
<1> QED BY <1>1, <1>3, <1>5, InitInv, StepInv, PTL DEF PageFound, Spec
=============================================================================
