---------------------------- MODULE PageResolver ----------------------------
(***************************************************************************)
(* Which page answers a path: the page middleware and its PageResolver     *)
(* (app/server/node_modules/router/middleware/page), over Promise.mapFirst *)
(* and Promise.first (node_modules/promise/first.js).                      *)
(*                                                                         *)
(* For each directory above the path, the page is looked for as a file,    *)
(* then as the index of a directory: a Promise.first of two lookups inside *)
(* a Promise.first over the directories.  Each keeps in a variable of its  *)
(* own the reason of the last rejection that its filter let through.       *)
(*                                                                         *)
(* The readme and the header of the code ask for other candidates than     *)
(* those the code makes: the page of the path and then those of the paths  *)
(* above it.  The file system of the model has both.                       *)
(***************************************************************************)
EXTENDS Naturals, Sequences, SequencesExt

CONSTANTS
  Paths, \* the paths asked for: sequences of names, without the slashes
  Index  \* the name of the page of a directory

ASSUME PathsAssumption == Paths \subseteq Seq(STRING) \ {<< >>}

VARIABLES
  path,        \* resolver.path
  files,       \* what the stat of each candidate gives, made or documented
  ajax,        \* request.isAjax()
  dir,         \* the directory looked in: how many names of the path it lost
  way,         \* the lookup in that directory, "file" or "index"
  innerReason, \* the variable reason of the Promise.first of load
  outerReason, \* the variable reason of the Promise.first of loadPages
  outcome,     \* of resolve(): [how, what], what a candidate or a reason
  answer       \* of the task of the middleware: "none", "page", "app", "next", "error"

vars == <<path, files, ajax, dir, way, innerReason, outerReason, outcome, answer>>

Ways    == <<"file", "index">>
Reasons == {"undefined", "not found", "failure"}
Stats   == {"file", "missing", "no file", "failure"}

\* The page of a path, as a file or as the index of a directory; the extension is
\* that of the pages.
Page(p, w) == p \o (IF w = "file" THEN << >> ELSE <<Index>>)

\* pagePaths and load: the whole path is looked for BELOW each of the directories
\* above it, the nearest first and the root last.
Candidate(p, d, w) == Page(SubSeq(p, 1, Len(p) - d) \o p, w)
Candidates(p) == {Candidate(p, d, w) : d \in 1..Len(p), w \in ToSet(Ways)}

\* The readme: the page of the path, then those of the paths above it.
Documented(p) == {Page(SubSeq(p, 1, l), w) : l \in 1..Len(p), w \in ToSet(Ways)}

\* Bound: what the code never looks at is there or is not.
Init ==
  /\ path \in Paths
  /\ \E asked \in [Candidates(path) -> Stats],
        beside \in [Documented(path) \ Candidates(path) -> {"file", "missing"}] :
       files = [c \in Candidates(path) \cup Documented(path) |->
                  IF c \in Candidates(path) THEN asked[c] ELSE beside[c]]
  /\ ajax \in BOOLEAN
  /\ dir = 1 /\ way = "file"
  /\ innerReason = "undefined" /\ outerReason = "undefined"
  /\ outcome = [how |-> "pending", what |-> "undefined"]
  /\ answer = "none"

-----------------------------------------------------------------------------
\* isNotFoundError, the filter of both.
Filtered(reason) == reason = "not found"

\* The page is made by createPagePromise(filename), whose failures are those of
\* the page.
Resolves(candidate) ==
  /\ outcome' = [how |-> "resolved", what |-> candidate]
  /\ answer' = IF ajax THEN "page" ELSE "app"
  /\ UNCHANGED <<dir, way, innerReason, outerReason>>

\* The catch of the middleware: the next one answers what has no page.
Rejects(reason) ==
  /\ outcome' = [how |-> "rejected", what |-> reason]
  /\ answer' = IF Filtered(reason) THEN "next" ELSE "error"
  /\ UNCHANGED <<dir, way, innerReason, outerReason>>

\* Fault: the iterator starts again after a rejection.
StartOver(reason) ==
  /\ Filtered(reason)
  /\ dir' = 1 /\ way' = "file"
  /\ innerReason' = "undefined" /\ outerReason' = reason
  /\ UNCHANGED <<outcome, answer>>

\* Fault: the last directory is not tried.
SkipLast(reason) ==
  \/ /\ Filtered(reason) /\ dir + 1 < Len(path)
     /\ dir' = dir + 1 /\ way' = "file"
     /\ innerReason' = "undefined" /\ outerReason' = reason
     /\ UNCHANGED <<outcome, answer>>
  \/ /\ Filtered(reason) /\ dir + 1 >= Len(path)
     /\ Rejects(reason)
  \/ /\ ~Filtered(reason)
     /\ Rejects(outerReason)

\* The promise of load is rejected: the next directory, or the end.
DirectoryRejects(reason) ==
  \/ /\ Filtered(reason) /\ dir < Len(path)
     /\ dir' = dir + 1 /\ way' = "file"
     /\ innerReason' = "undefined" /\ outerReason' = reason
     /\ UNCHANGED <<outcome, answer>>
  \/ /\ Filtered(reason) /\ dir = Len(path)
     /\ Rejects(reason)
  \/ /\ ~Filtered(reason)
     /\ Rejects(outerReason)

\* loadAsFile or loadAsDirectory rejects.  A reason that the filter holds back
\* rejects with the variable `reason', which it was not written to.
LookupRejects(reason) ==
  \/ /\ Filtered(reason) /\ way = "file"
     /\ way' = "index" /\ innerReason' = reason
     /\ UNCHANGED <<dir, outerReason, outcome, answer>>
  \/ /\ Filtered(reason) /\ way = "index"
     /\ DirectoryRejects(reason)
  \/ /\ ~Filtered(reason)
     /\ DirectoryRejects(innerReason)

\* Fault: whatever exists is a page.
AnythingIsAPage ==
  LET candidate == Candidate(path, dir, way)
      stat == files[candidate]
  IN  /\ outcome.how = "pending"
      /\ \/ stat \in {"file", "no file"} /\ Resolves(candidate)
         \/ stat = "missing" /\ LookupRejects("not found")
         \/ stat = "failure" /\ LookupRejects("failure")
      /\ UNCHANGED <<path, files, ajax>>

\* The callback of stat, and all that waits for it.
Stat ==
  LET candidate == Candidate(path, dir, way)
      stat == files[candidate]
  IN  /\ outcome.how = "pending"
      /\ \/ stat = "file" /\ Resolves(candidate)
         \/ stat \in {"missing", "no file"} /\ LookupRejects("not found")
         \/ stat = "failure" /\ LookupRejects("failure")
      /\ UNCHANGED <<path, files, ajax>>

Next == Stat

\* Every stat calls back.
Spec == Init /\ [][Next]_vars /\ WF_vars(Next)

-----------------------------------------------------------------------------
\* What is asked before way w of directory d: the nearest directory first, a
\* file before an index.
InOrder(d, w) ==
  {c \in (1..Len(path)) \X ToSet(Ways) :
     c[1] < d \/ (c[1] = d /\ w = "index" /\ c[2] = "file")}

\* What is answered is a file, and none of the candidates the code makes before it
\* is one.
FirstCandidate ==
  outcome.how = "resolved" =>
    /\ files[outcome.what] = "file"
    /\ \E d \in 1..Len(path), w \in ToSet(Ways) :
         /\ outcome.what = Candidate(path, d, w)
         /\ \A c \in InOrder(d, w) : files[Candidate(path, c[1], c[2])] # "file"

Works == \A c \in DOMAIN files : files[c] # "failure"

\* While the file system works, the next middleware has the request if and only
\* if none of the candidates the code makes is a file.
NoCandidateMissed ==
  Works /\ answer # "none" =>
    (answer = "next" <=> \A c \in Candidates(path) : files[c] # "file")

\* The first pages of the readme, those of the path itself, are the last that are
\* looked for, and they are: one that exists is found, or a candidate below another
\* directory is, and the file goes before the index.
OwnPageFound ==
  Works /\ answer # "none" /\ (\E w \in ToSet(Ways) : files[Page(path, w)] = "file") =>
    /\ outcome.how = "resolved"
    /\ \/ \E d \in 1..(Len(path) - 1), w \in ToSet(Ways) : outcome.what = Candidate(path, d, w)
       \/ outcome.what = Page(path, IF files[path] = "file" THEN "file" ELSE "index")

\* The page answered is the first of the candidates that the code makes, and the
\* pages of the path itself are among them.  (Those of the paths above it are not:
\* ParentPages.)
PageFound == FirstCandidate /\ NoCandidateMissed /\ OwnPageFound

\* The search ends.
Ends == <>(answer # "none")

\* The readme: a path without a page is answered by that of a path above it, so
\* that the next middleware has the request only if none of these is a file.
ParentPages ==
  Works /\ answer = "next" => \A c \in Documented(path) : files[c] # "file"
=============================================================================
