---------------------------- MODULE ModuleCache ----------------------------
(***************************************************************************)
(* The second loader of the client (app/client/js/Module/module.js):       *)
(* require in the manner of node, with synchronous requests to the server. *)
(* A module is known by its filename and evaluated inside the call that    *)
(* first requires it, so evaluating is the stack of the modules whose code *)
(* is running; under it is the page itself, the main module.               *)
(***************************************************************************)
EXTENDS Naturals, Sequences, FiniteSets, SequencesExt

CONSTANTS File, Main, None

ModuleAssumption == IsFiniteSet(File) /\ Main \in File

VARIABLES
  parent, children,  \* of the modules in the cache; parent is None elsewhere
  cache,             \* the filenames that have a module
  resolvedPaths,     \* [File -> set of File]: what the module has resolved
  source,            \* [File -> {"null", "code", "bad"}]: bad is what eval refuses
  exports,           \* [File -> {"null", "initial", "replaced"}]
  evaluating,        \* the modules whose code runs, the last one first
  throwing,          \* an exception is on its way to the first of them
  loading,           \* the modules an asynchronous load is under way for
  runs, failed,      \* how often the code of a module ran; those it threw in
  got                \* the exports that were given, to whom and when

vars == <<parent, children, cache, resolvedPaths, source, exports, evaluating, throwing, loading, runs, failed, got>>

Init ==
  /\ cache = {Main} /\ parent = [f \in File |-> None] /\ children = [f \in File |-> <<>>]
  /\ resolvedPaths = [f \in File |-> {}] /\ source = [f \in File |-> "null"]
  /\ exports = [f \in File |-> "null"] /\ evaluating = <<>> /\ throwing = FALSE /\ loading = {}
  /\ runs = [f \in File |-> 0] /\ failed = {} /\ got = {}

Running == IF evaluating = <<>> THEN Main ELSE Head(evaluating)

\* resolve: a request, but for a path this module has resolved before.
resolve(from, f) == resolvedPaths' = [resolvedPaths EXCEPT ![from] = @ \union {f}]

\* Mutants: a module that is known is added to its new parent too; the
\* exports of a module are its own only at the end of its code.
isCached_no(f) == FALSE
hasExports_late(f) == exports[f] # "null" /\ ~Contains(evaluating, f)

isCached(f) == f \in cache
hasExports(f) == exports[f] # "null"

\* The constructor: one module per filename, the first parent keeps it.
createChild(from, f) ==
  IF isCached(f) THEN UNCHANGED <<cache, parent, children>>
  ELSE /\ cache' = cache \union {f}
       /\ parent' = [parent EXCEPT ![f] = from]
       /\ children' = [children EXCEPT ![from] = Append(@, f)]

Give(from, f) ==
  got' = got \union {[to |-> from, of |-> f, which |-> exports[f], early |-> Contains(evaluating, f)]}

\* require(path) from the module whose code runs, up to the first line of the
\* code of the required one, or to the exception.
requireKnown(f) ==
  /\ ~throwing /\ hasExports(f)
  /\ resolve(Running, f) /\ createChild(Running, f) /\ Give(Running, f)
  /\ UNCHANGED <<source, exports, evaluating, throwing, loading, runs, failed>>

requireUnresolved(f) ==
  /\ ~throwing /\ f \notin resolvedPaths[Running]
  /\ throwing' = TRUE
  /\ UNCHANGED <<parent, children, cache, resolvedPaths, source, exports, evaluating, loading, runs, failed, got>>

\* loadSync gets no answer, or eval refuses what it got: the module stays in
\* the cache, and keeps the source when there is one.
requireBroken(f) ==
  /\ ~throwing /\ ~hasExports(f)
  /\ resolve(Running, f) /\ createChild(Running, f)
  /\ source[f] # "code"
  /\ source' \in {[source EXCEPT ![f] = s] : s \in {source[f], "bad"}}
  /\ throwing' = TRUE
  /\ UNCHANGED <<exports, evaluating, loading, runs, failed, got>>

compile(f) ==
  /\ ~throwing /\ ~hasExports(f) /\ source[f] # "bad"
  /\ resolve(Running, f) /\ createChild(Running, f)
  /\ source' = [source EXCEPT ![f] = "code"]
  /\ exports' = [exports EXCEPT ![f] = "initial"]
  /\ evaluating' = <<f>> \o evaluating
  /\ runs' = [runs EXCEPT ![f] = @ + 1]
  /\ UNCHANGED <<throwing, loading, failed, got>>

\* The code that runs: it replaces module.exports, throws, catches what a
\* require threw, or ends.
ReplaceExports ==
  /\ ~throwing /\ evaluating # <<>> /\ exports[Running] = "initial"
  /\ exports' = [exports EXCEPT ![Running] = "replaced"]
  /\ UNCHANGED <<parent, children, cache, resolvedPaths, source, evaluating, throwing, loading, runs, failed, got>>

Throw ==
  /\ ~throwing /\ evaluating # <<>>
  /\ throwing' = TRUE
  /\ UNCHANGED <<parent, children, cache, resolvedPaths, source, exports, evaluating, loading, runs, failed, got>>

Catch ==
  /\ throwing /\ throwing' = FALSE
  /\ UNCHANGED <<parent, children, cache, resolvedPaths, source, exports, evaluating, loading, runs, failed, got>>

\* The end of fn.call: the exports go to the module below, or the exception.
Leave ==
  /\ evaluating # <<>>
  /\ evaluating' = Tail(evaluating)
  /\ failed' = IF throwing THEN failed \union {Running} ELSE failed
  /\ got' = IF throwing THEN got
            ELSE got \union {[to |-> Running', of |-> Running, which |-> exports[Running],
                              early |-> Contains(evaluating', Running)]}
  /\ UNCHANGED <<parent, children, cache, resolvedPaths, source, exports, throwing, loading, runs>>

\* load: the asynchronous request.  Its test of the status is an or, so any
\* answer is the source.
load(f) ==
  /\ ~throwing /\ f \in cache /\ source[f] = "null"
  /\ loading' = loading \union {f}
  /\ UNCHANGED <<parent, children, cache, resolvedPaths, source, exports, evaluating, throwing, runs, failed, got>>

onreadystatechange(f) ==
  /\ evaluating = <<>> /\ ~throwing /\ f \in loading
  /\ loading' = loading \ {f}
  /\ source' \in {[source EXCEPT ![f] = s] : s \in {"code", "bad"}}
  /\ UNCHANGED <<parent, children, cache, resolvedPaths, exports, evaluating, throwing, runs, failed, got>>

Next ==
  \/ \E f \in File : \/ requireKnown(f) \/ requireUnresolved(f) \/ requireBroken(f) \/ compile(f)
                     \/ load(f) \/ onreadystatechange(f)
  \/ ReplaceExports \/ Throw \/ Catch \/ Leave

Spec == Init /\ [][Next]_vars

-----------------------------------------------------------------------------
(* The code of a module runs once, whatever cycles the requires make; and  *)
(* the cache is a tree under the main module, each module the child of the *)
(* one that asked for it first.                                            *)
OneModulePerFile ==
  \A f \in File :
    /\ runs[f] <= 1
    /\ Cardinality({at \in File \X (1..Cardinality(File)) :
                      at[2] <= Len(children[at[1]]) /\ children[at[1]][at[2]] = f})
         = IF f \in cache \ {Main} THEN 1 ELSE 0
    /\ f \in cache \ {Main} => Contains(children[parent[f]], f)

(* Exports that differ from the final ones were given in a cycle, while    *)
(* the module ran; and exports of which the code has not ended are those   *)
(* of a module that runs or that threw: the failed module keeps what it    *)
(* had made, and the next require is given that.                           *)
StaleOnlyInCycles ==
  /\ \A g \in got : g.which # exports[g.of] => g.early
  /\ \A f \in File : runs[f] # 0 /\ (\A g \in got : g.of = f => g.early)
                       => Contains(evaluating, f) \/ f \in failed
=============================================================================
