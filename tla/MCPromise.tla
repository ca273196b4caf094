----------------------------- MODULE MCPromise -----------------------------
EXTENDS Promise, TLC

CONSTANTS p1, p2, p3, p4, f1, undefined, error

\* The identities are interchangeable.  For safety runs only.
Identities == Permutations(Promises)

\* The shapes of then(): then(onResolve), then(null, onReject).
ThenOnly  == {<<User, None>>}
CatchOnly == {<<None, User>>}
=============================================================================
