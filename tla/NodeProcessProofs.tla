-------------------------- MODULE NodeProcessProofs --------------------------
(***************************************************************************)
(* The supervisor never has two children, for every number of attempts and *)
(* on both platforms: OneChild is inductive with the types.                *)
(***************************************************************************)
EXTENDS NodeProcess, TLAPS

\* The inductive invariant: OneChild alone tells the number of children that
\* start() and the 'exit' event find, and the types tell them from one another.
ChildInv == TypeOK /\ OneChild /\ RestartingIsSignalled

-----------------------------------------------------------------------------
\* What start() does in a state that is not `started' or `restarting', with the
\* number of children that there is then.
LEMMA StartsOne ==
  ASSUME ChildInv, NEW cfg \in BOOLEAN, NEW loaded \in BOOLEAN, NEW st, NEW old \in BOOLEAN,
         st \in {"created", "killed"}, alive = 0,
         StartChild(cfg, loaded, st, old), exit' = "none",
         reloads' \subseteq 1..MaxAttempt, quiet' \subseteq Files \cup {Config}
  PROVE  ChildInv'
<1>1. config' \in BOOLEAN /\ cached' \in BOOLEAN /\ watched' \in BOOLEAN
  <2>1. TRUE \in BOOLEAN /\ watched \in BOOLEAN
    BY DEF ChildInv, TypeOK
  <2>2. \/ config' = cfg /\ cached' = loaded /\ watched' = watched
        \/ config' = TRUE /\ cached' = TRUE /\ watched' \in BOOLEAN
    BY Zenon DEF StartChild
  <2>3. CASE config' = cfg /\ cached' = loaded /\ watched' = watched
    BY <2>1, <2>3, Zenon
  <2>4. CASE config' = TRUE /\ cached' = TRUE /\ watched' \in BOOLEAN
    BY <2>1, <2>4, Zenon
  <2> QED
    BY <2>2, <2>3, <2>4
<1>4. Fork \/ NoFork(st, old)
  BY Zenon DEF StartChild
<1>2. CASE Fork
  <2>1. state' = "started" /\ alive' = 1 /\ signal' = "none"
    BY <1>2 DEF Fork
  <2>2. stale' \in BOOLEAN
    BY <1>2, Zenon DEF Fork
  <2> QED
    BY <1>1, <2>1, <2>2 DEF ChildInv, TypeOK, OneChild, RestartingIsSignalled, Running
<1>3. CASE NoFork(st, old)
  <2>1. state' = st /\ alive' = 0 /\ signal' = signal /\ stale' \in BOOLEAN
    BY <1>3 DEF NoFork
  <2> QED
    BY <1>1, <2>1 DEF ChildInv, TypeOK, OneChild, RestartingIsSignalled, Running
<1> QED
  BY <1>2, <1>3, <1>4

\* restart(), in every state.
LEMMA RestartsOne ==
  ASSUME ChildInv, NEW cfg \in BOOLEAN, NEW loaded \in BOOLEAN, NEW old \in BOOLEAN,
         Restart(cfg, loaded, old), exit' = exit,
         reloads' \subseteq 1..MaxAttempt, quiet' \subseteq Files \cup {Config}
  PROVE  ChildInv'
<1>1. CASE state \in Running
  BY <1>1 DEF ChildInv, TypeOK, OneChild, RestartingIsSignalled, Running, Signals,
     Codes, Restart, Signal, NoFork
<1>2. CASE state \notin Running
  <2>1. StartChild(cfg, loaded, state, old)
    BY <1>2, Zenon DEF Restart, Running
  <2>2. alive = 0 /\ exit = "none" /\ state \in {"created", "killed"}
    BY <1>2 DEF ChildInv, TypeOK, OneChild, Running
  <2> QED
    BY <2>1, <2>2, StartsOne
<1> QED
  BY <1>1, <1>2

LEMMA Initially == Init => ChildInv
<1> SUFFICES ASSUME Init PROVE ChildInv
  OBVIOUS
<1>1. /\ config \in BOOLEAN /\ cached \in BOOLEAN /\ watched \in BOOLEAN /\ stale \in BOOLEAN
      /\ quiet \subseteq Files \cup {Config}
  BY DEF Init
<1>2. state = "created" /\ alive = 0 /\ signal = "none" /\ exit = "none" /\ reloads = {}
  BY DEF Init
<1> QED
  BY <1>1, <1>2 DEF ChildInv, TypeOK, OneChild, RestartingIsSignalled, Running

LEMMA Preserved ==
  ASSUME ChildInv, [Next]_vars
  PROVE  ChildInv'
<1> USE NodeProcessAssumption
<1>t. TypeOK
  BY DEF ChildInv
<1>1. CASE Start
  <2>1. alive = 0 /\ exit = "none" /\ state \in {"created", "killed"}
    BY <1>1 DEF Start, ChildInv, TypeOK, OneChild, Running
  <2>2. /\ StartChild(config, cached, state, stale) /\ exit' = exit /\ reloads' = reloads
         /\ quiet' = quiet
    BY <1>1 DEF Start
  <2> QED
    BY <2>1, <2>2, <1>t, StartsOne DEF TypeOK
<1>2. CASE Kill
  BY <1>2 DEF Kill, Signal, ChildInv, TypeOK, OneChild, RestartingIsSignalled, Running,
     Signals, Codes
<1>3. ASSUME NEW count \in 0..MaxAttempt, NEW waiting, NEW cfg \in BOOLEAN, NEW loaded \in BOOLEAN,
             waiting \subseteq reloads, Reload(count, waiting, cfg, loaded),
             exit' = exit, quiet' \subseteq Files \cup {Config}
      PROVE  ChildInv'
  <2>1. reloads' \subseteq 1..MaxAttempt
    <3>1. reloads' = waiting \/ (count < MaxAttempt /\ reloads' = waiting \cup {count + 1})
      BY <1>3, Zenon DEF Reload
    <3>2. waiting \subseteq 1..MaxAttempt
      BY <1>3, <1>t DEF TypeOK
    <3>3. CASE reloads' = waiting
      BY <3>2, <3>3
    <3>4. CASE count < MaxAttempt /\ reloads' = waiting \cup {count + 1}
      <4>1. count + 1 \in 1..MaxAttempt
        BY <3>4
      <4> QED
        BY <3>2, <3>4, <4>1
    <3> QED
      BY <3>1, <3>3, <3>4
  <2>2. CASE Restart(cfg, TRUE, stale)
    BY <2>1, <2>2, <1>3, <1>t, RestartsOne DEF TypeOK
  <2>3. CASE /\ config' = cfg /\ cached' = loaded
             /\ UNCHANGED <<state, alive, signal, watched, stale>>
    BY <2>1, <2>3, <1>3 DEF ChildInv, TypeOK, OneChild, RestartingIsSignalled, Running
  <2> QED
    BY <2>2, <2>3, <1>3 DEF Reload
<1>h. ASSUME NEW file \in Files \cup {Config}, Heard(file)
      PROVE  quiet' \subseteq Files \cup {Config}
  BY <1>h, <1>t DEF Heard, TypeOK
<1>4. CASE ConfigChanges
  <2>1. exit' = exit /\ quiet' \subseteq Files \cup {Config}
    BY <1>4, <1>h DEF ConfigChanges
  <2>2. 0 \in 0..MaxAttempt /\ FALSE \in BOOLEAN /\ reloads \subseteq reloads
    OBVIOUS
  <2>3. CASE Reload(0, reloads, FALSE, FALSE)
    BY <1>3, <2>1, <2>2, <2>3
  <2>4. CASE UNCHANGED <<state, alive, signal, config, cached, watched, reloads, stale>>
    BY <2>1, <2>4 DEF ChildInv, TypeOK, OneChild, RestartingIsSignalled, Running
  <2> QED
    BY <1>4, <2>3, <2>4 DEF ConfigChanges
<1>5. CASE ReloadTimer
  <2>1. PICK count \in reloads : Reload(count, reloads \ {count}, config, cached)
    BY <1>5 DEF ReloadTimer
  <2>2. exit' = exit /\ quiet' \subseteq Files \cup {Config}
    BY <1>5, <1>t DEF ReloadTimer, TypeOK
  <2>3. count \in 0..MaxAttempt /\ config \in BOOLEAN /\ cached \in BOOLEAN
    BY <1>t, <2>1 DEF TypeOK
  <2> QED
    BY <1>3, <2>1, <2>2, <2>3
<1>6. CASE WatchedFileChanges
  <2>1. exit' = exit /\ reloads' = reloads
    BY <1>6 DEF WatchedFileChanges
  <2>2. PICK file \in Files :
          \/ Heard(file) /\ Restart(config, cached, state \in Running)
          \/ /\ stale' = (stale \/ state = "restarting")
             /\ UNCHANGED <<state, alive, signal, config, cached, watched, quiet>>
    BY <1>6 DEF WatchedFileChanges
  <2>3. CASE Heard(file) /\ Restart(config, cached, state \in Running)
    <3>1. /\ config \in BOOLEAN /\ cached \in BOOLEAN /\ (state \in Running) \in BOOLEAN
          /\ reloads' \subseteq 1..MaxAttempt
      BY <2>1, <1>t DEF TypeOK
    <3> QED
      BY <2>1, <2>3, <3>1, <1>h, RestartsOne
  <2>4. CASE /\ stale' = (stale \/ state = "restarting")
             /\ UNCHANGED <<state, alive, signal, config, cached, watched, quiet>>
    <3>1. stale' \in BOOLEAN
      BY <2>4, Zenon
    <3> QED
      BY <2>1, <2>4, <3>1 DEF ChildInv, TypeOK, OneChild, RestartingIsSignalled, Running
  <2> QED
    BY <2>2, <2>3, <2>4
<1>10. CASE IntervalEnds
  <2>1. quiet' \subseteq quiet
    BY <1>10 DEF IntervalEnds
  <2> QED
    BY <1>10, <2>1 DEF IntervalEnds, ChildInv, TypeOK, OneChild, RestartingIsSignalled, Running
<1>7. CASE ChildExits
  BY <1>7 DEF ChildExits, ChildInv, TypeOK, OneChild, RestartingIsSignalled, Running,
     Signals, Codes
<1>8. CASE OnExit
  <2>1. alive = 0 /\ exit' = "none" /\ reloads' = reloads /\ quiet' = quiet
    BY <1>8 DEF OnExit, ChildInv, TypeOK, OneChild, Running
  <2>2. CASE StartChild(config, cached, "killed", stale)
    BY <2>1, <2>2, <1>t, StartsOne DEF TypeOK
  <2>3. CASE NoFork("killed", stale) /\ UNCHANGED <<config, cached, watched>>
    BY <2>1, <2>3 DEF NoFork, ChildInv, TypeOK, OneChild, RestartingIsSignalled, Running
  <2> QED
    BY <2>2, <2>3, <1>8 DEF OnExit
<1>9. CASE UNCHANGED vars
  BY <1>9 DEF vars, ChildInv, TypeOK, OneChild, RestartingIsSignalled, Running
<1> QED
  BY <1>1, <1>2, <1>4, <1>5, <1>6, <1>7, <1>8, <1>9, <1>10 DEF Next

\* The supervisor is in one of its four states, and its timers within their bound
\* (NodeProcess).
THEOREM TypeCorrect == Spec => []TypeOK
<1>1. ChildInv => TypeOK
  BY DEF ChildInv
<1>2. ChildInv /\ [Next]_vars => ChildInv'
  BY Preserved
<1> QED
  BY <1>1, <1>2, Initially, PTL DEF Spec

\* The supervisor never has two children at once, whatever restarts, exits,
\* timers and signals cross each other (start, restart and onexit).
THEOREM NeverTwoChildren == Spec => []OneChild
<1>1. ChildInv => OneChild
  BY DEF ChildInv
<1>2. ChildInv /\ [Next]_vars => ChildInv'
  BY Preserved
<1> QED
  BY <1>1, <1>2, Initially, PTL DEF Spec

\* A supervisor that waits for the exit of its child has signalled it (restart).
THEOREM WaitsForTheSignalled == Spec => []RestartingIsSignalled
<1>1. ChildInv => RestartingIsSignalled
  BY DEF ChildInv
<1>2. ChildInv /\ [Next]_vars => ChildInv'
  BY Preserved
<1> QED
  BY <1>1, <1>2, Initially, PTL DEF Spec
=============================================================================
