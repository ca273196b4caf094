----------------------------- MODULE NodeProcess -----------------------------
(***************************************************************************)
(* The supervisor of node_modules/node-process/index.js: it forks a child  *)
(* process, watches the configuration file and the files named by the      *)
(* configuration, and restarts the child when one of them changes or when  *)
(* the child asks for it.  Files are observed by node_modules/             *)
(* file-observer, which does not hear a change that comes within 100 ms of *)
(* the last one it heard of that file.                                     *)
(*                                                                         *)
(* A signal, the exit of the child and the 'exit' event are three steps,   *)
(* and anything may come between them.  An exception goes to the handler   *)
(* of manage.js: what the code did before it stays done, and no more.      *)
(***************************************************************************)
EXTENDS Naturals

CONSTANTS
  MaxAttempt, \* how often a busy file is read again
  Windows,    \* isWindows()
  Files,      \* config.restartFiles
  Config      \* configPath

ASSUME NodeProcessAssumption ==
  MaxAttempt \in Nat /\ Windows \in BOOLEAN /\ Config \notin Files

VARIABLES
  state,    \* nodeProcess.state
  alive,    \* how many children were forked and have not exited
  signal,   \* the last signal the child was sent, "none" before
  exit,     \* the exit whose event is not delivered: "none", a code, a signal
  config,   \* nodeProcess.config is not null
  cached,   \* the configuration file is in require.cache
  watched,  \* the files of config.restartFiles are observed
  reloads,  \* the attempts made by each reload() that waits for its timer
  quiet,    \* the files whose changes are not heard: lastChangeTime is not 100 ms ago
  stale     \* history: since the child was forked a watched file changed, and the
            \* change was heard or came before the next child

vars == <<state, alive, signal, exit, config, cached, watched, reloads, quiet, stale>>

Running == {"started", "restarting"}
Signals == {"SIGTERM", "SIGUSR2"}
Codes   == {"0", "1", "2"}

TypeOK ==
  /\ state \in {"created", "killed"} \cup Running
  /\ alive \in Nat
  /\ signal \in Signals \cup {"none"}
  /\ exit \in Signals \cup Codes \cup {"none"}
  /\ config \in BOOLEAN /\ cached \in BOOLEAN /\ watched \in BOOLEAN
  /\ reloads \subseteq 1..MaxAttempt
  /\ quiet \subseteq Files \cup {Config}
  /\ stale \in BOOLEAN

\* The constructor, when there is a configuration file.  Nothing is heard in the
\* millisecond in which a file is opened, nor before.
Init ==
  /\ state = "created"
  /\ alive = 0 /\ signal = "none" /\ exit = "none"
  /\ config = FALSE /\ cached = FALSE /\ watched = FALSE
  /\ reloads = {}
  /\ quiet = Files \cup {Config}
  /\ stale = FALSE

-----------------------------------------------------------------------------
Fork ==
  /\ state' = "started"
  /\ alive' = alive + 1
  /\ signal' = "none"
  /\ stale' = FALSE

NoFork(st, old) ==
  /\ state' = st /\ stale' = old
  /\ UNCHANGED <<alive, signal>>

\* start() once the state is right; `cfg' and `loaded' tell what there is of
\* the configuration, `st' and `old' the state and the history when it throws.
\* The configuration is only read when it was unset: the file may be unreadable,
\* and setConfig may fail on the files it names, after this.config is written.
StartChild(cfg, loaded, st, old) ==
  \/ /\ cfg
     /\ Fork
     /\ config' = cfg /\ cached' = loaded /\ watched' = watched
  \/ /\ ~cfg
     /\ config' = TRUE /\ cached' = TRUE /\ watched' \in BOOLEAN
     /\ Fork \/ NoFork(st, old)
  \/ /\ ~cfg /\ ~loaded
     /\ NoFork(st, old)
     /\ config' = cfg /\ cached' = loaded /\ watched' = watched

\* kill(): the signal goes to the child, dead or not.
Signal(sig) ==
  /\ signal' = sig
  /\ UNCHANGED alive

\* Fault: restart() does not look whether a child is on its way out.
RestartAnyState(cfg, loaded, old) ==
  \/ /\ state = "started"
     /\ state' = "restarting" /\ stale' = old
     /\ Signal(IF Windows THEN "SIGTERM" ELSE "SIGUSR2")
     /\ config' = cfg /\ cached' = loaded /\ watched' = watched
  \/ /\ state # "started"
     /\ StartChild(cfg, loaded, state, old)

\* Fault: restart() does not signal the child.
RestartUnsignalled(cfg, loaded, old) ==
  \/ /\ state \in Running
     /\ state' = "restarting" /\ stale' = old
     /\ UNCHANGED <<alive, signal>>
     /\ config' = cfg /\ cached' = loaded /\ watched' = watched
  \/ /\ state \notin Running
     /\ StartChild(cfg, loaded, state, old)

\* restart(): a child on its way out is let go, its exit will start another.
Restart(cfg, loaded, old) ==
  \/ /\ state = "started"
     /\ state' = "restarting" /\ stale' = old
     /\ Signal(IF Windows THEN "SIGTERM" ELSE "SIGUSR2")
     /\ config' = cfg /\ cached' = loaded /\ watched' = watched
  \/ /\ state = "restarting"
     /\ NoFork(state, old)
     /\ config' = cfg /\ cached' = loaded /\ watched' = watched
  \/ /\ state \notin Running
     /\ StartChild(cfg, loaded, state, old)

-----------------------------------------------------------------------------
\* start(), by the program.
Start ==
  /\ state \notin Running
  /\ StartChild(config, cached, state, stale)
  /\ UNCHANGED <<exit, reloads, quiet>>

\* kill(), by the program; without a process it throws.
Kill ==
  /\ state \in Running
  /\ Signal("SIGTERM")
  /\ UNCHANGED <<state, exit, config, cached, watched, reloads, quiet, stale>>

\* reload() after `count' attempts, when `waiting' are the others that wait: the
\* file is read, busy, or broken.  What is in the cache already is simply read.
Reload(count, waiting, cfg, loaded) ==
  \/ /\ reloads' = waiting
     /\ Restart(cfg, TRUE, stale)
  \/ /\ ~loaded
     /\ \/ count < MaxAttempt /\ reloads' = waiting \cup {count + 1}
        \/ reloads' = waiting
     /\ config' = cfg /\ cached' = loaded
     /\ UNCHANGED <<state, alive, signal, watched, stale>>

\* handleEvent: what is heard is heard once in 100 ms, whatever becomes of it.
Heard(file) ==
  /\ file \notin quiet
  /\ quiet' = quiet \cup {file}

\* The configuration file changes, and that is heard.  unsetConfig throws when there
\* is no configuration, and in unobserveFile when files are watched: the cache of
\* FileObserver holds an observer, which has no method remove.  The configuration
\* is in the cache of modules: start() has read it.
ConfigChanges ==
  /\ Heard(Config)
  /\ \/ /\ config /\ ~watched
        /\ Reload(0, reloads, FALSE, FALSE)
     \/ /\ ~config \/ watched
        /\ UNCHANGED <<state, alive, signal, config, cached, watched, reloads, stale>>
  /\ UNCHANGED exit

ReloadTimer ==
  /\ \E count \in reloads : Reload(count, reloads \ {count}, config, cached)
  /\ UNCHANGED <<exit, quiet>>

\* A watched file changes: it is no module of the supervisor.  A change that is not
\* heard comes to the next child only, if one is on its way.
WatchedFileChanges ==
  /\ watched
  /\ \E file \in Files :
       \/ /\ Heard(file)
          /\ Restart(config, cached, state \in Running)
       \/ /\ file \in quiet
          /\ stale' = (stale \/ state = "restarting")
          /\ UNCHANGED <<state, alive, signal, config, cached, watched, quiet>>
  /\ UNCHANGED <<exit, reloads>>

\* The interval is over, of a file that is observed.
IntervalEnds ==
  /\ \E file \in quiet :
       /\ file = Config \/ watched
       /\ quiet' = quiet \ {file}
  /\ UNCHANGED <<state, alive, signal, exit, config, cached, watched, reloads, stale>>

\* The child exits, by itself or of a signal (which it may turn into a code).
ChildExits ==
  /\ alive > 0 /\ exit = "none"
  /\ exit' \in Codes \cup ({signal} \ {"none"})
  /\ alive' = alive - 1
  /\ UNCHANGED <<state, signal, config, cached, watched, reloads, quiet, stale>>

AsksRestart ==
  \/ state = "restarting"
  \/ Windows /\ exit = "SIGTERM"
  \/ exit \in {"2", "SIGUSR2"}

\* Fault: only the exit tells whether to restart.
OnExitByCode ==
  /\ exit # "none"
  /\ exit' = "none"
  /\ \/ /\ exit \in {"2", "SIGUSR2"}
        /\ StartChild(config, cached, "killed", stale)
     \/ /\ exit \notin {"2", "SIGUSR2"}
        /\ NoFork("killed", stale)
        /\ UNCHANGED <<config, cached, watched>>
  /\ UNCHANGED <<reloads, quiet>>

\* The 'exit' event.
OnExit ==
  /\ exit # "none"
  /\ exit' = "none"
  /\ \/ /\ AsksRestart
        /\ StartChild(config, cached, "killed", stale)
     \/ /\ ~AsksRestart
        /\ NoFork("killed", stale)
        /\ UNCHANGED <<config, cached, watched>>
  /\ UNCHANGED <<reloads, quiet>>

Next ==
  \/ Start \/ Kill
  \/ ConfigChanges \/ ReloadTimer \/ WatchedFileChanges \/ IntervalEnds
  \/ ChildExits \/ OnExit

(***************************************************************************)
(* A child that was sent a signal exits, its exit is delivered and timers  *)
(* fire.                                                                   *)
(***************************************************************************)
Fairness ==
  /\ WF_vars(signal # "none" /\ ChildExits)
  /\ WF_vars(OnExit) /\ WF_vars(ReloadTimer)

Spec == Init /\ [][Next]_vars /\ Fairness

-----------------------------------------------------------------------------
\* There is a child, or the news of its exit, exactly in the states that say
\* so, and never two: a restart in the middle of another one, an exit that
\* crosses a restart and a start() after a crash never fork twice.
OneChild ==
  alive + (IF exit = "none" THEN 0 ELSE 1) = (IF state \in Running THEN 1 ELSE 0)

\* Whoever is said to be restarting was told to exit.
RestartingIsSignalled == state = "restarting" => signal # "none"

\* A change of a watched file that is heard, whenever it comes, is taken into
\* account: a child is forked afterwards.  So is one that comes within 100 ms of
\* another and is not heard, if the next child is still to be forked; if it has been
\* forked in the meantime, or none has to be, that change is lost.
ChangeIsTaken == stale ~> ~stale
=============================================================================
