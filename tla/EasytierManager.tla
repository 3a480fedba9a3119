--------------------------- MODULE EasytierManager ---------------------------
(***************************************************************************)
(* The easytier-core child process (easytier.rs) and the tasks that share  *)
(* its manager (main.rs): handle_serve with its health-check task, or one  *)
(* of the two pairing commands.  The child may exit at any moment.         *)
(*                                                                         *)
(* A process that has exited keeps its pid until its status is read; after *)
(* that Child::id() is None, and the manager may still hold the handle.    *)
(*                                                                         *)
(* Definitions named ...Variant are plausible slips in the definition that *)
(* follows; no specification uses them, they show which property each one  *)
(* breaks.                                                                 *)
(***************************************************************************)
EXTENDS Integers

CONSTANT MaxRestarts   \* config.easytier.max_restarts

ASSUME MaxRestartsAssumption == MaxRestarts \in Nat

VARIABLES
  mode,       \* the command: "serve", "listen" (start-connect) or "dial" (connect)
  main,       \* the command's task
  health,     \* the health-check task of serve
  holder,     \* who runs an operation of the manager (the mutex of serve)
  op,         \* where start() is: "none", "start", "ready", then its result
  fallback,   \* start-connect has fallen back to the standard mode
  child,      \* EasytierManager.child and what became of the process
  leaving,    \* the process stop() took from the manager and waits for
  restarts,   \* restart_count
  spawns,     \* processes spawned since the last stop()
  report,     \* the last answer of health_check
  signalled   \* what stop() sent SIGTERM to

command == <<mode, main, health, holder, fallback>>
manager == <<child, leaving, restarts, spawns>>
vars == <<mode, main, health, holder, op, fallback, child, leaving, restarts,
          spawns, report, signalled>>

Init ==
  /\ mode \in {"serve", "listen", "dial"}
  /\ main = "starting" /\ health = "off" /\ holder = "main"
  /\ op = "start" /\ fallback = FALSE
  /\ child = "none" /\ leaving = "none"
  /\ restarts = 0 /\ spawns = 0
  /\ report = "none" /\ signalled = "nothing"

Alive == main \notin {"exited", "killed"}

-----------------------------------------------------------------------------
(* start and its three siblings: they differ in the arguments only.        *)

StartOnly == UNCHANGED <<command, restarts, leaving, report, signalled>>

\* A handle is held already, whatever its process does.
StartNoop ==
  /\ Alive /\ op = "start" /\ child # "none"
  /\ op' = "ok"
  /\ UNCHANGED <<child, spawns>> /\ StartOnly

\* No binary, or the process cannot be spawned.
SpawnFails ==
  /\ Alive /\ op = "start" /\ child = "none"
  /\ op' = "err"
  /\ UNCHANGED <<child, spawns>> /\ StartOnly

Spawn ==
  /\ Alive /\ op = "start" /\ child = "none"
  /\ child' = "running" /\ spawns' = spawns + 1
  /\ op' = "ready"
  /\ StartOnly

\* easytier-cli answers, or startup_timeout elapses before an exit is seen.
Ready ==
  /\ Alive /\ op = "ready"
  /\ op' = "ok"
  /\ UNCHANGED <<child, spawns>> /\ StartOnly

\* try_wait reads the status; start() fails and the handle stays.
ExitsEarly ==
  /\ Alive /\ op = "ready" /\ child = "exited"
  /\ child' = "reaped"
  /\ op' = "err"
  /\ UNCHANGED spawns /\ StartOnly

\* try_wait fails.
ReadyUnknown ==
  /\ Alive /\ op = "ready"
  /\ op' = "err"
  /\ UNCHANGED <<child, spawns>> /\ StartOnly

-----------------------------------------------------------------------------
(* The command's own task.                                                 *)

\* The manager is up, or serve goes on without it; serve starts its health check.
Serving ==
  /\ main = "starting" /\ holder = "main"
  /\ op = "ok" \/ (op = "err" /\ mode = "serve")
  /\ main' = "serving" /\ holder' = "free" /\ op' = "none"
  /\ health' = IF mode = "serve" THEN "waiting" ELSE "off"
  /\ UNCHANGED <<mode, fallback, manager, report, signalled>>

FallBack ==
  /\ main = "starting" /\ op = "err" /\ mode = "listen" /\ ~fallback
  /\ op' = "start" /\ fallback' = TRUE
  /\ UNCHANGED <<mode, main, health, holder, manager, report, signalled>>

\* The manager is dropped, and with it the process it still holds.
Dropped ==
  /\ main' = "exited"
  /\ child' = "none" /\ leaving' = "none"

\* `?` on start() ends a pairing command, and on a later step of the start-up
\* (the port, a watched path, the physical address, the code) the command too.
GivesUp ==
  /\ main = "starting" /\ holder = "main"
  /\ \/ op = "err" /\ (mode # "listen" \/ fallback)
     \/ op = "ok" /\ mode # "dial"
  /\ Dropped /\ op' = "none" /\ holder' = "free"
  /\ UNCHANGED <<mode, health, fallback, restarts, spawns, report, signalled>>

\* Ctrl-C, or the end of the pairing.
Finish ==
  /\ main = "serving"
  /\ main' = "asked"
  /\ UNCHANGED <<mode, health, holder, op, fallback, manager, report, signalled>>

StopNothing ==
  /\ main = "asked" /\ holder = "free" /\ child = "none"
  /\ main' = "returning"
  /\ UNCHANGED <<mode, health, holder, op, fallback, manager, report, signalled>>

StopBeginsVariant ==   \* the lock is not kept while the process ends
  /\ main = "asked" /\ holder = "free" /\ child \in {"running", "exited"}
  /\ leaving' = child /\ child' = "none"
  /\ signalled' = "child"
  /\ main' = "stopping"
  /\ UNCHANGED <<mode, health, holder, op, fallback, restarts, spawns, report>>

\* stop(): the child is taken out, SIGTERM goes to its pid.
StopBegins ==
  /\ main = "asked" /\ holder = "free" /\ child \in {"running", "exited"}
  /\ leaving' = child /\ child' = "none"
  /\ signalled' = "child"
  /\ main' = "stopping" /\ holder' = "main"
  /\ UNCHANGED <<mode, health, op, fallback, restarts, spawns, report>>

\* Child::id() of a process whose status was read is None, and unwrap_or(0) makes
\* it pid 0: kill(0, SIGTERM) ends every process of the group, this one too.
StopSignalsGroup ==
  /\ main = "asked" /\ holder = "free" /\ child = "reaped"
  /\ child' = "none"
  /\ signalled' = "group"
  /\ main' = "killed"
  /\ UNCHANGED <<mode, health, holder, op, fallback, leaving, restarts, spawns, report>>

StopEndsVariant ==   \* no force kill after the ten seconds
  /\ main = "stopping" /\ leaving = "exited"
  /\ leaving' = "none" /\ restarts' = 0 /\ spawns' = 0
  /\ main' = "returning" /\ holder' = "free"
  /\ UNCHANGED <<mode, health, op, fallback, child, report, signalled>>

\* The process ends within ten seconds, or is killed.
StopEnds ==
  /\ main = "stopping"
  /\ leaving' = "none" /\ restarts' = 0 /\ spawns' = 0
  /\ main' = "returning" /\ holder' = "free"
  /\ UNCHANGED <<mode, health, op, fallback, child, report, signalled>>

\* main returns; the runtime drops the health task where it stands.
Exit ==
  /\ main = "returning"
  /\ Dropped /\ op' = "none" /\ holder' = "free"
  /\ UNCHANGED <<mode, health, fallback, restarts, spawns, report, signalled>>

-----------------------------------------------------------------------------
(* The health-check task: it takes the lock for the whole of health_check, *)
(* the restart included, and leaves its loop when the answer is Failed.    *)

CanCheck == Alive /\ health = "waiting" /\ holder = "free"

Answer(state) ==
  /\ report' = state
  /\ health' = IF state = "Failed" THEN "over" ELSE "waiting"
  /\ holder' = "free" /\ op' = "none"
  /\ UNCHANGED <<mode, main, fallback, leaving, signalled>>

RestartLimitVariant ==   \* off by one
  /\ restarts <= MaxRestarts
  /\ restarts' = restarts + 1
  /\ holder' = "health" /\ op' = "start"
  /\ UNCHANGED <<mode, main, health, fallback, leaving, spawns, report, signalled>>

RestartVariant ==   \* a restart is not counted
  /\ restarts < MaxRestarts
  /\ holder' = "health" /\ op' = "start"
  /\ UNCHANGED <<mode, main, health, fallback, leaving, restarts, spawns, report, signalled>>

Restart ==
  /\ restarts < MaxRestarts
  /\ restarts' = restarts + 1
  /\ holder' = "health" /\ op' = "start"
  /\ UNCHANGED <<mode, main, health, fallback, leaving, spawns, report, signalled>>

FindsRunning ==
  /\ CanCheck /\ child = "running"
  /\ Answer("Running")
  /\ UNCHANGED <<child, restarts, spawns>>

FindsExitedVariant ==   \* the dead handle is not cleared before start()
  /\ CanCheck /\ child \in {"exited", "reaped"}
  /\ child' = "reaped"
  /\ \/ Restart
     \/ /\ restarts >= MaxRestarts /\ Answer("Crashed")
        /\ UNCHANGED <<restarts, spawns>>

FindsExited ==
  /\ CanCheck /\ child \in {"exited", "reaped"}
  /\ child' = "none"
  /\ \/ Restart
     \/ /\ restarts >= MaxRestarts /\ Answer("Crashed")
        /\ UNCHANGED <<restarts, spawns>>

FindsNone ==
  /\ CanCheck /\ child = "none"
  /\ UNCHANGED child
  /\ \/ Restart
     \/ /\ restarts >= MaxRestarts /\ Answer("Failed")
        /\ UNCHANGED <<restarts, spawns>>

\* try_wait fails: the handle is kept.
FindsUnknown ==
  /\ CanCheck /\ child # "none"
  /\ Answer("Crashed")
  /\ UNCHANGED <<child, restarts, spawns>>

\* One failed start() is reported as Failed, whatever the count.
RestartEnds ==
  /\ Alive /\ holder = "health" /\ op \in {"ok", "err"}
  /\ Answer(IF op = "ok" THEN "Running" ELSE "Failed")
  /\ UNCHANGED <<child, restarts, spawns>>

-----------------------------------------------------------------------------
\* The child exits on its own.
ChildExits ==
  /\ Alive /\ child = "running"
  /\ child' = "exited"
  /\ UNCHANGED <<command, op, leaving, restarts, spawns, report, signalled>>

StartStep  == StartNoop \/ SpawnFails \/ Spawn \/ Ready \/ ExitsEarly \/ ReadyUnknown
StopStep   == StopNothing \/ StopBegins \/ StopSignalsGroup
MainStep   == Serving \/ FallBack \/ GivesUp \/ StopEnds \/ Exit
HealthStep == FindsRunning \/ FindsExited \/ FindsNone \/ FindsUnknown

Next == StartStep \/ StopStep \/ MainStep \/ HealthStep \/ RestartEnds \/ Finish \/ ChildExits

Spec == Init /\ [][Next]_vars

\* The tasks run; the mutex is FIFO, so a stop that waits for it gets it (SF);
\* the health check ticks, and try_wait does not fail for ever.  Nothing makes
\* the user stop the program or the child exit.
Fairness ==
  /\ WF_vars(StartStep) /\ WF_vars(MainStep) /\ SF_vars(StopStep)
  /\ WF_vars(RestartEnds)
  /\ WF_vars(FindsRunning) /\ WF_vars(FindsExited) /\ WF_vars(FindsNone)

FairSpec == Spec /\ Fairness

-----------------------------------------------------------------------------
(* Properties.                                                             *)

\* Every variable keeps its type (easytier.rs:27-51).
TypeOK ==
  /\ mode \in {"serve", "listen", "dial"}
  /\ main \in {"starting", "serving", "asked", "stopping", "returning", "exited", "killed"}
  /\ health \in {"off", "waiting", "over"} /\ holder \in {"free", "main", "health"}
  /\ op \in {"none", "start", "ready", "ok", "err"} /\ fallback \in BOOLEAN
  /\ child \in {"none", "running", "exited", "reaped"}
  /\ leaving \in {"none", "running", "exited"}
  /\ restarts \in 0 .. MaxRestarts /\ spawns \in Nat
  /\ report \in {"none", "Running", "Crashed", "Failed"}
  /\ signalled \in {"nothing", "child", "group"}

\* A child that keeps crashing is not restarted for ever: between two stops no
\* more than max_restarts processes follow the first one, however exits, failed
\* starts and checks interleave (easytier.rs:423, 455).
SpawnsBounded == spawns <= 1 + MaxRestarts

\* There is at most one easytier-core, also while a stop waits for the old one and
\* the health check ticks (easytier.rs:373, main.rs:160), and none is left when
\* the command returns (easytier.rs:498-506).
OneProcess ==
  /\ ~(child = "running" /\ leaving = "running")
  /\ main \in {"exited", "killed"} => child # "running" /\ leaving # "running"

\* A stop that was asked for ends, whatever the child and the health check do
\* (easytier.rs:372-412).
StopFinishes == main = "asked" ~> ~Alive

\* A crash of the child is followed by a process that runs again, by a Failed
\* report or by the end of the command: it never goes unnoticed (main.rs:153-167).
CrashIsHandled ==
  mode = "serve" /\ child \in {"exited", "reaped"}
    ~> (child = "running" \/ health = "over" \/ main # "serving")

\* "SIGTERM ──> easytier-core (子进程)" (easytier.rs:8-14): stop() signals its child
\* and nothing else.  The code does not keep this when the status of the child was
\* read by a start() that failed, which leaves the handle in place.
OnlyChildSignalled == signalled # "group"
=============================================================================
