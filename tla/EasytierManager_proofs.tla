------------------------ MODULE EasytierManager_proofs ------------------------
(***************************************************************************)
(* Proofs about EasytierManager for every value of max_restarts: who holds *)
(* the manager when, and how many processes the restart count allows.      *)
(***************************************************************************)
EXTENDS EasytierManager, TLAPS

\* An operation is under way only while somebody holds the manager; stop() holds it
\* from the moment it takes the child to the moment the child is gone.
HolderInv ==
  /\ holder = "free" => op = "none"
  /\ main = "starting" => holder = "main" /\ restarts = 0 /\ (child = "none" => spawns = 0)
  /\ main = "stopping" => holder = "main" /\ op = "none" /\ child = "none"
  /\ leaving # "none" => main = "stopping"
  /\ ~Alive => child = "none" /\ op = "none"

\* Every process but the first was counted as a restart before it was spawned.
SpawnsInv ==
  /\ spawns <= 1 + restarts
  /\ op = "start" /\ child = "none" => spawns <= restarts

IInv == TypeOK /\ HolderInv /\ SpawnsInv

\* The initial state satisfies the invariant.
LEMMA InitIInv == Init => IInv
  <1>1. ASSUME Init PROVE TypeOK
    <2>1. fallback \in BOOLEAN
      BY <1>1, Zenon DEF Init
    <2>2. 0 \in 0 .. MaxRestarts
      BY MaxRestartsAssumption
    <2> QED  BY <1>1, <2>1, <2>2 DEF Init, TypeOK
  <1>2. ASSUME Init PROVE HolderInv /\ SpawnsInv
    BY <1>2 DEF Init, HolderInv, SpawnsInv, Alive
  <1> QED  BY <1>1, <1>2 DEF IInv

\* A step of start() keeps it.
LEMMA StartKeeps == ASSUME IInv, StartStep PROVE IInv'
  <1> USE MaxRestartsAssumption DEF IInv, TypeOK, HolderInv, SpawnsInv, Alive, StartOnly,
          command
  <1>1. CASE StartNoop
    BY <1>1 DEF StartNoop
  <1>2. CASE SpawnFails
    BY <1>2 DEF SpawnFails
  <1>3. CASE Spawn
    BY <1>3 DEF Spawn
  <1>4. CASE Ready
    BY <1>4 DEF Ready
  <1>5. CASE ExitsEarly
    BY <1>5 DEF ExitsEarly
  <1>6. CASE ReadyUnknown
    BY <1>6 DEF ReadyUnknown
  <1> QED  BY <1>1, <1>2, <1>3, <1>4, <1>5, <1>6 DEF StartStep

\* A step of the command's own task keeps it.
LEMMA CommandKeeps == ASSUME IInv, StopStep \/ MainStep \/ Finish PROVE IInv'
  <1> USE MaxRestartsAssumption DEF IInv, TypeOK, HolderInv, SpawnsInv, Alive, manager
  <1>1. CASE StopNothing
    BY <1>1 DEF StopNothing
  <1>2. CASE StopBegins
    BY <1>2 DEF StopBegins
  <1>3. CASE StopSignalsGroup
    BY <1>3 DEF StopSignalsGroup
  <1>4. CASE Serving
    BY <1>4 DEF Serving
  <1>5. CASE FallBack
    BY <1>5 DEF FallBack
  <1>6. CASE GivesUp
    BY <1>6 DEF GivesUp, Dropped
  <1>7. CASE StopEnds
    BY <1>7 DEF StopEnds
  <1>8. CASE Exit
    BY <1>8 DEF Exit, Dropped
  <1>9. CASE Finish
    BY <1>9 DEF Finish
  <1> QED
    BY <1>1, <1>2, <1>3, <1>4, <1>5, <1>6, <1>7, <1>8, <1>9 DEF StopStep, MainStep

\* A step of the health check keeps it.
LEMMA HealthKeeps == ASSUME IInv, HealthStep \/ RestartEnds PROVE IInv'
  <1> USE MaxRestartsAssumption DEF IInv, TypeOK, HolderInv, SpawnsInv, Alive, CanCheck, Answer
  <1>1. CASE FindsRunning
    BY <1>1 DEF FindsRunning
  <1>2. CASE FindsExited
    <2>1. CASE Restart
      BY <1>2, <2>1 DEF FindsExited, Restart
    <2>2. CASE restarts >= MaxRestarts /\ Answer("Crashed") /\ UNCHANGED <<restarts, spawns>>
      BY <1>2, <2>2 DEF FindsExited
    <2> QED  BY <1>2, <2>1, <2>2 DEF FindsExited
  <1>3. CASE FindsNone
    <2>1. CASE Restart
      BY <1>3, <2>1 DEF FindsNone, Restart
    <2>2. CASE restarts >= MaxRestarts /\ Answer("Failed") /\ UNCHANGED <<restarts, spawns>>
      BY <1>3, <2>2 DEF FindsNone
    <2> QED  BY <1>3, <2>1, <2>2 DEF FindsNone
  <1>4. CASE FindsUnknown
    BY <1>4 DEF FindsUnknown
  <1>5. CASE RestartEnds
    BY <1>5 DEF RestartEnds
  <1> QED  BY <1>1, <1>2, <1>3, <1>4, <1>5 DEF HealthStep

\* The inductive invariant holds in every reachable state.
LEMMA Invariance == Spec => []IInv
  <1>1. ASSUME IInv, ChildExits PROVE IInv'
    BY <1>1 DEF ChildExits, IInv, TypeOK, HolderInv, SpawnsInv, Alive, command
  <1>2. ASSUME IInv, UNCHANGED vars PROVE IInv'
    BY <1>2 DEF vars, IInv, TypeOK, HolderInv, SpawnsInv, Alive
  <1>3. IInv /\ [Next]_vars => IInv'
    BY <1>1, <1>2, StartKeeps, CommandKeeps, HealthKeeps DEF Next
  <1> QED  BY InitIInv, <1>3, PTL DEF Spec

\* Every variable keeps its type.
THEOREM TypeCorrect == Spec => []TypeOK
  <1>1. IInv => TypeOK
    BY DEF IInv
  <1> QED  BY Invariance, <1>1, PTL

\* Between two stops at most 1 + max_restarts processes are spawned.
THEOREM RestartsBounded == Spec => []SpawnsBounded
  <1>1. IInv => SpawnsBounded
    BY MaxRestartsAssumption DEF IInv, TypeOK, SpawnsInv, SpawnsBounded
  <1> QED  BY Invariance, <1>1, PTL

\* There is never a second easytier-core, and none when the command has returned.
THEOREM SingleProcess == Spec => []OneProcess
  <1>1. IInv => OneProcess
    BY DEF IInv, TypeOK, HolderInv, Alive, OneProcess
  <1> QED  BY Invariance, <1>1, PTL

-----------------------------------------------------------------------------
(* What leads to pid 0.                                                    *)

\* A start() that saw its child exit leaves a handle without a pid.  Only the health
\* check of serve and the second start() of start-connect come after such a start().
ReapedInv ==
  /\ child = "reaped" =>
       \/ mode = "serve" /\ (report = "Running" \/ holder = "health" => op = "err" /\ holder = "health")
       \/ mode = "listen" /\ (fallback \/ (main = "starting" /\ op = "err"))
       \/ mode = "dial" /\ main = "starting" /\ op = "err"
  /\ holder = "health" \/ health # "off" => mode = "serve"
  /\ mode = "serve" /\ main = "starting" => report = "none"
  /\ op = "start" /\ holder = "health" => child = "none"
  /\ op # "none" => holder = "health" \/ (holder = "main" /\ main = "starting")
  /\ signalled = "group" => main = "killed"

\* stop() signals its whole process group, pid 0, only after a start() that failed
\* (easytier.rs:380, unwrap_or(0)): connect never does, start-connect only after it
\* has fallen back to the standard mode, and serve only if its last health check, if
\* any, did not report a running child.
GroupSignalCause ==
  signalled = "group" => \/ mode = "serve" /\ report # "Running"
                         \/ mode = "listen" /\ fallback

LEMMA InitReaped == Init => ReapedInv /\ GroupSignalCause
  BY DEF Init, ReapedInv, GroupSignalCause

LEMMA StartReaped ==
  ASSUME IInv, ReapedInv, GroupSignalCause, StartStep
  PROVE  ReapedInv' /\ GroupSignalCause'
  <1> USE DEF IInv, TypeOK, HolderInv, ReapedInv, GroupSignalCause, Alive, StartOnly, command
  <1>1. CASE StartNoop
    BY <1>1 DEF StartNoop
  <1>2. CASE SpawnFails
    BY <1>2 DEF SpawnFails
  <1>3. CASE Spawn
    BY <1>3 DEF Spawn
  <1>4. CASE Ready
    BY <1>4 DEF Ready
  <1>5. CASE ExitsEarly
    BY <1>5 DEF ExitsEarly
  <1>6. CASE ReadyUnknown
    BY <1>6 DEF ReadyUnknown
  <1> QED  BY <1>1, <1>2, <1>3, <1>4, <1>5, <1>6 DEF StartStep

LEMMA CommandReaped ==
  ASSUME IInv, ReapedInv, GroupSignalCause, StopStep \/ MainStep \/ Finish
  PROVE  ReapedInv' /\ GroupSignalCause'
  <1> USE DEF IInv, TypeOK, HolderInv, ReapedInv, GroupSignalCause, Alive, manager
  <1>1. CASE StopNothing
    BY <1>1 DEF StopNothing
  <1>2. CASE StopBegins
    BY <1>2 DEF StopBegins
  <1>3. CASE StopSignalsGroup
    BY <1>3 DEF StopSignalsGroup
  <1>4. CASE Serving
    BY <1>4 DEF Serving
  <1>5. CASE FallBack
    BY <1>5 DEF FallBack
  <1>6. CASE GivesUp
    BY <1>6 DEF GivesUp, Dropped
  <1>7. CASE StopEnds
    BY <1>7 DEF StopEnds
  <1>8. CASE Exit
    BY <1>8 DEF Exit, Dropped
  <1>9. CASE Finish
    BY <1>9 DEF Finish
  <1> QED
    BY <1>1, <1>2, <1>3, <1>4, <1>5, <1>6, <1>7, <1>8, <1>9 DEF StopStep, MainStep

LEMMA HealthReaped ==
  ASSUME IInv, ReapedInv, GroupSignalCause, HealthStep \/ RestartEnds
  PROVE  ReapedInv' /\ GroupSignalCause'
  <1> USE DEF IInv, TypeOK, HolderInv, ReapedInv, GroupSignalCause, Alive, CanCheck, Answer
  <1>1. CASE FindsRunning
    BY <1>1 DEF FindsRunning
  <1>2. CASE FindsExited
    BY <1>2 DEF FindsExited, Restart
  <1>3. CASE FindsNone
    BY <1>3 DEF FindsNone, Restart
  <1>4. CASE FindsUnknown
    BY <1>4 DEF FindsUnknown
  <1>5. CASE RestartEnds
    BY <1>5 DEF RestartEnds
  <1> QED  BY <1>1, <1>2, <1>3, <1>4, <1>5 DEF HealthStep

\* The wrong signal needs a failed start(), and connect never sends it.
THEOREM GroupSignalExplained == Spec => []GroupSignalCause
  <1>1. ASSUME ReapedInv, GroupSignalCause, ChildExits PROVE ReapedInv' /\ GroupSignalCause'
    BY <1>1 DEF ChildExits, ReapedInv, GroupSignalCause, command
  <1>2. ASSUME ReapedInv, GroupSignalCause, UNCHANGED vars PROVE ReapedInv' /\ GroupSignalCause'
    BY <1>2 DEF vars, ReapedInv, GroupSignalCause
  <1>3. IInv /\ ReapedInv /\ GroupSignalCause /\ [Next]_vars => ReapedInv' /\ GroupSignalCause'
    BY <1>1, <1>2, StartReaped, CommandReaped, HealthReaped DEF Next
  <1> QED  BY InitReaped, Invariance, <1>3, PTL DEF Spec
=============================================================================
