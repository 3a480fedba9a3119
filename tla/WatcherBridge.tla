---------------------------- MODULE WatcherBridge ----------------------------
(***************************************************************************)
(* How serve wires the file watcher to the daemon (main.rs:113-132) and the *)
(* bridge that is to carry its changes (daemon.rs:369-418).  The bridge is  *)
(* given the watcher itself, of which it takes the receiver; only spawn     *)
(* calls start, and serve calls spawn only when there is nothing to watch.  *)
(***************************************************************************)
EXTENDS FileWatcher

CONSTANT WatchedPairs   \* enabled pairs with watch set

VARIABLES
  owner,       \* who has the FileWatcher: "main", "bridge", "thread"
  batch,       \* what the bridge has received and not submitted
  submitted,   \* pairs for which a LocalChange was sent to the daemon
  edited       \* ghost: something happened in a directory since serve is wired

bvars == <<owner, batch, submitted, edited>>
vars  == <<wvars, bvars>>

Init == InitWatcher /\ owner = "main" /\ batch = <<>> /\ submitted = {} /\ edited = FALSE

\* The directories exist: serve has validated its configuration.
WireWatcher ==
  /\ owner = "main"
  /\ owner' = IF WatchedPairs # {} THEN "bridge" ELSE "thread"
  /\ watched' = (WatchedPairs # {})
  /\ UNCHANGED <<disk, watcher, chan, unseen, batch, submitted, edited>>

ThreadRuns == owner = "thread" /\ (Start \/ WatcherEnds) /\ UNCHANGED bvars

\* One LocalChange for every pair, whichever directory the changes are in.
FlushBatch(changes) == batch' = <<>> /\ submitted' = submitted \cup WatchedPairs

\* At once if the last flush is long enough ago.
BridgeTakes ==
  /\ owner = "bridge" /\ chan # <<>> /\ chan' = Tail(chan)
  /\ \/ FlushBatch(Append(batch, Head(chan)))
     \/ batch' = Append(batch, Head(chan)) /\ UNCHANGED submitted
  /\ UNCHANGED <<disk, watcher, watched, unseen, owner, edited>>

BridgeTimesOut ==
  /\ owner = "bridge" /\ chan = <<>> /\ batch # <<>> /\ FlushBatch(batch)
  /\ UNCHANGED <<wvars, owner, edited>>

BridgeStep == BridgeTakes \/ BridgeTimesOut

Next ==
  \/ WireWatcher \/ ThreadRuns \/ BridgeStep
  \/ /\ owner # "main" /\ \E p \in Paths : Create(p) \/ Change(p) \/ Remove(p)
     /\ edited' = TRUE /\ UNCHANGED <<owner, batch, submitted>>

Spec == Init /\ [][Next]_vars
             /\ WF_vars(WireWatcher) /\ WF_vars(ThreadRuns) /\ WF_vars(BridgeStep)

\* "启动文件监控 → 注入到 daemon" (main.rs:113): once serve watches a directory, a change
\* in it reaches the daemon as a LocalChange in the end.
ChangesReachDaemon == edited /\ WatchedPairs # {} ~> submitted = WatchedPairs
=============================================================================
