--------------------------- MODULE ChangeCollector ---------------------------
(***************************************************************************)
(* The debouncing collector (watcher.rs:172-229) on the receiver of a       *)
(* FileWatcher.  Its caller calls collect_batch again and again and, when   *)
(* it gets a batch, looks at every path the batch names.                   *)
(***************************************************************************)
EXTENDS FileWatcher, Integers

CONSTANTS Debounce,   \* debounce_interval, in ticks
          MaxBatch    \* bound: nothing happens while the buffer is longer

ASSUME DebounceAssumption == Debounce \in Nat /\ MaxBatch \in Nat

VARIABLES
  cpc,         \* "idle", "first", "check", "more": where collect_batch is
  buffer,
  remaining,   \* ticks to the deadline
  known        \* what the caller found at a path when it last looked

cvars == <<cpc, buffer, remaining, known>>
vars  == <<wvars, cvars>>

Init ==
  /\ InitWatcher /\ known = disk
  /\ cpc = "idle" /\ buffer = <<>> /\ remaining = 0

Closed == watcher = "ended" /\ chan = <<>>

ContainsSamePathVariant(change) ==   \* the path is not compared
  \E i \in DOMAIN buffer : buffer[i].kind = change.kind /\ change.kind # "Renamed"

ContainsSamePath(change) ==
  change.kind # "Renamed" /\ \E i \in DOMAIN buffer : buffer[i] = change

Collect ==
  /\ cpc = "idle" /\ cpc' = "first" /\ buffer' = <<>>
  /\ UNCHANGED <<wvars, remaining, known>>

\* The deadline is set once, after the first event.
TakeFirst ==
  /\ cpc = "first" /\ chan # <<>>
  /\ cpc' = "check" /\ buffer' = <<Head(chan)>> /\ chan' = Tail(chan) /\ remaining' = Debounce
  /\ UNCHANGED <<disk, watcher, watched, unseen, known>>

TakeMoreVariant ==   \* every event restarts the window
  /\ cpc = "more" /\ chan # <<>>
  /\ cpc' = "check" /\ chan' = Tail(chan) /\ remaining' = Debounce
  /\ buffer' = IF ContainsSamePath(Head(chan)) THEN buffer ELSE Append(buffer, Head(chan))
  /\ UNCHANGED <<disk, watcher, watched, unseen, known>>

\* timeout asks the channel before it asks the clock.
TakeMore ==
  /\ cpc = "more" /\ chan # <<>>
  /\ cpc' = "check" /\ chan' = Tail(chan)
  /\ buffer' = IF ContainsSamePath(Head(chan)) THEN buffer ELSE Append(buffer, Head(chan))
  /\ UNCHANGED <<disk, watcher, watched, unseen, remaining, known>>

GoOn ==
  /\ cpc = "check" /\ remaining > 0 /\ cpc' = "more"
  /\ UNCHANGED <<wvars, buffer, remaining, known>>

\* collect_batch returns its buffer.
GivesBatch ==
  /\ cpc' = "idle" /\ buffer' = <<>>
  /\ known' = [p \in Paths |-> IF p \in Named(buffer) THEN disk[p] ELSE known[p]]
  /\ unseen' = unseen \ Named(buffer)
  /\ UNCHANGED <<disk, watcher, watched, chan, remaining>>

ReturnsEmptyVariant == cpc = "first" /\ chan = <<>> /\ GivesBatch   \* the wait has a timeout

ReturnsEmpty == cpc = "first" /\ Closed /\ GivesBatch

ReturnsLate == cpc = "check" /\ remaining = 0 /\ GivesBatch

ReturnsWaiting == cpc = "more" /\ chan = <<>> /\ (remaining = 0 \/ Closed) /\ GivesBatch

TickVariant == remaining' = remaining - 1 /\ cpc \in {"check", "more"} /\ UNCHANGED <<wvars, cpc, buffer, known>>

Tick ==   \* saturating_duration_since
  /\ cpc \in {"check", "more"} /\ remaining > 0 /\ remaining' = remaining - 1
  /\ UNCHANGED <<wvars, cpc, buffer, known>>

Returns == ReturnsEmpty \/ ReturnsLate \/ ReturnsWaiting
CollectorStep == TakeFirst \/ TakeMore \/ GoOn \/ Returns

Next ==
  \/ WatcherStep /\ UNCHANGED cvars
  \/ Edit /\ Len(buffer) < MaxBatch /\ UNCHANGED cvars
  \/ Collect \/ CollectorStep \/ Tick

Spec == Init /\ [][Next]_vars

\* The task runs and time passes; nothing has to happen in the directory.
FairSpec == Spec /\ WF_vars(CollectorStep) /\ WF_vars(Tick)

-----------------------------------------------------------------------------
(* Properties.                                                             *)

\* The variables hold values of their types, and no deadline lies in the past.
TypeOK ==
  /\ disk \in [Paths -> Contents \cup {Absent}] /\ known \in [Paths -> Contents \cup {Absent}]
  /\ watcher \in {"new", "running", "ended"} /\ watched \in BOOLEAN
  /\ chan \in Seq(FileChanges) /\ buffer \in Seq(FileChanges)
  /\ unseen \subseteq Paths
  /\ cpc \in {"idle", "first", "check", "more"} /\ remaining \in 0 .. Debounce

\* Merging events hides no path (watcher.rs:206-228): where the caller's picture differs
\* from the directory, the path is named by an event in the channel or the buffer, or its
\* last edit was one the watcher does not report.  (The merged events of a path do not
\* tell whether it exists: Created, Removed, Created gives Created, Removed.)
NothingHidden ==
  \A p \in Paths : known[p] # disk[p] => p \in unseen \cup Named(chan) \cup Named(buffer)

\* An empty batch means that the watcher has ended and that everything it sent has been
\* given to the caller (watcher.rs:193-196); a quiet directory never gives one.
EmptyMeansEnded ==
  [][cpc # "idle" /\ cpc' = "idle" /\ buffer = <<>> => watcher = "ended" /\ chan = <<>>]_vars

\* A batch that has begun is given to the caller although events never stop coming, since
\* the deadline is that of its first event (watcher.rs:199-216).
BatchEnds == cpc \in {"check", "more"} ~> cpc = "idle"
=============================================================================
