----------------------------- MODULE FileWatcher -----------------------------
(***************************************************************************)
(* The file watcher (watcher.rs:14-170): what happens in a watched         *)
(* directory, which of it the notify callback turns into a FileChange, and  *)
(* the unbounded channel the changes go into.                              *)
(***************************************************************************)
EXTENDS Naturals, Sequences

CONSTANTS Paths, Contents, Absent,
          MaxQueue          \* bound: changes in the channel

ASSUME WatcherAssumption == Absent \notin Contents /\ MaxQueue \in Nat

VARIABLES
  disk,      \* what a path of the directory holds
  watcher,   \* "new", "running", "ended": the thread of start
  watched,   \* it has a path to watch
  chan,      \* FileChanges sent and not received
  unseen     \* ghost: paths whose last edit put nothing into the channel

wvars == <<disk, watcher, watched, chan, unseen>>

FileChanges == [kind : {"Created", "Modified", "Removed"}, path : Paths]
               \cup [kind : {"Renamed"}, path : Paths, to : Paths]

\* The paths a change names.
Of(change) == IF change.kind = "Renamed" THEN {change.path, change.to} ELSE {change.path}
Named(changes) == UNION {Of(changes[i]) : i \in DOMAIN changes}

\* The callback: at most one change.  A Name event with one path is a move into the
\* directory or out of it; it is ignored, as is every "other" kind of event: among
\* them CreateKind, ModifyKind and RemoveKind::Any, which some systems report.
Translate(event) ==
  LET kinds == [create |-> "Created", data |-> "Modified", metadata |-> "Modified",
                remove |-> "Removed"]
  IN IF event.kind \in DOMAIN kinds THEN <<[kind |-> kinds[event.kind], path |-> event.paths[1]]>>
     ELSE IF event.kind = "name" /\ Len(event.paths) >= 2
          THEN <<[kind |-> "Renamed", path |-> event.paths[1], to |-> event.paths[2]]>>
          ELSE <<>>

InitWatcher ==
  /\ disk \in [Paths -> Contents \cup {Absent}]
  /\ watcher = "new" /\ watched = FALSE /\ chan = <<>> /\ unseen = {}

WatchPath ==   \* watch_path of a directory that exists; else it does nothing
  /\ watcher = "new" /\ ~watched /\ watched' = TRUE
  /\ UNCHANGED <<disk, watcher, chan, unseen>>

\* start: without a path it bails.
Start ==
  /\ watcher = "new" /\ watched
  /\ watcher' = "running"
  /\ UNCHANGED <<disk, watched, chan, unseen>>

\* start bails, fails, or returns from park, which may wake without a reason.
\* Its senders are dropped.
WatcherEnds ==
  /\ \/ watcher = "running" \/ watcher = "new"
  /\ watcher' = "ended"
  /\ UNCHANGED <<disk, watched, chan, unseen>>

-----------------------------------------------------------------------------
(* Other programs edit the directory; the operating system reports it.      *)

\* While the watcher runs; and notify may give the callback an error in place of the
\* event, which is only logged.
Happens(event, touched) ==
  \E news \in {Translate(event), <<>>} :
    /\ watcher # "running" => news = <<>>
    /\ Len(chan) < MaxQueue
    /\ chan' = chan \o news
    /\ unseen' = IF news = <<>> THEN unseen \cup touched ELSE unseen \ touched
    /\ UNCHANGED <<watcher, watched>>

Create(p) ==
  /\ disk[p] = Absent
  /\ \E v \in Contents : disk' = [disk EXCEPT ![p] = v]
  /\ \E kind \in {"create", "other"} : Happens([kind |-> kind, paths |-> <<p>>], {p})

\* Data, or permissions and times.
Change(p) ==
  /\ disk[p] # Absent
  /\ \E v \in Contents \ {disk[p]} : disk' = [disk EXCEPT ![p] = v]
  /\ \E kind \in {"data", "metadata", "other"} : Happens([kind |-> kind, paths |-> <<p>>], {p})

Remove(p) ==
  /\ disk[p] # Absent /\ disk' = [disk EXCEPT ![p] = Absent]
  /\ \E kind \in {"remove", "other"} : Happens([kind |-> kind, paths |-> <<p>>], {p})

Rename(p, q) ==
  /\ p # q /\ disk[p] # Absent
  /\ disk' = [disk EXCEPT ![q] = disk[p], ![p] = Absent]
  /\ Happens([kind |-> "name", paths |-> <<p, q>>], {p, q})

MoveOut(p) ==
  /\ disk[p] # Absent /\ disk' = [disk EXCEPT ![p] = Absent]
  /\ Happens([kind |-> "name", paths |-> <<p>>], {p})

Edit == \E p \in Paths : \/ Create(p) \/ Change(p) \/ Remove(p) \/ MoveOut(p)
                         \/ \E q \in Paths : Rename(p, q)

WatcherStep == WatchPath \/ Start \/ WatcherEnds
=============================================================================
