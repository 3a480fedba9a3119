------------------------------ MODULE SyncState ------------------------------
(***************************************************************************)
(* The persistent index cache of one sync pair (state.rs) and the daemon's *)
(* use of it (daemon.rs: new, handle_local_changes), with the directory    *)
(* changing under the walk, the process crashing at any point, the walk,   *)
(* a hash or the save failing.                                             *)
(*                                                                         *)
(* A content stands for its hash; a file's stamp is its size and the whole *)
(* second of its last write, all that incremental_update compares.         *)
(***************************************************************************)
EXTENDS Integers

CONSTANTS Paths, Contents,
          Size,       \* size of each content
          ZeroHash,   \* Hash::from([0; 32]), recorded when hashing fails
          NoEntry,    \* no record, or no FileEntry, for a path
          DirSize,    \* metadata.len() of a directory
          MaxTime,    \* bound: seconds on the clock
          Spaced,     \* TRUE: a path is written at most once in a second
          MayFail     \* TRUE: hashing a file that exists may fail

Hashes  == Contents \cup {ZeroHash}
Times   == 1 .. MaxTime
Stamps  == [size : Nat, modified : Nat]
Entries == [size : Nat, modified : Nat, hash : Hashes]      \* FileStateEntry
FileEntries == [size : Nat, modified : Nat, hash : Hashes, is_dir : BOOLEAN]

ASSUME SizeAssumption == Size \in [Contents -> Nat]
ASSUME ValuesAssumption == /\ ZeroHash \notin Contents
                           /\ NoEntry \notin Entries /\ NoEntry \notin FileEntries
                           /\ DirSize \in Nat
ASSUME SwitchAssumption == MaxTime \in Nat /\ Spaced \in BOOLEAN /\ MayFail \in BOOLEAN

VARIABLES
  kind, content, mtime,  \* the paths: "absent", "dir" or "file", and their data
  now,        \* the second the clock shows
  written,    \* second in which each path was last written, 0 for never
  quiet,      \* no path changed since the walk began
  up,         \* the process runs
  files,      \* SyncState.files
  saved, savedOk,        \* the state file; savedOk = FALSE: missing or unreadable
  pc,         \* where incremental_update is: "idle", "walk", "hash", "save"
  todo,       \* paths the walk has not come to
  cur, stat,  \* the file being looked at and its metadata
  seen,       \* seen_paths
  entries     \* the FileEntry of every path visited so far

disk    == <<kind, content, mtime, written>>
process == <<up, files, pc, todo, cur, stat, seen, entries>>
onDisk  == <<saved, savedOk>>
vars == <<disk, now, quiet, process, onDisk>>

Nothing == [f \in Paths |-> NoEntry]

Init ==
  /\ kind = [f \in Paths |-> "absent"]
  /\ \E c \in Contents : content = [f \in Paths |-> c]
  /\ mtime = [f \in Paths |-> 0] /\ written = [f \in Paths |-> 0]
  /\ now = 1 /\ quiet = TRUE
  /\ up = TRUE /\ files = Nothing
  /\ saved = Nothing /\ savedOk = FALSE
  /\ pc = "idle" /\ todo = {} /\ cur \in Paths
  /\ stat = [size |-> 0, modified |-> 0]
  /\ seen = {} /\ entries = Nothing

-----------------------------------------------------------------------------
(* Other programs change the directory, at any time.                       *)

Tick ==
  /\ now < MaxTime
  /\ now' = now + 1
  /\ UNCHANGED <<disk, quiet, process, onDisk>>

Write(f, c) ==
  /\ kind[f] # "dir"
  /\ Spaced => written[f] < now
  /\ kind' = [kind EXCEPT ![f] = "file"]
  /\ content' = [content EXCEPT ![f] = c]
  /\ mtime' = [mtime EXCEPT ![f] = now]
  /\ written' = [written EXCEPT ![f] = now]
  /\ quiet' = FALSE
  /\ UNCHANGED <<now, process, onDisk>>

MakeDir(f) ==
  /\ kind[f] = "absent"
  /\ kind' = [kind EXCEPT ![f] = "dir"]
  /\ mtime' = [mtime EXCEPT ![f] = now]
  /\ quiet' = FALSE
  /\ UNCHANGED <<content, written, now, process, onDisk>>

\* A path below f comes or goes.
TouchDir(f) ==
  /\ kind[f] = "dir"
  /\ mtime' = [mtime EXCEPT ![f] = now]
  /\ quiet' = FALSE
  /\ UNCHANGED <<kind, content, written, now, process, onDisk>>

Remove(f) ==
  /\ kind[f] # "absent"
  /\ kind' = [kind EXCEPT ![f] = "absent"]
  /\ quiet' = FALSE
  /\ UNCHANGED <<content, mtime, written, now, process, onDisk>>

-----------------------------------------------------------------------------
(* incremental_update, one directory entry at a time.                      *)

StatOf(f) == [size |-> Size[content[f]], modified |-> mtime[f]]

BeginWalk ==
  /\ up /\ pc = "idle"
  /\ pc' = "walk"
  /\ todo' = Paths /\ seen' = {} /\ entries' = Nothing
  /\ quiet' = TRUE
  /\ UNCHANGED <<disk, now, up, files, cur, stat, onDisk>>

PassAbsent(f) ==
  /\ up /\ pc = "walk" /\ f \in todo /\ kind[f] = "absent"
  /\ todo' = todo \ {f}
  /\ UNCHANGED <<disk, now, quiet, up, files, pc, cur, stat, seen, entries, onDisk>>

\* Variants named ...Variant are plausible slips in the definition that follows;
\* no specification uses them, they show which property each slip breaks.
VisitDirVariant(f) ==   \* `continue` before the entry is pushed
  /\ up /\ pc = "walk" /\ f \in todo /\ kind[f] = "dir"
  /\ todo' = todo \ {f}
  /\ seen' = seen \cup {f}
  /\ UNCHANGED <<disk, now, quiet, up, files, pc, cur, stat, entries, onDisk>>

Listing(size, modified, hash, isDir) ==
  [size |-> size, modified |-> modified, hash |-> hash, is_dir |-> isDir]

\* A directory is listed, with no size and the time of the visit, and noted as
\* seen; the records are not touched.
VisitDir(f) ==
  /\ up /\ pc = "walk" /\ f \in todo /\ kind[f] = "dir"
  /\ todo' = todo \ {f}
  /\ seen' = seen \cup {f}
  /\ entries' = [entries EXCEPT ![f] = Listing(0, now, ZeroHash, TRUE)]
  /\ UNCHANGED <<disk, now, quiet, up, files, pc, cur, stat, onDisk>>

\* The metadata is read before the content.
VisitFile(f) ==
  /\ up /\ pc = "walk" /\ f \in todo /\ kind[f] = "file"
  /\ todo' = todo \ {f}
  /\ seen' = seen \cup {f}
  /\ cur' = f /\ stat' = StatOf(f)
  /\ pc' = "hash"
  /\ UNCHANGED <<disk, now, quiet, up, files, entries, onDisk>>

UnchangedVariant ==   \* the size alone
  files[cur] # NoEntry /\ files[cur].size = stat.size

\* The record of the path carries the size and second just read.
Unchanged ==
  /\ files[cur] # NoEntry
  /\ files[cur].size = stat.size /\ files[cur].modified = stat.modified

Recorded(h) ==
  /\ files' = [files EXCEPT
                  ![cur] = [size |-> stat.size, modified |-> stat.modified, hash |-> h]]
  /\ entries' = [entries EXCEPT ![cur] = Listing(stat.size, stat.modified, h, FALSE)]
  /\ pc' = "walk"
  /\ UNCHANGED <<disk, now, quiet, up, todo, cur, stat, seen, onDisk>>

ReuseHash == up /\ pc = "hash" /\ Unchanged /\ Recorded(files[cur].hash)

HashFile ==
  /\ up /\ pc = "hash" /\ ~Unchanged /\ kind[cur] = "file"
  /\ Recorded(content[cur])

HashFailsVariant ==   \* no hash at all instead of the zero hash
  /\ up /\ pc = "hash" /\ ~Unchanged
  /\ kind[cur] # "file" \/ MayFail
  /\ Recorded(NoEntry)

\* The file is gone, a directory by now, or cannot be read.
HashFails ==
  /\ up /\ pc = "hash" /\ ~Unchanged
  /\ kind[cur] # "file" \/ MayFail
  /\ Recorded(ZeroHash)

\* The locals of incremental_update end with it.
LocalsDropped ==
  /\ todo' = {} /\ seen' = {} /\ entries' = Nothing
  /\ UNCHANGED <<cur, stat>>

\* `?` on a directory entry or its metadata: the update ends half done.
WalkFails ==
  /\ up /\ pc = "walk" /\ todo # {}
  /\ pc' = "idle" /\ LocalsDropped
  /\ UNCHANGED <<disk, now, quiet, up, files, onDisk>>

EndWalkVariant ==   \* nothing is pruned
  /\ up /\ pc = "walk" /\ todo = {}
  /\ pc' = "save"
  /\ UNCHANGED <<disk, now, quiet, up, files, todo, cur, stat, seen, entries, onDisk>>

EndWalk ==
  /\ up /\ pc = "walk" /\ todo = {}
  /\ files' = [f \in Paths |-> IF f \in seen THEN files[f] ELSE NoEntry]
  /\ pc' = "save"
  /\ UNCHANGED <<disk, now, quiet, up, todo, cur, stat, seen, entries, onDisk>>

-----------------------------------------------------------------------------
(* save, then the index goes to the remote node whatever save returned.    *)

Done == pc' = "idle" /\ LocalsDropped /\ UNCHANGED <<disk, now, quiet, up, files>>

Save ==
  /\ up /\ pc = "save"
  /\ saved' = files /\ savedOk' = TRUE
  /\ Done

\* The directory cannot be created, or the write stops half way.
SaveFails ==
  /\ up /\ pc = "save"
  /\ savedOk' \in {savedOk, FALSE}
  /\ UNCHANGED saved
  /\ Done

-----------------------------------------------------------------------------
(* The process dies; a crash inside fs::write leaves a torn state file.    *)

Crash ==
  /\ up
  /\ up' = FALSE /\ pc' = "idle" /\ files' = Nothing /\ LocalsDropped
  /\ savedOk' \in {savedOk} \cup (IF pc = "save" THEN {FALSE} ELSE {})
  /\ UNCHANGED <<disk, now, quiet, saved>>

\* SyncDaemon::new: a missing or unreadable state file means an empty state.
Restart ==
  /\ ~up
  /\ up' = TRUE
  /\ files' = IF savedOk THEN saved ELSE Nothing
  /\ UNCHANGED <<disk, now, quiet, pc, todo, cur, stat, seen, entries, onDisk>>

Environment ==
  \/ Tick
  \/ \E f \in Paths : MakeDir(f) \/ TouchDir(f) \/ Remove(f) \/ \E c \in Contents : Write(f, c)

Update ==
  \/ BeginWalk \/ ReuseHash \/ HashFile \/ HashFails \/ WalkFails \/ EndWalk
  \/ \E f \in Paths : PassAbsent(f) \/ VisitDir(f) \/ VisitFile(f)

Next == Environment \/ Update \/ Save \/ SaveFails \/ Crash \/ Restart

Spec == Init /\ [][Next]_vars

-----------------------------------------------------------------------------
(* Properties.                                                             *)

\* Every variable keeps its type (state.rs:19-38).
TypeOK ==
  /\ kind \in [Paths -> {"absent", "dir", "file"}]
  /\ content \in [Paths -> Contents]
  /\ mtime \in [Paths -> Nat] /\ written \in [Paths -> Nat] /\ now \in Nat
  /\ quiet \in BOOLEAN /\ up \in BOOLEAN /\ savedOk \in BOOLEAN
  /\ files \in [Paths -> Entries \cup {NoEntry}]
  /\ saved \in [Paths -> Entries \cup {NoEntry}]
  /\ pc \in {"idle", "walk", "hash", "save"}
  /\ todo \in SUBSET Paths /\ seen \in SUBSET Paths
  /\ cur \in Paths /\ stat \in Stamps
  /\ entries \in [Paths -> FileEntries \cup {NoEntry}]

\* What build_file_index (sync.rs:63-153) makes of the directory as it is now.
FullIndex ==
  [f \in Paths |->
     CASE kind[f] = "absent" -> NoEntry
       [] kind[f] = "dir" -> Listing(DirSize, mtime[f], ZeroHash, TRUE)
       [] kind[f] = "file" -> Listing(Size[content[f]], mtime[f], content[f], FALSE)]

\* A recorded hash that the fast path would reuse is the hash of the file.
RecordSound(e, f) ==
  e # NoEntry /\ kind[f] = "file" /\ e.size = Size[content[f]] /\ e.modified = mtime[f]
    => e.hash = content[f] \/ (MayFail /\ e.hash = ZeroHash)

\* The fast path of state.rs:175 never reuses a wrong hash, in memory or in the
\* state file a restart would load, although files change between the metadata
\* and the hash, walks stop half way and the process dies: provided a path is
\* written at most once in a second.  ("如果 mtime 已变 → 重新计算哈希", state.rs:94, is
\* true of whole seconds only, to which state.rs:164 cuts the time.)
ReuseIsSound ==
  Spaced => \A f \in Paths : RecordSound(files[f], f) /\ (savedOk => RecordSound(saved[f], f))

\* e, of an incremental update, stands for r, of a full rebuild: they are the same,
\* except that a directory comes with no size and a time between its own and now.
StandsFor(e, r) ==
  \/ e = r
  \/ /\ e # NoEntry /\ r # NoEntry /\ e.is_dir /\ r.is_dir
     /\ e.hash = r.hash /\ r.modified <= e.modified /\ e.modified <= now

\* An update during which nothing changes on disk sends, for every file and every
\* path that is gone, what a full rebuild of the index would (daemon.rs:182
\* "增量更新 (仅重哈希变更的文件)"), however old the cache it started from; a directory
\* it lists as a directory of the same hash, which may look newer than it is
\* (state.rs:151) but never older.
UpdateMatchesRebuild ==
  Spaced /\ ~MayFail /\ pc = "save" /\ quiet
    => \A f \in Paths : StandsFor(entries[f], FullIndex[f])

\* After such an update no record is left for a path that is gone.
NoRecordOfAbsent ==
  pc = "save" /\ quiet => \A f \in Paths : files[f] # NoEntry => kind[f] # "absent"
=============================================================================
