--------------------------- MODULE SyncState_proofs ---------------------------
(***************************************************************************)
(* Proofs about SyncState for every set of paths and contents.             *)
(*                                                                         *)
(* StampInv says that no record is younger than the last write of its      *)
(* path; with one write per second at most, every later write then makes   *)
(* the record's stamp differ.  WalkInv says what an undisturbed update     *)
(* knows of the paths it has been through.                                 *)
(***************************************************************************)
EXTENDS SyncState, TLAPS

NotAfterWrite(e, f) == e # NoEntry => e.modified <= written[f]

StampInv ==
  /\ \A f \in Paths : /\ kind[f] = "file" => mtime[f] = written[f]
                      /\ written[f] <= now /\ mtime[f] <= now
                      /\ NotAfterWrite(files[f], f) /\ NotAfterWrite(saved[f], f)
  /\ pc = "hash" => stat.modified <= written[cur]

\* Stronger than ReuseIsSound: of the state file even when it is torn.
SoundInv ==
  Spaced => \A f \in Paths : RecordSound(files[f], f) /\ RecordSound(saved[f], f)

IInv == TypeOK /\ StampInv /\ SoundInv

\* No record and no entry is the mark that stands for none.
LEMMA EntryFacts ==
  ASSUME NEW e \in Entries
  PROVE  e # NoEntry /\ e.size \in Nat /\ e.modified \in Nat /\ e.hash \in Hashes
  BY ValuesAssumption DEF Entries

LEMMA ListingFacts ==
  ASSUME NEW size \in Nat, NEW modified \in Nat, NEW h \in Hashes, NEW isDir \in BOOLEAN
  PROVE  /\ Listing(size, modified, h, isDir) \in FileEntries
         /\ Listing(size, modified, h, isDir) # NoEntry
         /\ Listing(size, modified, h, isDir).modified = modified
         /\ Listing(size, modified, h, isDir).hash = h
         /\ Listing(size, modified, h, isDir).is_dir = isDir
  BY ValuesAssumption DEF Listing, FileEntries

\* What the hash step records is a record, and stands for the metadata read.
LEMMA RecordedEntry ==
  ASSUME TypeOK, NEW h \in Hashes, Recorded(h)
  PROVE  \E e \in Entries :
           /\ e.size = stat.size /\ e.modified = stat.modified /\ e.hash = h
           /\ files' = [files EXCEPT ![cur] = e]
           /\ entries' = [entries EXCEPT ![cur] = Listing(stat.size, stat.modified, h, FALSE)]
           /\ files' \in [Paths -> Entries \cup {NoEntry}]
           /\ entries' \in [Paths -> FileEntries \cup {NoEntry}]
           /\ pc' = "walk" /\ UNCHANGED <<disk, now, quiet, up, todo, cur, stat, seen, onDisk>>
  <1> DEFINE e == [size |-> stat.size, modified |-> stat.modified, hash |-> h]
             l == Listing(stat.size, stat.modified, h, FALSE)
  <1>1. stat.size \in Nat /\ stat.modified \in Nat
    BY DEF TypeOK, Stamps
  <1>2. e \in Entries /\ l \in FileEntries
    BY <1>1, ListingFacts DEF Entries
  <1>3. files' = [files EXCEPT ![cur] = e] /\ entries' = [entries EXCEPT ![cur] = l]
        /\ pc' = "walk" /\ UNCHANGED <<disk, now, quiet, up, todo, cur, stat, seen, onDisk>>
    BY DEF Recorded
  <1>4. e.size = stat.size /\ e.modified = stat.modified /\ e.hash = h
    OBVIOUS
  <1> HIDE DEF e, l
  <1>5. files' \in [Paths -> Entries \cup {NoEntry}]
        /\ entries' \in [Paths -> FileEntries \cup {NoEntry}]
    BY <1>2, <1>3 DEF TypeOK
  <1> QED  BY <1>2, <1>3, <1>4, <1>5 DEF l

\* A hash step records a hash: one it reuses, the file's, or zero.
LEMMA HashStep ==
  ASSUME TypeOK, ReuseHash \/ HashFile \/ HashFails
  PROVE  \E h \in Hashes :
           /\ Recorded(h) /\ up /\ pc = "hash"
           /\ \/ Unchanged /\ h = files[cur].hash
              \/ ~Unchanged /\ kind[cur] = "file" /\ h = content[cur]
              \/ ~Unchanged /\ (kind[cur] # "file" \/ MayFail) /\ h = ZeroHash
  <1>1. CASE ReuseHash
    <2>1. files[cur] \in Entries
      BY <1>1 DEF ReuseHash, Unchanged, TypeOK
    <2> QED  BY <1>1, <2>1, EntryFacts DEF ReuseHash
  <1>2. CASE HashFile
    BY <1>2 DEF HashFile, TypeOK, Hashes
  <1>3. CASE HashFails
    BY <1>3 DEF HashFails, Hashes
  <1> QED  BY <1>1, <1>2, <1>3

\* The initial state satisfies the invariant.
LEMMA InitIInv == Init => IInv
  <1> SUFFICES ASSUME Init PROVE IInv
    OBVIOUS
  <1>1. PICK c \in Contents : content = [f \in Paths |-> c]
    BY DEF Init
  <1>2. TypeOK
    BY <1>1, SizeAssumption DEF Init, TypeOK, Nothing, Stamps
  <1>3. StampInv /\ SoundInv
    BY DEF Init, StampInv, SoundInv, NotAfterWrite, RecordSound, Nothing
  <1> QED  BY <1>2, <1>3 DEF IInv

\* Every step keeps the types.
LEMMA TypeStep ==
  ASSUME TypeOK, [Next]_vars PROVE TypeOK'
  <1> USE DEF disk, process, onDisk
  <1>1. CASE Tick
    BY <1>1 DEF Tick, TypeOK
  <1>2. ASSUME NEW f \in Paths, NEW c \in Contents, Write(f, c) PROVE TypeOK'
    BY <1>2 DEF Write, TypeOK
  <1>3. ASSUME NEW f \in Paths, MakeDir(f) \/ TouchDir(f) \/ Remove(f) PROVE TypeOK'
    BY <1>3 DEF MakeDir, TouchDir, Remove, TypeOK
  <1>4. CASE BeginWalk
    BY <1>4 DEF BeginWalk, TypeOK, Nothing
  <1>5. ASSUME NEW f \in Paths, PassAbsent(f) \/ VisitDir(f) PROVE TypeOK'
    <2>1. now \in Nat /\ ZeroHash \in Hashes
      BY DEF TypeOK, Hashes
    <2>2. Listing(0, now, ZeroHash, TRUE) \in FileEntries
      BY <2>1, ListingFacts
    <2>3. CASE PassAbsent(f)
      BY <2>3 DEF PassAbsent, TypeOK
    <2>4. CASE VisitDir(f)
      <3> DEFINE l == Listing(0, now, ZeroHash, TRUE)
      <3>1. entries' = [entries EXCEPT ![f] = l] /\ l \in FileEntries
        BY <2>2, <2>4 DEF VisitDir
      <3> HIDE DEF l
      <3> QED  BY <2>4, <3>1 DEF VisitDir, TypeOK
    <2> QED  BY <1>5, <2>3, <2>4
  <1>6. ASSUME NEW f \in Paths, VisitFile(f) PROVE TypeOK'
    BY <1>6, SizeAssumption DEF VisitFile, StatOf, TypeOK, Stamps
  <1>7. CASE ReuseHash \/ HashFile \/ HashFails
    BY <1>7, HashStep, RecordedEntry DEF TypeOK
  <1>8. CASE WalkFails
    BY <1>8 DEF WalkFails, LocalsDropped, TypeOK, Nothing
  <1>9. CASE EndWalk
    BY <1>9 DEF EndWalk, TypeOK
  <1>10. CASE Save \/ SaveFails
    BY <1>10 DEF Save, SaveFails, Done, LocalsDropped, TypeOK, Nothing
  <1>11. CASE Crash
    BY <1>11 DEF Crash, LocalsDropped, TypeOK, Nothing
  <1>12. CASE Restart
    BY <1>12 DEF Restart, TypeOK, Nothing
  <1>13. CASE UNCHANGED vars
    BY <1>13 DEF vars, TypeOK
  <1> QED
    BY <1>1, <1>2, <1>3, <1>4, <1>5, <1>6, <1>7, <1>8, <1>9, <1>10, <1>11,
       <1>12, <1>13 DEF Next, Environment, Update

\* Every step keeps the stamps in order.
LEMMA StampStep ==
  ASSUME IInv, [Next]_vars PROVE StampInv'
  <1> USE DEF IInv, disk, process, onDisk
  <1>1. CASE Tick
    BY <1>1 DEF Tick, TypeOK, StampInv, NotAfterWrite
  <1>2. ASSUME NEW f \in Paths, NEW c \in Contents, Write(f, c) PROVE StampInv'
    <2>1. written[f] <= now
      BY DEF StampInv
    <2>2. \A e \in Entries : e.modified <= written[f] => e.modified <= now
      BY <2>1, EntryFacts DEF TypeOK
    <2>3. \A g \in Paths : NotAfterWrite(files[g], g)' /\ NotAfterWrite(saved[g], g)'
      BY <1>2, <2>2 DEF Write, TypeOK, StampInv, NotAfterWrite
    <2>4. pc = "hash" => stat.modified <= written'[cur]
      BY <1>2, <2>1 DEF Write, TypeOK, StampInv, Stamps
    <2> QED  BY <1>2, <2>3, <2>4 DEF Write, TypeOK, StampInv
  <1>3. ASSUME NEW f \in Paths, MakeDir(f) \/ TouchDir(f) \/ Remove(f) PROVE StampInv'
    BY <1>3 DEF MakeDir, TouchDir, Remove, TypeOK, StampInv, NotAfterWrite
  <1>4. CASE BeginWalk
    BY <1>4 DEF BeginWalk, StampInv, NotAfterWrite
  <1>5. ASSUME NEW f \in Paths, PassAbsent(f) \/ VisitDir(f) PROVE StampInv'
    BY <1>5 DEF PassAbsent, VisitDir, StampInv, NotAfterWrite
  <1>6. ASSUME NEW f \in Paths, VisitFile(f) PROVE StampInv'
    BY <1>6 DEF VisitFile, StatOf, StampInv, NotAfterWrite, TypeOK
  <1>7. CASE ReuseHash \/ HashFile \/ HashFails
    <2>1. PICK h \in Hashes : Recorded(h) /\ pc = "hash"
      BY <1>7, HashStep
    <2>2. PICK e \in Entries :
            /\ e.modified = stat.modified /\ files' = [files EXCEPT ![cur] = e]
            /\ pc' = "walk" /\ UNCHANGED <<disk, now, quiet, up, todo, cur, stat, seen, onDisk>>
      BY <2>1, RecordedEntry
    <2>3. e.modified <= written[cur]
      BY <2>1, <2>2 DEF StampInv
    <2> QED  BY <2>2, <2>3 DEF StampInv, NotAfterWrite, TypeOK
  <1>8. CASE WalkFails
    BY <1>8 DEF WalkFails, LocalsDropped, StampInv, NotAfterWrite
  <1>9. CASE EndWalk
    BY <1>9 DEF EndWalk, StampInv, NotAfterWrite, TypeOK
  <1>10. CASE Save \/ SaveFails
    BY <1>10 DEF Save, SaveFails, Done, LocalsDropped, StampInv, NotAfterWrite
  <1>11. CASE Crash
    BY <1>11 DEF Crash, LocalsDropped, StampInv, NotAfterWrite, Nothing
  <1>12. CASE Restart
    BY <1>12 DEF Restart, StampInv, NotAfterWrite, Nothing
  <1>13. CASE UNCHANGED vars
    BY <1>13 DEF vars, StampInv, NotAfterWrite
  <1> QED
    BY <1>1, <1>2, <1>3, <1>4, <1>5, <1>6, <1>7, <1>8, <1>9, <1>10, <1>11,
       <1>12, <1>13 DEF Next, Environment, Update

\* Every step keeps the reusable hashes right.
LEMMA SoundStep ==
  ASSUME IInv, [Next]_vars PROVE SoundInv'
  <1> SUFFICES ASSUME Spaced, NEW g \in Paths
               PROVE  RecordSound(files[g], g)' /\ RecordSound(saved[g], g)'
    BY DEF SoundInv
  <1> USE DEF IInv, disk, process, onDisk
  <1>0. RecordSound(files[g], g) /\ RecordSound(saved[g], g)
    BY DEF SoundInv
  <1>1. CASE Tick
    BY <1>0, <1>1 DEF Tick, RecordSound
  <1>2. ASSUME NEW f \in Paths, NEW c \in Contents, Write(f, c)
        PROVE  RecordSound(files[g], g)' /\ RecordSound(saved[g], g)'
    <2>1. CASE f # g
      BY <1>0, <1>2, <2>1 DEF Write, RecordSound, TypeOK
    <2>2. CASE f = g
      <3>1. written[g] < now /\ mtime'[g] = now /\ files' = files /\ saved' = saved
        BY <1>2, <2>2 DEF Write, TypeOK
      <3>2. ASSUME NEW e \in Entries \cup {NoEntry}, NotAfterWrite(e, g)
            PROVE  e # NoEntry => e.modified # now
        BY <3>1, <3>2, EntryFacts DEF NotAfterWrite, TypeOK
      <3>3. (files[g] # NoEntry => files[g].modified # now)
            /\ (saved[g] # NoEntry => saved[g].modified # now)
        BY <3>2 DEF StampInv, TypeOK
      <3> QED  BY <3>1, <3>3 DEF RecordSound
    <2> QED  BY <2>1, <2>2
  <1>3. ASSUME NEW f \in Paths, MakeDir(f) \/ TouchDir(f) \/ Remove(f)
        PROVE  RecordSound(files[g], g)' /\ RecordSound(saved[g], g)'
    BY <1>0, <1>3 DEF MakeDir, TouchDir, Remove, RecordSound, TypeOK
  <1>4. CASE BeginWalk
    BY <1>0, <1>4 DEF BeginWalk, RecordSound
  <1>5. ASSUME NEW f \in Paths, PassAbsent(f) \/ VisitDir(f) \/ VisitFile(f)
        PROVE  RecordSound(files[g], g)' /\ RecordSound(saved[g], g)'
    BY <1>0, <1>5 DEF PassAbsent, VisitDir, VisitFile, RecordSound
  <1>6. CASE ReuseHash \/ HashFile \/ HashFails
    <2>1. PICK h \in Hashes :
            /\ Recorded(h)
            /\ \/ Unchanged /\ h = files[cur].hash
               \/ ~Unchanged /\ kind[cur] = "file" /\ h = content[cur]
               \/ ~Unchanged /\ (kind[cur] # "file" \/ MayFail) /\ h = ZeroHash
      BY <1>6, HashStep
    <2>2. PICK e \in Entries :
            /\ e.size = stat.size /\ e.modified = stat.modified /\ e.hash = h
            /\ files' = [files EXCEPT ![cur] = e]
            /\ UNCHANGED <<disk, onDisk>>
      BY <2>1, RecordedEntry
    <2>3. CASE g = cur
      <3>1. RecordSound(e, g)
        BY <1>0, <2>1, <2>2, <2>3 DEF RecordSound, Unchanged
      <3> QED  BY <1>0, <2>2, <2>3, <3>1 DEF RecordSound, TypeOK
    <2>4. CASE g # cur
      BY <1>0, <2>2, <2>4 DEF RecordSound, TypeOK
    <2> QED  BY <2>3, <2>4
  <1>7. CASE WalkFails
    BY <1>0, <1>7 DEF WalkFails, LocalsDropped, RecordSound
  <1>8. CASE EndWalk
    BY <1>0, <1>8 DEF EndWalk, RecordSound, TypeOK
  <1>9. CASE Save \/ SaveFails
    BY <1>0, <1>9 DEF Save, SaveFails, Done, LocalsDropped, RecordSound
  <1>10. CASE Crash
    BY <1>0, <1>10 DEF Crash, LocalsDropped, RecordSound, Nothing
  <1>11. CASE Restart
    BY <1>0, <1>11 DEF Restart, RecordSound, Nothing
  <1>12. CASE UNCHANGED vars
    BY <1>0, <1>12 DEF vars, RecordSound
  <1> QED
    BY <1>1, <1>2, <1>3, <1>4, <1>5, <1>6, <1>7, <1>8, <1>9, <1>10, <1>11,
       <1>12 DEF Next, Environment, Update

\* The inductive invariant holds in every reachable state.
LEMMA Invariance == Spec => []IInv
  <1>1. ASSUME IInv, [Next]_vars PROVE IInv'
    BY <1>1, TypeStep, StampStep, SoundStep DEF IInv
  <1> QED  BY InitIInv, <1>1, PTL DEF Spec

\* Every variable keeps its type.
THEOREM TypeCorrect == Spec => []TypeOK
  <1>1. IInv => TypeOK
    BY DEF IInv
  <1> QED  BY Invariance, <1>1, PTL

\* No wrong hash is ever reused, from memory or after a restart, when a path is
\* written at most once in a second.
THEOREM ReuseSound == Spec => []ReuseIsSound
  <1>1. IInv => ReuseIsSound
    BY DEF IInv, SoundInv, ReuseIsSound
  <1> QED  BY Invariance, <1>1, PTL

-----------------------------------------------------------------------------
\* In an update that nothing disturbed, the paths still to come have no entry,
\* those the walk has been through have the entry a rebuild would give them, the
\* file in hand is as its metadata says, and what was seen is there.
Walking == pc \in {"walk", "hash", "save"}
Visited(f) == f \notin todo /\ ~(pc = "hash" /\ f = cur)

UpdateInv ==
  Walking /\ quiet =>
    /\ \A f \in Paths : Visited(f) /\ Spaced /\ ~MayFail => StandsFor(entries[f], FullIndex[f])
    /\ \A f \in Paths : ~Visited(f) => entries[f] = NoEntry
    /\ \A f \in seen : kind[f] # "absent"
    /\ pc = "hash" => kind[cur] = "file" /\ stat = StatOf(cur) /\ cur \in seen /\ cur \notin todo
    /\ pc = "save" => todo = {} /\ \A f \in Paths : files[f] # NoEntry => f \in seen

\* A process that is down is not in an update.
WalkInv == UpdateInv /\ (~up => pc = "idle")

\* What a rebuild would list for each kind of path, as long as the disk is the same.
LEMMA RebuiltEntries ==
  ASSUME NEW f \in Paths
  PROVE  /\ kind[f] = "absent" => FullIndex[f] = NoEntry
         /\ kind[f] = "dir" => FullIndex[f] = Listing(DirSize, mtime[f], ZeroHash, TRUE)
         /\ kind[f] = "file" => FullIndex[f] = Listing(Size[content[f]], mtime[f], content[f], FALSE)
  BY DEF FullIndex

LEMMA RebuildStays == UNCHANGED disk => FullIndex' = FullIndex
  BY DEF FullIndex, disk, Listing

\* Every step keeps what an undisturbed update knows.
LEMMA WalkStep ==
  ASSUME IInv, WalkInv, [Next]_vars PROVE WalkInv'
  <1> USE DEF disk, process, onDisk
  <1>1. CASE Tick
    <2>1. FullIndex' = FullIndex
      BY <1>1, RebuildStays DEF Tick
    <2>2. ASSUME NEW f \in Paths, StandsFor(entries[f], FullIndex[f])
          PROVE  StandsFor(entries[f], FullIndex[f])'
      <3>1. entries' = entries /\ now' = now + 1 /\ now \in Nat
        BY <1>1 DEF Tick, IInv, TypeOK
      <3>2. entries[f] # NoEntry => entries[f].modified \in Nat
        BY DEF IInv, TypeOK, FileEntries
      <3> QED  BY <2>1, <2>2, <3>1, <3>2 DEF StandsFor
    <2> QED  BY <1>1, <2>1, <2>2 DEF Tick, WalkInv, UpdateInv, Walking, Visited, StatOf
  <1>2. ASSUME NEW f \in Paths,
               MakeDir(f) \/ TouchDir(f) \/ Remove(f) \/ \E c \in Contents : Write(f, c)
        PROVE  WalkInv'
    BY <1>2 DEF MakeDir, TouchDir, Remove, Write, WalkInv, UpdateInv
  <1>3. CASE BeginWalk
    BY <1>3 DEF BeginWalk, WalkInv, UpdateInv, Walking, Visited, Nothing
  <1>4. ASSUME NEW f \in Paths, PassAbsent(f) PROVE WalkInv'
    <2>1. FullIndex' = FullIndex /\ FullIndex[f] = NoEntry /\ now' = now
      BY <1>4, RebuildStays, RebuiltEntries DEF PassAbsent
    <2> QED
      BY <1>4, <2>1 DEF PassAbsent, WalkInv, UpdateInv, Walking, Visited, StatOf, StandsFor
  <1>5. ASSUME NEW f \in Paths, VisitDir(f) PROVE WalkInv'
    <2>1. FullIndex' = FullIndex /\ FullIndex[f] = Listing(DirSize, mtime[f], ZeroHash, TRUE)
      BY <1>5, RebuildStays, RebuiltEntries DEF VisitDir
    <2>2. StandsFor(Listing(0, now, ZeroHash, TRUE), FullIndex[f])
      <3>1. mtime[f] \in Nat /\ now \in Nat /\ mtime[f] <= now /\ ZeroHash \in Hashes
        BY DEF IInv, TypeOK, StampInv, Hashes
      <3> DEFINE e == Listing(0, now, ZeroHash, TRUE)
                 r == Listing(DirSize, mtime[f], ZeroHash, TRUE)
      <3>2. /\ e.is_dir = TRUE /\ e.hash = ZeroHash /\ e.modified = now
            /\ r.is_dir = TRUE /\ r.hash = ZeroHash /\ r.modified = mtime[f]
        BY Zenon DEF Listing
      <3>3. e # NoEntry /\ r # NoEntry
        <4>1. 0 \in Nat /\ DirSize \in Nat /\ TRUE \in BOOLEAN
          BY ValuesAssumption
        <4>2. e # NoEntry
          BY <3>1, <4>1, ListingFacts, Zenon
        <4>3. r # NoEntry
          BY <3>1, <4>1, ListingFacts, Zenon
        <4> QED  BY <4>2, <4>3
      <3> HIDE DEF e, r
      <3>4. StandsFor(e, r)
        BY <3>1, <3>2, <3>3 DEF StandsFor
      <3> QED  BY <2>1, <3>4 DEF e, r
    <2>3. entries'[f] = Listing(0, now, ZeroHash, TRUE) /\ now' = now
      BY <1>5 DEF VisitDir, IInv, TypeOK
    <2>4. \A g \in Paths \ {f} : entries'[g] = entries[g]
      BY <1>5 DEF VisitDir, IInv, TypeOK
    <2>5. StandsFor(entries[f], FullIndex[f])'
      BY <2>1, <2>2, <2>3 DEF StandsFor
    <2>6. \A g \in Paths \ {f} : StandsFor(entries[g], FullIndex[g]) => StandsFor(entries[g], FullIndex[g])'
      BY <2>1, <2>3, <2>4 DEF StandsFor
    <2>7. /\ up' = up /\ quiet' = quiet /\ pc = "walk" /\ pc' = "walk" /\ kind[f] = "dir"
          /\ todo' = todo \ {f} /\ seen' = seen \cup {f} /\ UNCHANGED <<disk, cur, stat, files>>
      BY <1>5 DEF VisitDir
    <2> QED
      BY <2>4, <2>5, <2>6, <2>7 DEF WalkInv, UpdateInv, Walking, Visited
  <1>6. ASSUME NEW f \in Paths, VisitFile(f) PROVE WalkInv'
    <2>1. FullIndex' = FullIndex
      BY <1>6, RebuildStays DEF VisitFile
    <2> QED
      BY <1>6, <2>1 DEF VisitFile, WalkInv, UpdateInv, Walking, Visited, StatOf, StandsFor
  <1>7. CASE ReuseHash \/ HashFile \/ HashFails
    <2>0. up' = up /\ up /\ quiet' = quiet
      BY <1>7 DEF ReuseHash, HashFile, HashFails, Recorded
    <2> SUFFICES ASSUME quiet PROVE UpdateInv'
      BY <2>0 DEF WalkInv, UpdateInv
    <2>1. PICK h \in Hashes :
            /\ Recorded(h) /\ pc = "hash"
            /\ \/ Unchanged /\ h = files[cur].hash
               \/ ~Unchanged /\ kind[cur] = "file" /\ h = content[cur]
               \/ ~Unchanged /\ (kind[cur] # "file" \/ MayFail) /\ h = ZeroHash
      BY <1>7, HashStep DEF IInv
    <2> DEFINE l == Listing(stat.size, stat.modified, h, FALSE)
    <2>2. /\ entries' = [entries EXCEPT ![cur] = l]
          /\ pc' = "walk" /\ UNCHANGED <<disk, now, quiet, up, todo, cur, stat, seen, onDisk>>
      BY <2>1, RecordedEntry DEF IInv
    <2>3. /\ kind[cur] = "file" /\ stat = StatOf(cur) /\ cur \in seen /\ cur \notin todo
          /\ cur \in Paths
      BY <2>1 DEF WalkInv, UpdateInv, Walking, IInv, TypeOK
    <2>4. ASSUME Spaced, ~MayFail PROVE l = FullIndex[cur]
      <3>1. h = content[cur]
        BY <2>1, <2>3, <2>4 DEF Unchanged, IInv, SoundInv, RecordSound, StatOf
      <3>2. l = Listing(Size[content[cur]], mtime[cur], content[cur], FALSE)
        BY <2>3, <3>1 DEF StatOf
      <3> QED  BY <3>2, <2>3, RebuiltEntries
    <2>5. FullIndex' = FullIndex
      BY <2>2, RebuildStays
    <2> HIDE DEF l
    <2>6. ASSUME NEW f \in Paths, Visited(f)', Spaced, ~MayFail
          PROVE  StandsFor(entries[f], FullIndex[f])'
      <3>1. CASE f = cur
        BY <2>2, <2>3, <2>4, <2>5, <2>6, <3>1 DEF StandsFor, IInv, TypeOK
      <3>2. CASE f # cur
        <4>1. StandsFor(entries[f], FullIndex[f]) /\ entries'[f] = entries[f]
          BY <2>1, <2>2, <2>6, <3>2 DEF WalkInv, UpdateInv, Walking, Visited, IInv, TypeOK
        <4> QED  BY <4>1, <2>2, <2>5 DEF StandsFor
      <3> QED  BY <3>1, <3>2
    <2>7. ASSUME NEW f \in Paths, ~Visited(f)' PROVE entries'[f] = NoEntry
      BY <2>1, <2>2, <2>3, <2>7 DEF WalkInv, UpdateInv, Walking, Visited, IInv, TypeOK
    <2> QED
      BY <2>1, <2>2, <2>3, <2>6, <2>7 DEF WalkInv, UpdateInv, Walking
  <1>8. CASE WalkFails
    BY <1>8 DEF WalkFails, WalkInv, UpdateInv, Walking
  <1>9. CASE EndWalk
    <2>1. FullIndex' = FullIndex
      BY <1>9, RebuildStays DEF EndWalk
    <2> QED
      BY <1>9, <2>1 DEF EndWalk, WalkInv, UpdateInv, Walking, Visited, StandsFor
  <1>10. CASE Save \/ SaveFails \/ Crash
    BY <1>10 DEF Save, SaveFails, Crash, Done, WalkInv, UpdateInv, Walking
  <1>11. CASE Restart
    <2>1. pc = "idle"
      BY <1>11 DEF Restart, WalkInv
    <2> QED  BY <1>11, <2>1 DEF Restart, WalkInv, UpdateInv, Walking
  <1>12. CASE UNCHANGED vars
    BY <1>12, RebuildStays DEF vars, WalkInv, UpdateInv, Walking, Visited, StatOf, StandsFor
  <1> QED
    BY <1>1, <1>2, <1>3, <1>4, <1>5, <1>6, <1>7, <1>8, <1>9, <1>10, <1>11,
       <1>12 DEF Next, Environment, Update

\* An update starts from nothing, so the invariant holds initially; then always.
LEMMA WalkInvariance == Spec => [](IInv /\ WalkInv)
  <1>1. Init => WalkInv
    BY DEF Init, WalkInv, UpdateInv, Walking
  <1>2. IInv /\ WalkInv /\ IInv' /\ [Next]_vars => WalkInv'
    BY WalkStep
  <1> QED  BY Invariance, <1>1, <1>2, PTL DEF Spec

\* An update that nothing disturbs sends what stands for a rebuild, from any cache
\* the process may hold, after any failures and restarts.
THEOREM UpdateRebuilds == Spec => []UpdateMatchesRebuild
  <1>1. IInv /\ WalkInv => UpdateMatchesRebuild
    BY DEF UpdateMatchesRebuild, WalkInv, UpdateInv, Walking, Visited
  <1> QED  BY WalkInvariance, <1>1, PTL

\* No record outlives its path past an update that nothing disturbs.
THEOREM AbsentPruned == Spec => []NoRecordOfAbsent
  <1>1. IInv /\ WalkInv => NoRecordOfAbsent
    BY DEF WalkInv, UpdateInv, Walking, NoRecordOfAbsent
  <1> QED  BY WalkInvariance, <1>1, PTL
=============================================================================
