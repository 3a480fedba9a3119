------------------------- MODULE ChangeCollector_proofs -------------------------
(***************************************************************************)
(* The collector hides no path from its caller, for any paths and bounds.   *)
(***************************************************************************)
EXTENDS ChangeCollector, TLAPS

LEMMA NamedAppend ==
  ASSUME NEW s \in Seq(FileChanges), NEW e \in FileChanges
  PROVE  Named(Append(s, e)) = Named(s) \cup Of(e)
<1>1. DOMAIN Append(s, e) = DOMAIN s \cup {Len(s) + 1} OBVIOUS
<1>2. \A i \in DOMAIN s : Append(s, e)[i] = s[i] OBVIOUS
<1>3. Append(s, e)[Len(s) + 1] = e OBVIOUS
<1> QED BY <1>1, <1>2, <1>3 DEF Named

\* The head of a sequence names some of its paths, the tail the others.
LEMMA NamedSplit ==
  ASSUME NEW s \in Seq(FileChanges), s # <<>>
  PROVE  /\ Head(s) \in FileChanges /\ Tail(s) \in Seq(FileChanges)
         /\ Named(s) \subseteq Of(Head(s)) \cup Named(Tail(s))
<1>1. Head(s) \in FileChanges /\ Tail(s) \in Seq(FileChanges) OBVIOUS
<1>2. ASSUME NEW i \in DOMAIN s, i # 1 PROVE i - 1 \in DOMAIN Tail(s) /\ Tail(s)[i - 1] = s[i]
  BY <1>2
<1>3. s[1] = Head(s) OBVIOUS
<1> QED BY <1>1, <1>2, <1>3 DEF Named

LEMMA NamedEmpty == Named(<<>>) = {}
BY DEF Named

LEMMA NamedOne == ASSUME NEW e \in FileChanges PROVE Named(<<e>>) = Of(e)
<1>1. DOMAIN <<e>> = {1} /\ <<e>>[1] = e OBVIOUS
<1> QED BY <1>1 DEF Named

\* The callback makes at most one change of an event, and the change names its paths.
LEMMA TranslateOne ==
  ASSUME NEW kind, NEW p \in Paths
  PROVE  LET event == [kind |-> kind, paths |-> <<p>>]
         IN Translate(event) = <<>> \/ \E e \in FileChanges : Translate(event) = <<e>> /\ Of(e) = {p}
<1> DEFINE event == [kind |-> kind, paths |-> <<p>>]
           kinds == [create |-> "Created", data |-> "Modified", metadata |-> "Modified",
                     remove |-> "Removed"]
           e == [kind |-> kinds[kind], path |-> p]
<1>1. event.kind = kind /\ event.paths[1] = p /\ Len(event.paths) = 1 OBVIOUS
<1>2. CASE kind \in DOMAIN kinds
  <2>1. Translate(event) = <<e>>
    <3>1. Translate(event) = <<[kind |-> kinds[event.kind], path |-> event.paths[1]]>>
      BY <1>1, <1>2, Zenon DEF Translate
    <3> QED BY <3>1, <1>1, Zenon
  <2>2. DOMAIN kinds = {"create", "data", "metadata", "remove"} OBVIOUS
  <2>3. kinds[kind] \in {"Created", "Modified", "Removed"} BY <1>2, <2>2
  <2>4. e \in FileChanges BY <2>3 DEF FileChanges
  <2>5. Of(e) = {p} BY <2>3 DEF Of
  <2> QED BY <2>1, <2>4, <2>5
<1>3. CASE kind \notin DOMAIN kinds
  <2>1. ~(Len(event.paths) >= 2) BY <1>1
  <2>2. Translate(event) = <<>> BY <1>1, <1>3, <2>1, Zenon DEF Translate
  <2> QED BY <2>2
<1> QED BY <1>2, <1>3

LEMMA TranslateTwo ==
  ASSUME NEW p \in Paths, NEW q \in Paths
  PROVE  \E e \in FileChanges : Translate([kind |-> "name", paths |-> <<p, q>>]) = <<e>>
                                /\ Of(e) = {p, q}
<1>1. Len(<<p, q>>) = 2 /\ <<p, q>>[1] = p /\ <<p, q>>[2] = q OBVIOUS
<1>2. [kind |-> "Renamed", path |-> p, to |-> q] \in FileChanges BY DEF FileChanges
<1>3. Of([kind |-> "Renamed", path |-> p, to |-> q]) = {p, q} BY DEF Of
<1>4. Translate([kind |-> "name", paths |-> <<p, q>>])
        = <<[kind |-> "Renamed", path |-> p, to |-> q]>>
  BY <1>1 DEF Translate
<1> QED BY <1>2, <1>3, <1>4

-----------------------------------------------------------------------------
LEMMA Typing == Spec => []TypeOK
<1> USE DEF TypeOK, wvars, cvars
<1>1. Init => TypeOK
  <2> SUFFICES ASSUME Init PROVE TypeOK OBVIOUS
  <2>1. <<>> \in Seq(FileChanges) OBVIOUS
  <2>2. watched \in BOOLEAN BY Zenon DEF Init, InitWatcher
  <2>3. remaining \in 0 .. Debounce BY DebounceAssumption DEF Init
  <2>4. disk \in [Paths -> Contents \cup {Absent}] /\ known = disk BY DEF Init, InitWatcher
  <2> QED BY <2>1, <2>2, <2>3, <2>4 DEF Init, InitWatcher
<1>2. TypeOK /\ [Next]_vars => TypeOK'
  <2> SUFFICES ASSUME TypeOK, [Next]_vars PROVE TypeOK' OBVIOUS
  <2>1. CASE WatcherStep /\ UNCHANGED cvars
    <3>1. watched' \in BOOLEAN BY <2>1, Zenon DEF WatcherStep, WatchPath, Start, WatcherEnds
    <3> QED BY <2>1, <3>1 DEF WatcherStep, WatchPath, Start, WatcherEnds
  <2>2. CASE Edit /\ UNCHANGED cvars
    <3>1. ASSUME NEW event, NEW touched \in SUBSET Paths, Happens(event, touched),
                 Translate(event) \in Seq(FileChanges),
                 disk' \in [Paths -> Contents \cup {Absent}]
          PROVE  TypeOK'
      <4>1. watched' \in BOOLEAN /\ watcher' = watcher BY <3>1, Zenon DEF Happens
      <4> DEFINE changes == Translate(event)
      <4>2. PICK news \in {changes, <<>>} :
              /\ chan' = chan \o news
              /\ unseen' = IF news = <<>> THEN unseen \cup touched ELSE unseen \ touched
        BY <3>1 DEF Happens
      <4>3. changes \in Seq(FileChanges) BY <3>1
      <4> HIDE DEF changes
      <4>4. chan' \in Seq(FileChanges)
        <5>1. <<>> \in Seq(FileChanges) OBVIOUS
        <5>2. news \in Seq(FileChanges) BY <4>2, <4>3, <5>1, Zenon
        <5>3. chan \in Seq(FileChanges) /\ chan' = chan \o news BY <4>2
        <5> QED BY <5>2, <5>3
      <4>5. unseen' \subseteq Paths BY <4>2
      <4> QED BY <2>2, <3>1, <4>1, <4>4, <4>5
    <3>2. ASSUME NEW kind, NEW p \in Paths
          PROVE  Translate([kind |-> kind, paths |-> <<p>>]) \in Seq(FileChanges)
      <4> DEFINE changes == Translate([kind |-> kind, paths |-> <<p>>])
      <4>1. changes = <<>> \/ \E e \in FileChanges : changes = <<e>> BY TranslateOne, Zenon
      <4> HIDE DEF changes
      <4>2. <<>> \in Seq(FileChanges) OBVIOUS
      <4>3. ASSUME NEW e \in FileChanges PROVE <<e>> \in Seq(FileChanges) OBVIOUS
      <4>4. changes \in Seq(FileChanges) BY <4>1, <4>2, <4>3, Zenon
      <4> QED BY <4>4 DEF changes
    <3>3. ASSUME NEW p \in Paths, NEW q \in Paths
          PROVE  Translate([kind |-> "name", paths |-> <<p, q>>]) \in Seq(FileChanges)
      <4> DEFINE changes == Translate([kind |-> "name", paths |-> <<p, q>>])
      <4>1. \E e \in FileChanges : changes = <<e>> BY TranslateTwo, Zenon
      <4> HIDE DEF changes
      <4>2. ASSUME NEW e \in FileChanges PROVE <<e>> \in Seq(FileChanges) OBVIOUS
      <4>3. changes \in Seq(FileChanges) BY <4>1, <4>2, Zenon
      <4> QED BY <4>3 DEF changes
    <3>4. PICK p \in Paths : \/ Create(p) \/ Change(p) \/ Remove(p) \/ MoveOut(p)
                             \/ \E q \in Paths : Rename(p, q)
      BY <2>2 DEF Edit
    <3>5. CASE Create(p) BY <3>5, <3>1, <3>2 DEF Create
    <3>6. CASE Change(p) BY <3>6, <3>1, <3>2 DEF Change
    <3>7. CASE Remove(p) BY <3>7, <3>1, <3>2 DEF Remove
    <3>8. CASE MoveOut(p) BY <3>8, <3>1, <3>2 DEF MoveOut
    <3>9. ASSUME NEW q \in Paths, Rename(p, q) PROVE TypeOK'
      <4>1. disk' \in [Paths -> Contents \cup {Absent}] BY <3>9 DEF Rename
      <4>2. Happens([kind |-> "name", paths |-> <<p, q>>], {p, q}) BY <3>9 DEF Rename
      <4>3. {p, q} \in SUBSET Paths OBVIOUS
      <4> QED BY <4>1, <4>2, <4>3, <3>1, <3>3
    <3> QED BY <3>4, <3>5, <3>6, <3>7, <3>8, <3>9
  <2>3. CASE Collect BY <2>3 DEF Collect
  <2>4. CASE TakeFirst
    <3>1. <<Head(chan)>> \in Seq(FileChanges) /\ chan' \in Seq(FileChanges)
      BY <2>4, NamedSplit DEF TakeFirst
    <3> QED BY <2>4, <3>1, DebounceAssumption DEF TakeFirst
  <2>5. CASE TakeMore
    <3>1. buffer' \in Seq(FileChanges) /\ chan' \in Seq(FileChanges)
      BY <2>5, NamedSplit DEF TakeMore
    <3> QED BY <2>5, <3>1 DEF TakeMore
  <2>6. CASE GoOn BY <2>6 DEF GoOn
  <2>7. CASE Returns
    <3>1. GivesBatch BY <2>7 DEF Returns, ReturnsEmpty, ReturnsLate, ReturnsWaiting
    <3> QED BY <3>1 DEF GivesBatch
  <2>8. CASE Tick BY <2>8, DebounceAssumption DEF Tick
  <2>9. CASE UNCHANGED vars BY <2>9 DEF vars
  <2> QED BY <2>1, <2>2, <2>3, <2>4, <2>5, <2>6, <2>7, <2>8, <2>9 DEF Next, CollectorStep
<1> QED BY <1>1, <1>2, PTL DEF Spec

-----------------------------------------------------------------------------
(* NothingHidden.  The buffer is empty when a batch begins, so what it      *)
(* names when it is given away is all that was merged into it.             *)

Inv == NothingHidden /\ (cpc \in {"idle", "first"} => buffer = <<>>)

\* Edits: what a path holds changes only where the event is put into the channel or
\* the path becomes unseen.
LEMMA EditHidesNothing ==
  ASSUME TypeOK, Inv, NEW event, NEW touched \in SUBSET Paths, Happens(event, touched),
         Translate(event) = <<>> \/ \E e \in FileChanges :
                                       Translate(event) = <<e>> /\ Of(e) = touched,
         \A p \in Paths \ touched : disk'[p] = disk[p], UNCHANGED cvars
  PROVE  Inv'
<1> USE DEF TypeOK
<1> DEFINE changes == Translate(event)
<1>1. PICK news \in {changes, <<>>} :
        /\ chan' = chan \o news
        /\ unseen' = IF news = <<>> THEN unseen \cup touched ELSE unseen \ touched
  BY DEF Happens
<1>2. changes = <<>> \/ \E e \in FileChanges : changes = <<e>> /\ Of(e) = touched OBVIOUS
<1> HIDE DEF changes
<1>3. CASE news = <<>>
  <2>1. chan' = chan /\ unseen' = unseen \cup touched BY <1>1, <1>3
  <2> QED BY <2>1 DEF Inv, NothingHidden, cvars
<1>4. CASE news # <<>>
  <2>1. PICK e \in FileChanges : news = <<e>> /\ Of(e) = touched BY <1>1, <1>2, <1>4
  <2>2. chan' = chan \o <<e>> /\ unseen' = unseen \ touched BY <1>1, <2>1
  <2>3. chan' = Append(chan, e) BY <2>2
  <2>4. Named(chan') = Named(chan) \cup touched BY <2>1, <2>3, NamedAppend
  <2> QED BY <2>2, <2>4 DEF Inv, NothingHidden, cvars
<1> QED BY <1>3, <1>4

LEMMA StepHidesNothing == TypeOK /\ Inv /\ [Next]_vars => Inv'
<1> SUFFICES ASSUME TypeOK, Inv, [Next]_vars PROVE Inv' OBVIOUS
<1> USE DEF TypeOK, wvars, cvars
<1>1. CASE WatcherStep /\ UNCHANGED cvars
  BY <1>1 DEF WatcherStep, WatchPath, Start, WatcherEnds, Inv, NothingHidden
<1>2. CASE Edit /\ UNCHANGED cvars
  <2>1. PICK p \in Paths : \/ Create(p) \/ Change(p) \/ Remove(p) \/ MoveOut(p)
                           \/ \E q \in Paths : Rename(p, q)
    BY <1>2 DEF Edit
  <2>2. ASSUME NEW kind, Happens([kind |-> kind, paths |-> <<p>>], {p}),
               \A r \in Paths \ {p} : disk'[r] = disk[r]
        PROVE  Inv'
    <3> DEFINE event == [kind |-> kind, paths |-> <<p>>]
    <3>1. Translate(event) = <<>> \/ \E e \in FileChanges : Translate(event) = <<e>> /\ Of(e) = {p}
      BY TranslateOne
    <3>2. Happens(event, {p}) /\ {p} \in SUBSET Paths BY <2>2
    <3> HIDE DEF event
    <3>3. UNCHANGED cvars BY <1>2
    <3> QED BY <2>2, <3>1, <3>2, <3>3, EditHidesNothing
  <2>3. CASE Create(p) BY <2>3, <2>2 DEF Create
  <2>4. CASE Change(p) BY <2>4, <2>2 DEF Change
  <2>5. CASE Remove(p) BY <2>5, <2>2 DEF Remove
  <2>6. CASE MoveOut(p) BY <2>6, <2>2 DEF MoveOut
  <2>7. ASSUME NEW q \in Paths, Rename(p, q) PROVE Inv'
    <3>1. \A r \in Paths \ {p, q} : disk'[r] = disk[r] BY <2>7 DEF Rename
    <3>2. Happens([kind |-> "name", paths |-> <<p, q>>], {p, q}) BY <2>7 DEF Rename
    <3> DEFINE event == [kind |-> "name", paths |-> <<p, q>>]
    <3>3. \E e \in FileChanges : Translate(event) = <<e>> /\ Of(e) = {p, q} BY TranslateTwo
    <3>4. Happens(event, {p, q}) /\ {p, q} \in SUBSET Paths BY <3>2
    <3> HIDE DEF event
    <3>5. UNCHANGED cvars BY <1>2
    <3> QED BY <3>1, <3>3, <3>4, <3>5, EditHidesNothing
  <2> QED BY <2>1, <2>3, <2>4, <2>5, <2>6, <2>7
<1>3. CASE Collect
  BY <1>3 DEF Collect, Inv, NothingHidden
<1>4. CASE TakeFirst
  <2>1. Named(chan) \subseteq Named(buffer') \cup Named(chan')
    BY <1>4, NamedSplit, NamedOne DEF TakeFirst
  <2>2. Named(buffer) = {} BY <1>4, NamedEmpty DEF TakeFirst, Inv
  <2> QED BY <1>4, <2>1, <2>2 DEF TakeFirst, Inv, NothingHidden
<1>5. CASE TakeMore
  <2>1. Head(chan) \in FileChanges /\ Named(chan) \subseteq Of(Head(chan)) \cup Named(chan')
    BY <1>5, NamedSplit DEF TakeMore
  <2>2. Named(buffer) \cup Of(Head(chan)) \subseteq Named(buffer')
    <3>1. CASE ContainsSamePath(Head(chan))
      BY <1>5, <3>1 DEF TakeMore, ContainsSamePath, Named
    <3>2. CASE ~ContainsSamePath(Head(chan))
      BY <1>5, <2>1, <3>2, NamedAppend DEF TakeMore
    <3> QED BY <3>1, <3>2
  <2> QED BY <1>5, <2>1, <2>2 DEF TakeMore, Inv, NothingHidden
<1>6. CASE GoOn BY <1>6 DEF GoOn, Inv, NothingHidden
<1>7. CASE Returns
  <2>1. GivesBatch BY <1>7 DEF Returns, ReturnsEmpty, ReturnsLate, ReturnsWaiting
  <2>2. Named(buffer') = {} BY <2>1, NamedEmpty DEF GivesBatch
  <2> QED BY <2>1, <2>2 DEF GivesBatch, Inv, NothingHidden
<1>8. CASE Tick BY <1>8 DEF Tick, Inv, NothingHidden
<1>9. CASE UNCHANGED vars BY <1>9 DEF vars, Inv, NothingHidden
<1> QED BY <1>1, <1>2, <1>3, <1>4, <1>5, <1>6, <1>7, <1>8, <1>9 DEF Next, CollectorStep

-----------------------------------------------------------------------------
\* Every variable keeps its type; the deadline is never in the past.
THEOREM TypeCorrect == Spec => []TypeOK
BY Typing

\* Where the caller's picture of the directory is wrong, an event that names the path is
\* on its way, or the watcher did not report the path's last edit.
THEOREM CollectorHidesNothing == Spec => []NothingHidden
<1>1. Init => Inv BY DEF Init, Inv, NothingHidden
<1>2. Inv => NothingHidden BY DEF Inv
<1> QED BY <1>1, <1>2, Typing, StepHidesNothing, PTL DEF Spec

\* collect_batch returns an empty batch only after the watcher has ended and everything
\* it sent has been given to the caller.
THEOREM EmptyBatchMeansEnd == Spec => EmptyMeansEnded
<1> DEFINE Empties == cpc # "idle" /\ cpc' = "idle" /\ buffer = <<>> => watcher = "ended" /\ chan = <<>>
           Full    == cpc \in {"check", "more"} => buffer # <<>>
<1>1. Init => Full BY DEF Init
<1>2. TypeOK /\ Full /\ [Next]_vars => Full'
  <2> SUFFICES ASSUME TypeOK, Full, [Next]_vars PROVE Full' OBVIOUS
  <2>1. ASSUME TakeMore PROVE buffer' # <<>>
    <3>1. buffer \in Seq(FileChanges) /\ buffer # <<>> BY <2>1 DEF TakeMore, TypeOK
    <3>2. Append(buffer, Head(chan)) # <<>> BY <3>1
    <3> QED BY <2>1, <3>1, <3>2 DEF TakeMore
  <2>2. ASSUME TakeFirst PROVE buffer' # <<>> BY <2>2 DEF TakeFirst
  <2>3. ASSUME Returns PROVE cpc' = "idle"
    BY <2>3 DEF Returns, ReturnsEmpty, ReturnsLate, ReturnsWaiting, GivesBatch
  <2> QED BY <2>1, <2>2, <2>3 DEF Next, CollectorStep, vars, cvars, Collect, GoOn, Tick
<1>3. Full /\ [Next]_vars => [Empties]_vars
  <2> SUFFICES ASSUME Full, Next PROVE Empties BY DEF vars, wvars, cvars
  <2>1. CASE ReturnsEmpty BY <2>1 DEF ReturnsEmpty, Closed
  <2>2. CASE ReturnsLate \/ ReturnsWaiting BY <2>2 DEF ReturnsLate, ReturnsWaiting
  <2>3. CASE ~Returns
    BY <2>3 DEF Next, CollectorStep, cvars, Collect, GoOn, Tick, TakeFirst, TakeMore
  <2> QED BY <2>1, <2>2, <2>3 DEF Returns
<1> HIDE DEF Full
<1>4. Spec => [][Empties]_vars
  BY <1>1, <1>2, <1>3, Typing, PTL DEF Spec
<1> QED BY <1>4 DEF EmptyMeansEnded
=============================================================================
