-------------------------- MODULE HotReloadProofs --------------------------
(***************************************************************************)
(* What the running keyboard keeps true of its layout and its watch, for   *)
(* every set of files and texts and any number of writes.                  *)
(***************************************************************************)
EXTENDS HotReload, KeyboardLayoutProofs

-----------------------------------------------------------------------------
(* The registry's queries, with the state they look at as parameters.      *)

IndexesIn(avail, id) == {i \in DOMAIN avail : avail[i].id = id}
FindIn(avail, id) ==
  avail[CHOOSE i \in IndexesIn(avail, id) : \A j \in IndexesIn(avail, id) : i <= j]
LoadIn(fs, avail, id) ==
  IF IndexesIn(avail, id) = {} THEN Absent ELSE fs[FindIn(avail, id).path].content

LEMMA Queries ==
  ASSUME NEW id
  PROVE  /\ Entries(id) = IndexesIn(available, id)
         /\ find(id) = FindIn(available, id)
         /\ load(id) = LoadIn(files, available, id)
BY DEF Entries, find, load, IndexesIn, FindIn, LoadIn

LEMMA CurrentQueries ==
  /\ Entries(currentId) = IndexesIn(available, currentId)
  /\ find(currentId) = FindIn(available, currentId)
  /\ load(currentId) = LoadIn(files, available, currentId)
BY DEF Entries, find, load, IndexesIn, FindIn, LoadIn

LEMMA FoundIsEntry ==
  ASSUME NEW avail, NEW id, DOMAIN avail \subseteq Nat,
         \A i \in DOMAIN avail : avail[i].path \in Paths,
         IndexesIn(avail, id) # {}
  PROVE  FindIn(avail, id).path \in Paths
<1> DEFINE S == IndexesIn(avail, id)
<1>1. S \in SUBSET Nat /\ S \subseteq DOMAIN avail
  BY DEF IndexesIn
<1>2. PICK i \in S : \A j \in S : i <= j
  BY <1>1, LeastNat
<1>3. (CHOOSE n \in S : \A j \in S : n <= j) \in S
  BY <1>2
<1> QED BY <1>1, <1>3 DEF FindIn

\* Another file is written: what is looked up elsewhere stays.
LEMMA LoadElsewhere ==
  ASSUME NEW fs, NEW avail, NEW id, NEW q, NEW v, FindIn(avail, id).path # q,
         FindIn(avail, id).path \in DOMAIN fs
  PROVE  LoadIn([fs EXCEPT ![q] = v], avail, id) = LoadIn(fs, avail, id)
BY DEF LoadIn

-----------------------------------------------------------------------------
(* The inductive invariant.                                                *)

Shape ==
  /\ clock \in Nat
  /\ DOMAIN files = Paths
  /\ \A p \in Paths : files[p].time \in Nat /\ files[p].time <= clock
  /\ writing # NoWrite => writing.path \in Paths
  /\ DOMAIN available \subseteq Nat
  /\ \A i \in DOMAIN available : available[i].path \in Paths
  /\ readTime \in Nat /\ readTime <= clock
  /\ watchWriteTime \in Nat /\ watchWriteTime <= clock

\* The layout in use is one that was accepted; a start begins with none and
\* watches nothing.
Accepted ==
  /\ current # NoLayout => Loadable(current)
  /\ pc \in {"off", "starting"} => current = NoLayout /\ watchPath = NoPath
  /\ pc = "unwatched" => current # NoLayout

Has    == IndexesIn(available, currentId) # {}
Path   == FindIn(available, currentId).path
OnDisk == LoadIn(files, available, currentId)
UpToDate == Loadable(OnDisk) => current = OnDisk

\* The watch is on the file of the current id.
Watched == pc \in {"idle", "reloading"} /\ watchPath # NoPath => Has /\ watchPath = Path

\* A file that has the time of the last reading is what was read.
ReadIsCurrent == current # NoLayout /\ Has /\ files[Path].time = readTime => UpToDate

WatchIsTrue ==
  pc = "idle" /\ watchPath # NoPath /\ ~swallowed /\ files[watchPath].time = watchWriteTime
  => UpToDate

ReloadInv == Shape /\ Accepted /\ Watched /\ ReadIsCurrent /\ WatchIsTrue

LEMMA FreshIsUpToDate == Fresh <=> UpToDate
BY CurrentQueries DEF Fresh, UpToDate, OnDisk

LEMMA PathIsPath == Shape /\ Has => Path \in Paths
BY FoundIsEntry DEF Shape, Has, Path

LEMMA LoadableIs ==
  ASSUME NEW c, Loadable(c)
  PROVE  c # NoLayout /\ c # Absent
BY HotReloadAssumption DEF Loadable

-----------------------------------------------------------------------------
(* Activation: read a file, and take it if it is accepted.                 *)

\* What activate(id) does, in terms of the parameterised queries.
LEMMA ActivateDoes ==
  ASSUME NEW id, activate(id)
  PROVE  /\ IF Loadable(LoadIn(files, available, id))
            THEN current' = LoadIn(files, available, id) /\ currentId' = id
            ELSE UNCHANGED <<current, currentId>>
         /\ IF IndexesIn(available, id) # {} /\ (Loadable(LoadIn(files, available, id)) \/ id = currentId)
            THEN readTime' = files[FindIn(available, id).path].time /\ swallowed' = FALSE
            ELSE UNCHANGED <<readTime, swallowed>>
BY Queries DEF activate, CanActivate, Read

LEMMA ActivateKeeps ==
  ASSUME ReloadInv, NEW id, activate(id), UNCHANGED <<files, available, clock>>
  PROVE  /\ readTime' \in Nat /\ readTime' <= clock
         /\ current' # NoLayout => Loadable(current')
         /\ current # NoLayout => current' # NoLayout
         /\ ReadIsCurrent'
<1> DEFINE new == LoadIn(files, available, id)
<1>1. readTime' \in Nat /\ readTime' <= clock
  BY ActivateDoes, FoundIsEntry DEF ReloadInv, Shape
<1>2. CASE Loadable(new)
  <2>1. current' = new /\ currentId' = id
    BY <1>2, ActivateDoes
  <2>2. OnDisk' = new
    BY <2>1 DEF OnDisk
  <2> QED BY <1>1, <1>2, <2>1, <2>2, LoadableIs DEF ReadIsCurrent, UpToDate
<1>3. CASE ~Loadable(new)
  <2>1. UNCHANGED <<current, currentId>>
    BY <1>3, ActivateDoes
  <2>2. OnDisk' = OnDisk /\ Has' = Has /\ Path' = Path
    BY <2>1 DEF OnDisk, Has, Path
  <2>3. CASE id = currentId
    <3>1. ~Loadable(OnDisk)
      BY <1>3, <2>3 DEF OnDisk
    <3> QED BY <1>1, <2>1, <2>2, <3>1 DEF ReloadInv, Accepted, ReadIsCurrent, UpToDate
  <2>4. CASE id # currentId
    <3>1. UNCHANGED readTime
      BY <1>3, <2>4, ActivateDoes
    <3> QED BY <1>1, <2>1, <2>2, <3>1 DEF ReloadInv, Accepted, ReadIsCurrent, UpToDate
  <2> QED BY <2>3, <2>4
<1> QED BY <1>2, <1>3

-----------------------------------------------------------------------------
(* Writing a file.                                                         *)

LEMMA PutKeeps ==
  ASSUME ReloadInv, NEW q \in Paths, NEW c, Put(q, c),
         writing' # NoWrite => writing'.path \in Paths,
         UNCHANGED <<appVars, readTime, swallowed>>
  PROVE  ReloadInv'
<1> USE DEF appVars
<1>1. /\ clock \in Nat /\ clock' = clock + 1
      /\ files' = [files EXCEPT ![q] = [content |-> c, time |-> clock + 1]]
      /\ DOMAIN files = Paths
  BY DEF Put, ReloadInv, Shape
<1>2. Shape'
  BY <1>1 DEF ReloadInv, Shape
<1>3. Accepted'
  BY DEF ReloadInv, Accepted
<1>4. Has' = Has /\ Path' = Path
  BY DEF Has, Path
<1>5. Watched'
  BY <1>4 DEF ReloadInv, Watched
<1>6. files'[q].time > readTime /\ files'[q].time > watchWriteTime
  BY <1>1 DEF ReloadInv, Shape
<1>7. ASSUME Has, Path # q
      PROVE  OnDisk' = OnDisk /\ files'[Path] = files[Path]
  <2>1. Path \in DOMAIN files
    BY <1>1, <1>7, PathIsPath DEF ReloadInv
  <2>2. files'[Path] = files[Path]
    BY <1>1, <1>7, <2>1
  <2>3. LoadIn([files EXCEPT ![q] = [content |-> c, time |-> clock + 1]], available, currentId)
          = LoadIn(files, available, currentId)
    <3>1. /\ FindIn(available, currentId).path # q
          /\ FindIn(available, currentId).path \in DOMAIN files
      BY <1>7, <2>1 DEF Path
    <3> QED BY <3>1, LoadElsewhere
  <2> QED BY <1>1, <2>2, <2>3 DEF OnDisk
<1>8. ReadIsCurrent'
  <2>1. CASE Has /\ Path # q
    BY <1>4, <1>7, <2>1 DEF ReloadInv, ReadIsCurrent, UpToDate
  <2>2. CASE ~Has \/ Path = q
    BY <1>1, <1>2, <1>4, <1>6, <2>2 DEF ReadIsCurrent, Shape
  <2> QED BY <2>1, <2>2
<1>9. WatchIsTrue'
  <2> SUFFICES ASSUME pc = "idle", watchPath # NoPath, ~swallowed, files'[watchPath].time = watchWriteTime
               PROVE  UpToDate'
    BY DEF WatchIsTrue
  <2>1. Has /\ watchPath = Path
    BY DEF ReloadInv, Watched
  <2>2. Path # q
    BY <1>1, <1>2, <1>6, <2>1 DEF Shape
  <2> QED BY <1>7, <2>1, <2>2 DEF ReloadInv, WatchIsTrue, UpToDate
<1> QED BY <1>2, <1>3, <1>5, <1>8, <1>9 DEF ReloadInv

-----------------------------------------------------------------------------
(* The steps.                                                              *)

LEMMA InitReload == Init => ReloadInv
<1> SUFFICES ASSUME Init PROVE ReloadInv
  OBVIOUS
<1>1. Shape /\ Accepted
  BY DEF Init, Shape, Accepted
<1>2. Watched /\ ReadIsCurrent /\ WatchIsTrue
  BY DEF Init, Watched, ReadIsCurrent, WatchIsTrue
<1> QED BY <1>1, <1>2 DEF ReloadInv

LEMMA ScanShape ==
  ASSUME NEW scan \in Scans
  PROVE  DOMAIN scan \subseteq Nat /\ \A i \in DOMAIN scan : scan[i].path \in Paths
<1> DEFINE found == {p \in Paths : files[p].content # Absent}
           n     == Cardinality(found)
<1>1. n \in Nat
  BY HotReloadAssumption, FS_Subset, FS_CardinalityType
<1>2. PICK order \in [1..n -> found] : scan = [i \in 1..n |-> Info(order[i])]
  BY DEF Scans
<1> HIDE DEF n
<1>3. \A i \in 1..n : scan[i].path = order[i]
  BY <1>2 DEF Info
<1> QED BY <1>1, <1>2, <1>3

\* A step that changes neither files nor what is current keeps what it must.
LEMMA StepReload == ReloadInv /\ [Next]_vars => ReloadInv'
<1> SUFFICES ASSUME ReloadInv, [Next]_vars PROVE ReloadInv'
  OBVIOUS
<1> USE DEF editorVars, configVars, appVars
<1>1. CASE Start
  <2>1. Shape'
    BY <1>1, ScanShape DEF Start, ReloadInv, Shape
  <2>2. Accepted' /\ Watched' /\ ReadIsCurrent' /\ WatchIsTrue'
    BY <1>1 DEF Start, Accepted, Watched, ReadIsCurrent, WatchIsTrue
  <2> QED BY <2>1, <2>2 DEF ReloadInv
<1>2. CASE TryCandidate
  <2> DEFINE id == Head(todo)
  <2>1. activate(id) /\ pc = "starting" /\ UNCHANGED <<files, writing, clock, available, watchPath, watchWriteTime>>
        /\ pc' = IF CanActivate(id) THEN "unwatched" ELSE pc
    BY <1>2 DEF TryCandidate
  <2> HIDE DEF id
  <2>2. /\ readTime' \in Nat /\ readTime' <= clock
        /\ current' # NoLayout => Loadable(current')
        /\ ReadIsCurrent'
    BY <2>1, ActivateKeeps
  <2>3. Shape'
    BY <2>1, <2>2 DEF ReloadInv, Shape
  <2>4. Accepted'
    <3>1. CanActivate(id) => current' # NoLayout
      BY <2>1, LoadableIs DEF activate, CanActivate
    <3>2. ~CanActivate(id) => current' = current
      BY <2>1 DEF activate
    <3> QED BY <2>1, <2>2, <3>1, <3>2 DEF ReloadInv, Accepted
  <2>5. Watched' /\ WatchIsTrue'
    BY <2>1 DEF Watched, WatchIsTrue
  <2> QED BY <2>2, <2>3, <2>4, <2>5 DEF ReloadInv
<1>3. CASE InitFailed
  <2>1. Has' = Has /\ Path' = Path /\ OnDisk' = OnDisk
    BY <1>3 DEF InitFailed, Has, Path, OnDisk
  <2> QED BY <1>3, <2>1 DEF InitFailed, ReloadInv, Shape, Accepted, Watched, ReadIsCurrent, WatchIsTrue, UpToDate
<1>4. CASE UpdateWatchState
  <2>1. /\ pc = "unwatched" /\ pc' = "idle" /\ current # NoLayout
        /\ UNCHANGED <<files, writing, clock, available, currentId, current, readTime>>
    BY <1>4 DEF UpdateWatchState, ReloadInv, Accepted
  <2>2. Has' = Has /\ Path' = Path /\ OnDisk' = OnDisk
    BY <2>1 DEF Has, Path, OnDisk
  <2>3. CASE ~Has
    <3>1. watchPath' = NoPath /\ watchWriteTime' = 0
      BY <1>4, <2>3, CurrentQueries DEF UpdateWatchState, Has
    <3> QED BY <2>1, <2>2, <3>1 DEF ReloadInv, Shape, Accepted, Watched, ReadIsCurrent, WatchIsTrue, UpToDate
  <2>4. CASE Has
    <3>1. /\ watchPath' = Path
          /\ watchWriteTime' = IF files[Path].content = Absent THEN 0 ELSE files[Path].time
          /\ swallowed' = (files[Path].content # Absent /\ files[Path].time # readTime)
      BY <1>4, <2>4, CurrentQueries DEF UpdateWatchState, Has, Path
    <3>2. Path \in Paths
      BY <2>4, PathIsPath DEF ReloadInv
    <3>3. Shape'
      BY <2>1, <3>1, <3>2 DEF ReloadInv, Shape
    <3>4. Accepted' /\ Watched' /\ ReadIsCurrent'
      BY <2>1, <2>2, <2>4, <3>1 DEF ReloadInv, Accepted, Watched, ReadIsCurrent, UpToDate
    <3>5. ~swallowed' => UpToDate
      <4>1. CASE files[Path].content = Absent
        BY <2>4, <4>1, LoadableIs DEF UpToDate, OnDisk, LoadIn, Has, Path
      <4>2. CASE files[Path].content # Absent
        BY <2>1, <2>4, <3>1, <4>2 DEF ReloadInv, ReadIsCurrent
      <4> QED BY <4>1, <4>2
    <3>6. WatchIsTrue'
      BY <2>1, <2>2, <3>5 DEF WatchIsTrue, UpToDate
    <3> QED BY <3>3, <3>4, <3>6 DEF ReloadInv
  <2> QED BY <2>3, <2>4
<1>5. ASSUME NEW id, SwitchLayout(id) PROVE ReloadInv'
  <2>1. pc = "idle" /\ UNCHANGED <<files, writing, clock, available, watchPath, watchWriteTime>>
    BY <1>5 DEF SwitchLayout
  <2>2. CASE id = currentId /\ current # NoLayout
    <3>1. pc' = "unwatched" /\ UNCHANGED <<currentId, current, readTime, swallowed>>
      BY <1>5, <2>2 DEF SwitchLayout
    <3>2. Has' = Has /\ Path' = Path /\ OnDisk' = OnDisk
      BY <2>1, <3>1 DEF Has, Path, OnDisk
    <3> QED BY <2>1, <2>2, <3>1, <3>2 DEF ReloadInv, Shape, Accepted, Watched, ReadIsCurrent, WatchIsTrue, UpToDate
  <2>3. CASE ~(id = currentId /\ current # NoLayout)
    <3>1. activate(id) /\ pc' = IF CanActivate(id) THEN "unwatched" ELSE pc
      BY <1>5, <2>3 DEF SwitchLayout
    <3>2. /\ readTime' \in Nat /\ readTime' <= clock
          /\ current' # NoLayout => Loadable(current')
          /\ ReadIsCurrent'
      BY <2>1, <3>1, ActivateKeeps
    <3>3. Shape'
      BY <2>1, <3>2 DEF ReloadInv, Shape
    <3>4. CASE CanActivate(id)
      <4>1. current' # NoLayout
        BY <3>1, <3>4, LoadableIs DEF activate, CanActivate
      <4> QED BY <3>1, <3>2, <3>3, <3>4, <4>1 DEF ReloadInv, Accepted, Watched, WatchIsTrue
    <3>5. CASE ~CanActivate(id)
      <4>1. UNCHANGED <<current, currentId, pc>>
        BY <3>1, <3>5 DEF activate
      <4>2. Has' = Has /\ Path' = Path /\ OnDisk' = OnDisk
        BY <2>1, <4>1 DEF Has, Path, OnDisk
      <4>3. Accepted' /\ Watched'
        BY <2>1, <4>1, <4>2 DEF ReloadInv, Accepted, Watched
      <4>4. WatchIsTrue'
        <5>1. CASE id = currentId
          <6>1. ~Loadable(OnDisk)
            BY <3>5, <5>1, Queries DEF CanActivate, OnDisk
          <6> QED BY <4>2, <6>1 DEF WatchIsTrue, UpToDate
        <5>2. CASE id # currentId
          <6>1. UNCHANGED swallowed
            BY <3>1, <3>5, <5>2 DEF activate, Read
          <6> QED BY <2>1, <4>1, <4>2, <6>1 DEF ReloadInv, WatchIsTrue, UpToDate
        <5> QED BY <5>1, <5>2
      <4> QED BY <3>2, <3>3, <4>3, <4>4 DEF ReloadInv
    <3> QED BY <3>4, <3>5
  <2> QED BY <2>2, <2>3
<1>6. CASE CheckLayoutReload
  <2>1. /\ pc = "idle" /\ pc' = "reloading" /\ watchPath # NoPath
        /\ watchWriteTime' = files[watchPath].time
        /\ UNCHANGED <<files, writing, clock, available, currentId, current, watchPath, readTime>>
    BY <1>6 DEF CheckLayoutReload
  <2>2. Has' = Has /\ Path' = Path /\ OnDisk' = OnDisk
    BY <2>1 DEF Has, Path, OnDisk
  <2>3. watchPath \in Paths
    BY <2>1, PathIsPath DEF ReloadInv, Watched
  <2> QED BY <2>1, <2>2, <2>3 DEF ReloadInv, Shape, Accepted, Watched, ReadIsCurrent, WatchIsTrue, UpToDate
<1>7. CASE ReloadCurrent
  <2>1. /\ activate(currentId) /\ pc = "reloading" /\ pc' = "idle"
        /\ UNCHANGED <<files, writing, clock, available, watchPath, watchWriteTime>>
    BY <1>7 DEF ReloadCurrent
  <2>2. /\ readTime' \in Nat /\ readTime' <= clock
        /\ current' # NoLayout => Loadable(current')
        /\ ReadIsCurrent'
    BY <2>1, ActivateKeeps
  <2>3. currentId' = currentId
    BY <2>1 DEF activate
  <2>4. Has' = Has /\ Path' = Path /\ OnDisk' = OnDisk
    BY <2>1, <2>3 DEF Has, Path, OnDisk
  <2>5. UpToDate'
    BY <2>1, <2>4, ActivateDoes DEF UpToDate, OnDisk
  <2> QED BY <2>1, <2>2, <2>3, <2>4, <2>5 DEF ReloadInv, Shape, Accepted, Watched, WatchIsTrue
<1>8. CASE Shutdown \/ Kill
  <2>1. Stopped
    BY <1>8 DEF Shutdown, Kill
  <2>2. Shape'
    BY <2>1 DEF Stopped, ReloadInv, Shape
  <2>3. Accepted' /\ Watched' /\ ReadIsCurrent' /\ WatchIsTrue'
    BY <2>1 DEF Stopped, Accepted, Watched, ReadIsCurrent, WatchIsTrue
  <2> QED BY <2>2, <2>3 DEF ReloadInv
<1>9. ASSUME NEW p \in Paths, NEW t, Delete(p) \/ BeginWrite(p, t) PROVE ReloadInv'
  BY <1>9, PutKeeps DEF Delete, BeginWrite, ReloadInv, Shape
<1>10. CASE EndWrite
  BY <1>10, PutKeeps DEF EndWrite, ReloadInv, Shape
<1>11. CASE FailWrite
  <2>1. Has' = Has /\ Path' = Path /\ OnDisk' = OnDisk
    BY <1>11 DEF FailWrite, Has, Path, OnDisk
  <2> QED BY <1>11, <2>1 DEF FailWrite, ReloadInv, Shape, Accepted, Watched, ReadIsCurrent, WatchIsTrue, UpToDate
<1>12. CASE UNCHANGED vars
  <2>1. Has' = Has /\ Path' = Path /\ OnDisk' = OnDisk
    BY <1>12 DEF vars, Has, Path, OnDisk
  <2> QED BY <1>12, <2>1 DEF vars, ReloadInv, Shape, Accepted, Watched, ReadIsCurrent, WatchIsTrue, UpToDate
<1> QED
  BY <1>1, <1>2, <1>3, <1>4, <1>5, <1>6, <1>7, <1>8, <1>9, <1>10, <1>11, <1>12
     DEF Next, App, Editor

\* When the watch believes to be up to date, the layout in use is the one on
\* disk, if that is one: however many writes, in whatever order, went by.
THEOREM WatchTellsTheTruth == Spec => []UpToDateIsFresh
<1>1. ReloadInv => UpToDateIsFresh
  BY FreshIsUpToDate DEF ReloadInv, WatchIsTrue, UpToDateIsFresh
<1> QED BY <1>1, InitReload, StepReload, PTL DEF Spec

LEMMA CurrentStays ==
  ASSUME ReloadInv, [Next]_vars, current # NoLayout, pc' # "off"
  PROVE  current' # NoLayout /\ current'.valid
<1> USE DEF editorVars, configVars, appVars
<1>1. current' # NoLayout
  <2>1. CASE \E id : activate(id) /\ UNCHANGED <<files, available, clock>>
    BY <2>1, ActivateKeeps
  <2>2. CASE UNCHANGED current
    BY <2>2
  <2>3. CASE Start \/ Shutdown \/ Kill
    BY <2>3 DEF Start, Shutdown, Kill, Stopped, ReloadInv, Accepted
  <2>4. \/ \E id : activate(id) /\ UNCHANGED <<files, available, clock>>
        \/ UNCHANGED current
        \/ Start \/ Shutdown \/ Kill
    <3>1. CASE TryCandidate \/ ReloadCurrent
      BY <3>1 DEF TryCandidate, ReloadCurrent
    <3>2. CASE InitFailed \/ UpdateWatchState \/ CheckLayoutReload
      BY <3>2 DEF InitFailed, UpdateWatchState, CheckLayoutReload
    <3>3. ASSUME NEW id, SwitchLayout(id)
          PROVE  (activate(id) /\ UNCHANGED <<files, available, clock>>) \/ UNCHANGED current
      BY <3>3 DEF SwitchLayout
    <3>4. CASE Editor
      BY <3>4 DEF Editor, Delete, BeginWrite, EndWrite, FailWrite
    <3>5. CASE UNCHANGED vars
      BY <3>5 DEF vars
    <3> QED BY <3>1, <3>2, <3>3, <3>4, <3>5 DEF Next, App
  <2> QED BY <2>1, <2>2, <2>3, <2>4
<1>2. Loadable(current')
  BY <1>1, StepReload DEF ReloadInv, Accepted
<1> QED BY <1>1, <1>2 DEF Loadable

\* A running keyboard that has a layout keeps one, and only ones that were
\* read whole and validated.
THEOREM LayoutIsNeverLost == Spec => LayoutNeverLost
<1>1. ReloadInv /\ [Next]_vars =>
        [current # NoLayout /\ pc' # "off" => current' # NoLayout /\ current'.valid]_vars
  BY CurrentStays
<1> QED BY <1>1, InitReload, StepReload, PTL DEF Spec, LayoutNeverLost
-----------------------------------------------------------------------------
(* The types.                                                              *)

Listed == [path : Paths, id : Ids, valid : BOOLEAN]

LEMMA ListedIn ==
  ASSUME NEW list \in Seq(Listed)
  PROVE  /\ DOMAIN list = 1..Len(list) /\ Len(list) \in Nat
         /\ \A i \in DOMAIN list : list[i].path \in Paths /\ list[i].id \in Ids
<1>1. DOMAIN list = 1..Len(list) /\ Len(list) \in Nat
  BY LenProperties
<1>2. \A i \in DOMAIN list : list[i] \in Listed
  BY <1>1, ElementOfSeq
<1> QED BY <1>1, <1>2 DEF Listed

LEMMA AvailableType ==
  ASSUME TypeOK
  PROVE  /\ DOMAIN available \subseteq Nat
         /\ \A i \in DOMAIN available : available[i].path \in Paths /\ available[i].id \in Ids
<1>1. available \in Seq(Listed)
  BY DEF TypeOK, Listed
<1> QED BY <1>1, ListedIn

LEMMA ScanType ==
  ASSUME NEW scan \in Scans
  PROVE  scan \in Seq(Listed)
<1> DEFINE found == {p \in Paths : files[p].content # Absent}
           n     == Cardinality(found)
<1>1. n \in Nat
  BY HotReloadAssumption, FS_Subset, FS_CardinalityType
<1>2. PICK order \in [1..n -> found] : scan = [i \in 1..n |-> Info(order[i])]
  BY DEF Scans
<1> HIDE DEF n
<1>3. ASSUME NEW p \in Paths PROVE Info(p) \in Listed
  <2>1. Loadable(files[p].content) \in BOOLEAN
    BY HotReloadAssumption DEF Loadable
  <2>2. \A t \in Texts : t.id \in Ids
    BY DEF Ids
  <2>3. Stem[p] \in Ids
    BY DEF Ids
  <2> QED BY <2>1, <2>2, <2>3 DEF Info, Listed
<1>4. \A i \in 1..n : scan[i] \in Listed
  BY <1>2, <1>3
<1> QED BY <1>1, <1>2, <1>4, IsASeq

LEMMA CandidatesType ==
  ASSUME NEW scan \in Seq(Listed), NEW preferred \in Ids
  PROVE  Candidates(scan, preferred) \in Seq(Ids)
<1> DEFINE S     == {i \in DOMAIN scan : scan[i].valid}
           valid == Kept(scan, S)
           ids   == [i \in DOMAIN valid |-> valid[i].id]
<1>1. valid \in Seq(EntriesAt(scan, S))
  BY KeptEntries
<1>2. EntriesAt(scan, S) \subseteq Listed
  BY LenProperties, ElementOfSeq DEF EntriesAt
<1> HIDE DEF valid
<1>3. valid \in Seq(Listed) /\ Len(valid) \in Nat /\ DOMAIN valid = 1..Len(valid)
  BY <1>1, <1>2, SeqMonotonic, LenProperties
<1>4. \A i \in 1..Len(valid) : valid[i].id \in Ids
  BY <1>3, ListedIn
<1>5. ids \in Seq(Ids)
  BY <1>3, <1>4, IsASeq
<1>6. <<preferred>> \o ids \in Seq(Ids)
  <2>1. <<preferred>> \in Seq(Ids)
    OBVIOUS
  <2> HIDE DEF ids
  <2> QED BY <1>5, <2>1, ConcatProperties
<1>7. Candidates(scan, preferred) \in {ids, <<preferred>> \o ids}
  BY DEF Candidates, valid
<1> QED BY <1>5, <1>6, <1>7

\* Activation reads a text the type of a text, or nothing.
LEMMA ActivateType ==
  ASSUME TypeOK, NEW id \in Ids \cup {NoId}, activate(id)
  PROVE  /\ currentId' \in Ids \cup {NoId} /\ current' \in Texts \cup {NoLayout}
         /\ readTime' \in 0..MaxTime /\ swallowed' \in BOOLEAN
<1>1. /\ IF Loadable(LoadIn(files, available, id))
         THEN current' = LoadIn(files, available, id) /\ currentId' = id
         ELSE UNCHANGED <<current, currentId>>
      /\ IF IndexesIn(available, id) # {} /\ (Loadable(LoadIn(files, available, id)) \/ id = currentId)
         THEN readTime' = files[FindIn(available, id).path].time /\ swallowed' = FALSE
         ELSE UNCHANGED <<readTime, swallowed>>
  BY ActivateDoes
<1>2. DOMAIN available \subseteq Nat /\ \A i \in DOMAIN available : available[i].path \in Paths
  BY AvailableType
<1>3. IndexesIn(available, id) # {} => files[FindIn(available, id).path].time \in 0..MaxTime
  BY <1>2, FoundIsEntry DEF TypeOK
<1> QED BY <1>1, <1>3 DEF TypeOK, Loadable

\* A write, of a text, of the first half of one or of nothing.
LEMMA PutType ==
  ASSUME TypeOK, NEW p \in Paths, NEW c \in Texts \cup {Broken, Absent}, Put(p, c)
  PROVE  /\ files' \in [Paths -> [content : Texts \cup {Broken, Absent}, time : 0..MaxTime]]
         /\ clock' \in 0..MaxTime
<1>1. clock + 1 \in 0..MaxTime
  BY HotReloadAssumption DEF Put, TypeOK
<1> QED BY <1>1 DEF Put, TypeOK

LEMMA InitType == Init => TypeOK
<1> SUFFICES ASSUME Init PROVE TypeOK
  OBVIOUS
<1>1. 0 \in 0..MaxTime /\ DefaultId \in Ids /\ \A S : <<>> \in Seq(S)
  BY HotReloadAssumption, EmptySeq DEF Ids
<1>2. \A p \in Paths : Initial[p] \in Texts \cup {Broken, Absent}
  BY HotReloadAssumption
<1> QED BY <1>1, <1>2 DEF Init, TypeOK

LEMMA StepType == TypeOK /\ [Next]_vars => TypeOK'
<1> SUFFICES ASSUME TypeOK, [Next]_vars PROVE TypeOK'
  OBVIOUS
<1> USE DEF editorVars, configVars, appVars
<1>0. 0 \in 0..MaxTime /\ \A S : <<>> \in Seq(S)
  BY HotReloadAssumption, EmptySeq
<1>1. CASE Start
  <2>1. available' \in Seq(Listed)
    BY <1>1, ScanType DEF Start
  <2>2. todo' \in Seq(Ids)
    BY <1>1, <2>1, CandidatesType DEF Start, TypeOK
  <2> QED BY <1>0, <1>1, <2>1, <2>2 DEF Start, TypeOK, Listed
<1>2. CASE TryCandidate
  <2> DEFINE id == Head(todo)
  <2>1. id \in Ids /\ Tail(todo) \in Seq(Ids)
    BY <1>2, HeadTailProperties DEF TryCandidate, TypeOK
  <2>2. activate(id)
    BY <1>2 DEF TryCandidate
  <2> HIDE DEF id
  <2>3. /\ currentId' \in Ids \cup {NoId} /\ current' \in Texts \cup {NoLayout}
        /\ readTime' \in 0..MaxTime /\ swallowed' \in BOOLEAN
    BY <2>1, <2>2, ActivateType
  <2>4. pc' \in {"unwatched", pc} /\ todo' \in {<<>>, Tail(todo)}
    BY <1>2 DEF TryCandidate
  <2>5. UNCHANGED <<editorVars, configVars, available, watchPath, watchWriteTime>>
    BY <1>2 DEF TryCandidate
  <2> QED BY <1>0, <2>1, <2>3, <2>4, <2>5 DEF TypeOK
<1>3. CASE InitFailed
  BY <1>3 DEF InitFailed, TypeOK
<1>4. CASE UpdateWatchState
  <2>1. /\ watchPath' \in Paths \cup {NoPath} /\ watchWriteTime' \in 0..MaxTime
        /\ swallowed' \in BOOLEAN
    <3>1. CASE Entries(currentId) = {}
      BY <1>0, <1>4, <3>1 DEF UpdateWatchState, TypeOK
    <3>2. CASE Entries(currentId) # {}
      <4>1. DOMAIN available \subseteq Nat /\ \A i \in DOMAIN available : available[i].path \in Paths
        BY AvailableType
      <4>2. find(currentId).path \in Paths
        BY <3>2, <4>1, CurrentQueries, FoundIsEntry
      <4> QED BY <1>0, <1>4, <3>2, <4>2 DEF UpdateWatchState, TypeOK
    <3> QED BY <3>1, <3>2
  <2> QED BY <1>4, <2>1 DEF UpdateWatchState, TypeOK
<1>5. ASSUME NEW i \in DOMAIN available, SwitchLayout(available[i].id) PROVE TypeOK'
  <2> DEFINE id == available[i].id
  <2>1. id \in Ids
    BY AvailableType
  <2>2. SwitchLayout(id)
    BY <1>5
  <2> HIDE DEF id
  <2>3. /\ currentId' \in Ids \cup {NoId} /\ current' \in Texts \cup {NoLayout}
        /\ readTime' \in 0..MaxTime /\ swallowed' \in BOOLEAN
    <3>1. CASE activate(id)
      BY <2>1, <3>1, ActivateType
    <3>2. CASE UNCHANGED <<currentId, current, readTime, swallowed>>
      BY <3>2 DEF TypeOK
    <3> QED BY <2>2, <3>1, <3>2 DEF SwitchLayout
  <2>4. /\ layoutName' \in {id, layoutName} /\ pc' \in {"unwatched", pc}
        /\ UNCHANGED <<editorVars, configFile, available, watchPath, watchWriteTime, todo>>
    BY <2>2 DEF SwitchLayout
  <2> QED BY <2>1, <2>3, <2>4 DEF TypeOK
<1>6. CASE CheckLayoutReload
  BY <1>6 DEF CheckLayoutReload, TypeOK
<1>7. CASE ReloadCurrent
  <2>1. currentId \in Ids \cup {NoId} /\ activate(currentId)
    BY <1>7 DEF ReloadCurrent, TypeOK
  <2>2. /\ currentId' \in Ids \cup {NoId} /\ current' \in Texts \cup {NoLayout}
        /\ readTime' \in 0..MaxTime /\ swallowed' \in BOOLEAN
    BY <2>1, ActivateType
  <2>3. /\ pc' = "idle"
        /\ UNCHANGED <<editorVars, configVars, available, watchPath, watchWriteTime, todo>>
    BY <1>7 DEF ReloadCurrent
  <2> QED BY <2>2, <2>3 DEF TypeOK
<1>8. CASE Shutdown \/ Kill
  BY <1>0, <1>8 DEF Shutdown, Kill, Stopped, TypeOK
<1>9. ASSUME NEW p \in Paths, Delete(p) \/ (\E t \in Texts : BeginWrite(p, t)) PROVE TypeOK'
  <2>1. PICK c \in {Absent, Broken} : Put(p, c)
    BY <1>9 DEF Delete, BeginWrite
  <2>2. /\ files' \in [Paths -> [content : Texts \cup {Broken, Absent}, time : 0..MaxTime]]
        /\ clock' \in 0..MaxTime
    BY <2>1, PutType
  <2>3. /\ writing' \in [path : Paths, text : Texts] \cup {NoWrite}
        /\ UNCHANGED <<configVars, appVars, readTime, swallowed>>
    BY <1>9 DEF Delete, BeginWrite, TypeOK
  <2> QED BY <2>2, <2>3 DEF TypeOK
<1>10. CASE EndWrite
  <2>1. writing.path \in Paths /\ writing.text \in Texts
    BY <1>10 DEF EndWrite, TypeOK
  <2>2. /\ files' \in [Paths -> [content : Texts \cup {Broken, Absent}, time : 0..MaxTime]]
        /\ clock' \in 0..MaxTime
    BY <1>10, <2>1, PutType DEF EndWrite
  <2> QED BY <1>10, <2>2 DEF EndWrite, TypeOK
<1>11. CASE FailWrite
  BY <1>11 DEF FailWrite, TypeOK
<1>12. CASE UNCHANGED vars
  BY <1>12 DEF vars, TypeOK
<1> QED
  BY <1>1, <1>2, <1>3, <1>4, <1>5, <1>6, <1>7, <1>8, <1>9, <1>10, <1>11, <1>12
     DEF Next, App, Editor

\* Every part of the application's state has its type: in particular the ids
\* that are tried, shown and saved are ids of files or of texts, and the watch
\* is on one of the files or on none.
THEOREM TypeCorrectness == Spec => []TypeOK
BY InitType, StepType, PTL DEF Spec
=============================================================================
