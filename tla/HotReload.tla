------------------------------ MODULE HotReload ------------------------------
(***************************************************************************)
(* The active layout of the running keyboard and the files it comes from:  *)
(* Application.cpp (start, tray menu, reload timer, shutdown) over         *)
(* core/KeyboardLayoutManager and core/LayoutRegistry, while an editor,    *)
(* the layout designer or another one, writes the same files.              *)
(*                                                                         *)
(* The application is one thread; each handler that looks at the disk      *)
(* twice is split where an editor can come between the two looks, and `pc` *)
(* says where it stands.  A file is its content and its time of last       *)
(* write; every write gives a new time.  A layout that is read is the text *)
(* of the file.  The engine works on the manager's current layout at all   *)
(* times: activate calls SetLayout before it returns.                      *)
(***************************************************************************)
EXTENDS Naturals, Sequences, FiniteSets, Lists

CONSTANTS
  Paths,         \* the *.json files of the layouts directory
  Stem,          \* [Paths -> ids]: the file names without their extension
  Texts,         \* complete layout texts: [id, valid, rev]
  Broken,        \* a text the parser rejects: a file caught half-written
  Absent,        \* no file
  NoLayout, NoId, NoPath, NoWrite,
  DefaultId,     \* Config's default layout name
  Initial,       \* [Paths -> Texts \cup {Absent}]: the files at first start
  MaxTime        \* bound: writes, truncations and deletions in a behaviour

Ids == {Stem[p] : p \in Paths} \cup {t.id : t \in Texts} \cup {DefaultId}

ASSUME HotReloadAssumption ==
  /\ MaxTime \in Nat /\ IsFiniteSet(Paths)
  /\ Initial \in [Paths -> Texts \cup {Absent}]
  /\ \A t \in Texts : t.valid \in BOOLEAN
  /\ Broken \notin Texts /\ Absent \notin Texts /\ NoLayout \notin Texts
  /\ NoPath \notin Paths

VARIABLES
  files,           \* [Paths -> [content, time]]
  writing,         \* the write the editor is in the middle of, or NoWrite
  clock,           \* the time of the last write (bounded by MaxTime)
  configFile,      \* the layout name in config.ini
  layoutName,      \* Config::m_layoutName
  available,       \* LayoutRegistry::m_layouts
  currentId,       \* KeyboardLayoutManager::m_currentId
  current,         \* KeyboardLayoutManager::m_current, the text it was read from
  watchPath,       \* Application::m_watchPath
  watchWriteTime,  \* Application::m_watchWriteTime
  pc,              \* where the application's thread stands
  todo,            \* the ids initialize has still to try
  readTime,        \* history: the write time of the text last read for activation
  swallowed        \* history: the watch recorded a time whose text was not read

editorVars == <<files, writing, clock>>
configVars == <<configFile, layoutName>>
appVars    == <<available, currentId, current, watchPath, watchWriteTime, pc, todo>>
vars       == <<editorVars, configVars, appVars, readTime, swallowed>>

-----------------------------------------------------------------------------
\* LayoutRegistry.

\* parseFile and the validator accept a content.
Loadable(content) == content \in Texts /\ content.valid

\* What scan notes of a file: its id is the metadata's or the file name's.
Info(p) ==
  LET c == files[p].content
  IN  [path  |-> p,
       id    |-> IF c \in Texts /\ c.id # NoId THEN c.id ELSE Stem[p],
       valid |-> Loadable(c)]

\* scan, in the order of the names (which the texts may choose as they like).
Scans ==
  LET found == {p \in Paths : files[p].content # Absent}
      n     == Cardinality(found)
  IN  {[i \in 1..n |-> Info(order[i])] :
         order \in {f \in [1..n -> found] : \A i, j \in 1..n : f[i] = f[j] => i = j}}

\* find: the first entry of that id.
Entries(id) == {i \in DOMAIN available : available[i].id = id}
find(id)    == available[CHOOSE i \in Entries(id) : \A j \in Entries(id) : i <= j]

\* load: the text of the file of that id, as it is on disk now.
load(id) == IF Entries(id) = {} THEN Absent ELSE files[find(id).path].content

-----------------------------------------------------------------------------
\* KeyboardLayoutManager.

\* Mutant of CanActivate: any file that is there is taken, parsed or not.
CanActivateAny(id) == load(id) # Absent

CanActivate(id) == Loadable(load(id))

\* What activate has read of the file that counts from now on: the new current
\* one, or again the current one, even if its text was not accepted.
Read(id) ==
  IF Entries(id) # {} /\ (CanActivate(id) \/ id = currentId)
  THEN readTime' = files[find(id).path].time /\ swallowed' = FALSE
  ELSE UNCHANGED <<readTime, swallowed>>

\* Mutant of activate: the current layout is dropped before the new one is read.
activateDrops(id) ==
  /\ Read(id)
  /\ current' = IF CanActivate(id) THEN load(id) ELSE NoLayout
  /\ currentId' = IF CanActivate(id) THEN id ELSE currentId

\* activate: on success the layout and its id, on failure nothing.
activate(id) ==
  /\ Read(id)
  /\ IF CanActivate(id) THEN current' = load(id) /\ currentId' = id
     ELSE UNCHANGED <<current, currentId>>

\* The candidates of initialize: the preferred id if it is present and valid,
\* then every valid entry.
Candidates(scan, preferred) ==
  LET valid  == Kept(scan, {i \in DOMAIN scan : scan[i].valid})
      ids    == [i \in DOMAIN valid |-> valid[i].id]
      ofPref == {i \in DOMAIN scan : scan[i].id = preferred}
      first  == CHOOSE i \in ofPref : \A j \in ofPref : i <= j
  IN  IF ofPref # {} /\ scan[first].valid THEN <<preferred>> \o ids ELSE ids

-----------------------------------------------------------------------------
\* The application.

Init ==
  /\ files = [p \in Paths |-> [content |-> Initial[p], time |-> 0]]
  /\ writing = NoWrite /\ clock = 0
  /\ configFile = DefaultId /\ layoutName = DefaultId
  /\ available = <<>> /\ currentId = NoId /\ current = NoLayout
  /\ watchPath = NoPath /\ watchWriteTime = 0
  /\ pc = "off" /\ todo = <<>>
  /\ readTime = 0 /\ swallowed = FALSE

\* Run: load the configuration and scan the directory (InitLayouts).
Start ==
  /\ pc = "off"
  /\ layoutName' = configFile
  /\ available' \in Scans
  /\ todo' = Candidates(available', configFile)
  /\ pc' = "starting"
  /\ currentId' = NoId /\ current' = NoLayout
  /\ watchPath' = NoPath /\ watchWriteTime' = 0
  /\ readTime' = 0 /\ swallowed' = FALSE
  /\ UNCHANGED <<editorVars, configFile>>

\* initialize tries its next candidate.
TryCandidate ==
  /\ pc = "starting" /\ todo # <<>>
  /\ activate(Head(todo))
  /\ IF CanActivate(Head(todo)) THEN pc' = "unwatched" /\ todo' = <<>>
     ELSE pc' = pc /\ todo' = Tail(todo)
  /\ UNCHANGED <<editorVars, configVars, available, watchPath, watchWriteTime>>

\* initialize has no candidate left: the keyboard runs without a layout.
InitFailed ==
  /\ pc = "starting" /\ todo = <<>>
  /\ pc' = "idle"
  /\ UNCHANGED <<editorVars, configVars, available, currentId, current, watchPath,
                 watchWriteTime, todo, readTime, swallowed>>

\* UpdateWatchState, the end of InitLayouts and of SwitchLayout: watch the file
\* of the current id from its present write time on.
UpdateWatchState ==
  /\ pc = "unwatched"
  /\ IF Entries(currentId) = {} THEN watchPath' = NoPath /\ watchWriteTime' = 0 /\ UNCHANGED swallowed
     ELSE LET file == files[find(currentId).path]
          IN  /\ watchPath' = find(currentId).path
              /\ watchWriteTime' = IF file.content = Absent THEN 0 ELSE file.time
              /\ swallowed' = (file.content # Absent /\ file.time # readTime)
  /\ pc' = "idle"
  /\ UNCHANGED <<editorVars, configVars, available, currentId, current, todo, readTime>>

\* SwitchLayout, from a menu item: switchTo loads nothing when the id is the
\* current one; after a failure nothing changes.
SwitchLayout(id) ==
  /\ pc = "idle"
  /\ \/ /\ id = currentId /\ current # NoLayout
        /\ layoutName' = id /\ pc' = "unwatched"
        /\ UNCHANGED <<currentId, current, readTime, swallowed>>
     \/ /\ ~(id = currentId /\ current # NoLayout)
        /\ activate(id)
        /\ IF CanActivate(id) THEN layoutName' = id /\ pc' = "unwatched"
           ELSE UNCHANGED <<layoutName, pc>>
  /\ UNCHANGED <<editorVars, configFile, available, watchPath, watchWriteTime, todo>>

\* Mutant of CheckLayoutReload: a file that is gone for a moment is given up.
CheckLayoutReloadGivesUp ==
  /\ pc = "idle" /\ watchPath # NoPath
  /\ IF files[watchPath].content = Absent
     THEN watchPath' = NoPath /\ watchWriteTime' = 0 /\ pc' = pc
     ELSE /\ files[watchPath].time # watchWriteTime
          /\ watchWriteTime' = files[watchPath].time /\ pc' = "reloading"
          /\ UNCHANGED watchPath
  /\ UNCHANGED <<editorVars, configVars, available, currentId, current, todo,
                 readTime, swallowed>>

\* CheckLayoutReload, on every tick of the timer: the write time changed.
CheckLayoutReload ==
  /\ pc = "idle" /\ watchPath # NoPath
  /\ files[watchPath].content # Absent
  /\ files[watchPath].time # watchWriteTime
  /\ watchWriteTime' = files[watchPath].time
  /\ pc' = "reloading"
  /\ UNCHANGED <<editorVars, configVars, available, currentId, current, watchPath, todo,
                 readTime, swallowed>>

\* Mutant of ReloadCurrent: the write time is taken again after the load.
ReloadCurrentLate ==
  /\ pc = "reloading"
  /\ \/ activate(currentId) /\ UNCHANGED watchWriteTime
     \/ UNCHANGED <<current, currentId, readTime, swallowed>> /\ watchWriteTime' = files[watchPath].time
  /\ pc' = "idle"
  /\ UNCHANGED <<editorVars, configVars, available, watchPath, todo>>

\* ... and reloadCurrent: read the file again.
ReloadCurrent ==
  /\ pc = "reloading"
  /\ activate(currentId)
  /\ pc' = "idle"
  /\ UNCHANGED <<editorVars, configVars, available, watchPath, watchWriteTime, todo>>

\* Shutdown saves the configuration; a process that is killed does not.
Stopped ==
  /\ pc' = "off" /\ todo' = <<>>
  /\ currentId' = NoId /\ current' = NoLayout
  /\ watchPath' = NoPath /\ watchWriteTime' = 0
  /\ readTime' = 0 /\ swallowed' = FALSE
  /\ available' = <<>>
  /\ UNCHANGED editorVars

Shutdown == pc = "idle" /\ configFile' = layoutName /\ UNCHANGED layoutName /\ Stopped
Kill     == pc # "off" /\ UNCHANGED configVars /\ Stopped

-----------------------------------------------------------------------------
\* The editor: WriteFileBackup truncates the file, then writes the text.

Put(p, content) ==
  /\ clock < MaxTime
  /\ clock' = clock + 1
  /\ files' = [files EXCEPT ![p] = [content |-> content, time |-> clock + 1]]

BeginWrite(p, t) ==
  /\ writing = NoWrite
  /\ Put(p, Broken)
  /\ writing' = [path |-> p, text |-> t]
  /\ UNCHANGED <<configVars, appVars, readTime, swallowed>>

EndWrite ==
  /\ writing # NoWrite
  /\ Put(writing.path, writing.text)
  /\ writing' = NoWrite
  /\ UNCHANGED <<configVars, appVars, readTime, swallowed>>

\* The disk is full, or the editor dies: the file stays as it was truncated.
FailWrite ==
  /\ writing # NoWrite
  /\ writing' = NoWrite
  /\ UNCHANGED <<files, clock, configVars, appVars, readTime, swallowed>>

Delete(p) ==
  /\ writing = NoWrite /\ files[p].content # Absent
  /\ Put(p, Absent)
  /\ UNCHANGED <<writing, configVars, appVars, readTime, swallowed>>

App ==
  \/ Start \/ TryCandidate \/ InitFailed \/ UpdateWatchState
  \/ \E i \in DOMAIN available : available[i].valid /\ SwitchLayout(available[i].id)
  \/ CheckLayoutReload \/ ReloadCurrent
  \/ Shutdown \/ Kill

Editor ==
  \/ \E p \in Paths : Delete(p) \/ \E t \in Texts : BeginWrite(p, t)
  \/ EndWrite \/ FailWrite

Next == App \/ Editor

\* The message loop runs: a handler that has begun ends, and the timer, which
\* is periodic, is served again and again (SF: a menu in between only delays
\* the tick, as its modal loop dispatches timers too).
Fairness ==
  /\ WF_vars(TryCandidate \/ InitFailed \/ UpdateWatchState \/ ReloadCurrent)
  /\ SF_vars(CheckLayoutReload)

Spec == Init /\ [][Next]_vars /\ Fairness

-----------------------------------------------------------------------------
TypeOK ==
  /\ files \in [Paths -> [content : Texts \cup {Broken, Absent}, time : 0..MaxTime]]
  /\ writing \in [path : Paths, text : Texts] \cup {NoWrite}
  /\ clock \in 0..MaxTime
  /\ configFile \in Ids /\ layoutName \in Ids
  /\ available \in Seq([path : Paths, id : Ids, valid : BOOLEAN])
  /\ currentId \in Ids \cup {NoId} /\ current \in Texts \cup {NoLayout}
  /\ watchPath \in Paths \cup {NoPath} /\ watchWriteTime \in 0..MaxTime
  /\ pc \in {"off", "starting", "unwatched", "idle", "reloading"}
  /\ todo \in Seq(Ids)
  /\ readTime \in 0..MaxTime /\ swallowed \in BOOLEAN

\* The layout in use is what the file of its id holds, when the watch considers
\* itself up to date.  A file that does not load is the exception (the previous
\* layout is kept), and so is a write time recorded without reading the text.
Fresh == Loadable(load(currentId)) => current = load(currentId)

UpToDateIsFresh ==
  /\ pc = "idle" /\ watchPath # NoPath /\ ~swallowed
  /\ files[watchPath].time = watchWriteTime
  => Fresh

\* Once it has a layout, a running keyboard never loses it, and it never takes
\* one from a file that is half-written or does not validate.
LayoutNeverLost ==
  [][current # NoLayout /\ pc' # "off" => current' # NoLayout /\ current'.valid]_vars

\* What is saved reaches the keyboard, however often the file is truncated,
\* broken, deleted or written in between, unless its write time was recorded
\* without reading it.
SavedEditsArrive == []<>(pc = "off" \/ swallowed \/ Fresh)

\* README.md:281: saving the active layout hot-reloads it live.
HotReloadsLive == []<>(pc = "off" \/ Fresh)
=============================================================================
