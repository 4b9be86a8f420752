# Verification of AncientUyghurKeyboard

TLA+ models of the keyboard's core, the TLC runs that check them and the TLAPS proofs about them.
Source paths are relative to the repository's root (`src/...` is its `src/` directory).

## 1. The system

| Component | State | Operations | Talks to |
|---|---|---|---|
| `Composer` (core) | layout, window of emitted codepoints, pending dead key, compose mode and buffer | `process`, `reset`, `setLayout` | called by every front end; returns an edit (Backspaces, text, suppress) |
| `KeyboardLayout` (core) | keys by level, dead keys, ligatures, compose indexes, behaviour flags | level lookup, ligature match, compose lookup, mutators | read by `Composer`, built by the parser and the designer |
| `Normalizer` (core) | tables | `canonicalOrder`, `compose`, `toNFC` | called by `Composer::commit` |
| `KeyboardEngine` | hook, enabled | hook procedure, `SendEdits`, `Enable`, `SetLayout` | the focused application (injects input) |
| Text service (`tsf/`) | sinks, `m_haveLayout`, its own manager and composer | `Activate`, `OnTestKeyDown`, `OnKeyDown`, focus sinks, edit sessions | the text framework and its documents |
| Registry, manager | the scanned list, current id and layout | `scan`, `find`, `load`, `activate`, `switchTo`, `reloadCurrent` | layout files; callback to the engine |
| `Application` | watch path and time, tray, mutex | start, menu, reload timer, shutdown | everything above, `Config` |
| Layout files | JSON text | parse, validate, serialize | manager, designer |
| `LayoutDocument` (designer) | layout, undo and redo stacks, dirty flag, clipboard | mutators, undo, redo, open, new, mark saved | designer window |
| Installation and settings | version marker, `config.ini`, layouts directory | detect, seed, migrate, stamp, load, save | file system, installer |
| Designer window and key dialog | path, selected key, recent list, live preview's composer | the commands of the menu, the key dialog's OK, `WriteFileBackup` | `LayoutDocument`, layout files and their `.bak` |
| Registration, COM plumbing, logger, resources, JSON reader | registry entries, reference counts, text | `DllRegisterServer`, `json::parse` | not modelled (section 7) |

The program has little threading and much sharing. What is hard about it:

* **The composer is blind.** It rewrites text it cannot read: its window must be the tail of what is
  on the screen after any sequence of keys, or its Backspaces delete the user's own characters.
* **Modes.** Dead keys, compose sequences, disabling, layout switches and shortcuts come in any order
  and share the same members.
* **Two front ends.** The text service is asked about a key before it gets it, sees fewer keys than
  the hook, works in UTF-16 units and ignores the result of its edits.
* **Files written by others.** The running keyboard polls a file that an editor truncates, writes and
  deletes; reading it and noting its time are two looks at the disk.
* **Kills.** Every start, every shutdown and every save of the designer rewrites files by truncating
  them first; a `.bak` is a copy of whatever was there.
* **Overlap.** A process that ends gives up the single-instance mutex before it saves its settings, so
  the next one can read and rewrite the same file meanwhile.
* **History.** Undo and redo are two stacks with one bound, checked only on one of them.

What makes each component correct is stated by the properties in section 4. `PROJECT.json` lists all
hazards at their lines, with the property that would catch each.

## 2. Modules

| Module | Code | Notes |
|---|---|---|
| `Lists` | the loops over lists, `std::sort` | what is kept of a list, the orders of a list |
| `KeyboardLayout` | `core/KeyboardLayout`, parts of `VirtualKeys.hpp` | pure operators; layouts are records |
| `Composer` | `core/Composer` | one action per exit of `process`, in the order of its tests |
| `TextControl` | the key event and its edit (`KeyboardEngine.cpp`) | what both front ends share; the control is environment |
| `KeyboardEngine` | `KeyboardEngine.{h,cpp}` | `Composer` + text + hook |
| `TextService` | `tsf/TextService`, `tsf/EditSession` | `Composer` + text in UTF-16 units + framework |
| `Normalizer`, `NormalizedTyping` | `core/Normalizer`, `Composer::commit` | the algorithm, and the algorithm applied key by key to a window |
| `LayoutFile` | `LayoutParser`, `LayoutValidator`, `LayoutSerializer` | documents that are edited, opened and saved |
| `LayoutDocument` | `core/LayoutDocument` | every mutator |
| `EditHistory` | — | abstract specification: what undo and redo promise |
| `Designer` | `designer/DesignerWindow`, the dialogs' results | extends `LayoutDocument` by the window's commands, the files and the file operations of a write |
| `HotReload` | `Application`, `KeyboardLayoutManager`, `LayoutRegistry`, the designer's `WriteFileBackup` | program, editor and files |
| `InstalledData` | `InstallerHelper`, `AutoMigration`, `Migration`, `InstallationDetector`, `VersionManager`, `Config` | starts and shutdowns, one step per file operation |
| `SampleLayouts` | — | the layouts and key events of the typing runs; one is a fragment of `layouts/old_uyghur.json` |
| `MC*` | — | constants for TLC |
| `KeyboardLayoutProofs`, `ComposerProofs` | — | lemmas: lists and layouts; the composer's handlers, for both front ends |
| `KeyboardEngineProofs`, `TextServiceProofs`, `HotReloadProofs`, `InstalledDataProofs` | — | theorems about the module of that name |
| `DesignerProofs` | — | theorems about `LayoutDocument`, about `Designer`, and about `LayoutFile` |
| `NormalizerProofs` | — | theorems about `Normalizer` and `NormalizedTyping` |

How state corresponds to code: variables carry the members' names without `m_`; every variable whose
comment begins with "history" is not in the code and no action reads it in a guard.  Operators named
`...Late`, `...Keeps`, `...Once` and so on, commented "Mutant of", are faulty variants of the next
definition, kept to show that each property can fail; nothing uses them.

Abstractions, by module:

* **KeyboardEngine.** `doc` is the text before the caret. A codepoint the composer did not insert is
  `Foreign`. `SendInput` is called inside the hook, and `Composer::process` relies on the injected
  edit reaching the application before a key that is let through; an edit and the key are one step.
  Injected keys come back to the hook and are ignored there (`Bypass`). What an unsuppressed key does
  to the text is any of: nothing, one character, one deletion. `CaretMoves` has no handler in the code.
  `synced` holds since the window was last empty as long as only the composer touched the text.
* **TextService.** The framework calls `OnTestKeyDown` and then `OnKeyDown` only if the test eats the
  key. An edit session is carried out, or finds no selection or is refused, or does only half of the
  edit (the range cannot be cloned, the context takes no insertion: `Remains`). `synced` ends with a
  session that failed, unless there was nothing to edit, and with an edit that takes back a codepoint of
  two code units: the code then removes half of it, and the model does the same.
* **HotReload.** A scan and a parse are one step, as is every handler between two looks at the disk.
  Every write gives a new time. Id clashes, invalid layouts and layouts saved under another id occur.
* **LayoutFile.** JSON text, and the spelling of codepoints and key names, are abstracted to nodes;
  key names are constants with `fromName[toName[vk]] = vk` (a key may be given by a number of any size,
  but `toName` writes only five hexadecimal digits: larger numbers are excluded). Warnings change nothing and are left out.
  A document without a `keys` section is one without names. Two spellings of the same composition
  codepoint are not distinguished. The per-level `cased` flag, which `resolve` never reads, is dropped
  here and in `LayoutDocument`. `std::sort` on ligatures may order equal lengths either way.
* **LayoutDocument.** A layout is the same record, with `meta` for all metadata. A file that does not
  parse leaves the document unchanged and is not a step.
* **Designer.** Commands and dialogs are modal: in the window nothing happens during a write, but a
  kill can come between any two file operations and each may fail. A file is who wrote it last and
  the layout that was written, or it is absent, or torn (truncated or half-written). What the parser
  does to a text of the serializer is `Recased` and `Readable`, which `LayoutFile` shows in detail; the
  validator is reduced to what the dialog and the parser do not already exclude. A write whose stream
  fails only as it is closed counts as done, as in the code; one whose open fails has changed
  nothing. A write that was killed counts among
  `MaxFaults` like one that failed. `recent` is the list in memory and its file at once (`SaveRecent`
  follows every change). `preview` is the mappings with which the live preview's composer was last
  fed; the text it shows is left out. `KeyEditDialog`'s OK sets the four levels one after the other,
  with a snapshot each, as `DoEditSelectedKey` does.
* **InstalledData.** Rewriting a file is truncation and then writing; either can fail, and a kill can
  come between. The migration reads `config.ini`, opens it (which truncates it) and writes it in three
  steps, and the `Save` of the defaults inside `Load` is two. A bundled layout is copied in two steps and
  the copy may fail at either, leaving a torn file, after which the start goes on. A `config.ini` that
  exists may be unreadable to `Config::Load` (`LoadUnreadable`), which then takes the defaults and saves
  them. `leaving` is a process that gave up the mutex and has still to save: another one may start,
  migrate and load between any two of its steps; `raced` marks that both have the file open to write.
  `mem` stands for `Config`'s
  members, and before they are loaded for the settings a migration is about to write. A
  failing `InitInstance` ends the process without saving, like `Kill`. Version numbers are compared,
  not parsed.

## 3. Runs and bounds

All runs are exhaustive within their bounds.

| Run | Shows | Bounds, and why they are enough |
|---|---|---|
| `keyboard_engine` | typing through the hook | `KWindow` 2 (32 in the code): the window is cut after three codepoints, so truncation meets every other action; ligatures, compositions and dead-key output are at most two codepoints long. `MaxDoc` 3: one foreign character before a full window. Two layouts, six codepoints, 16 key events that reach every exit of `process`. |
| `normalized_typing` | incremental against batch normalisation | eight codepoints (starters that compose and that do not, one that is composed already, three combining classes), texts up to `MaxRaw` 6, window 3; deadlock is off because typing stops at `MaxRaw` |
| `layout_file` | reading and saving files | up to `MaxEntries` 3 entries over all sections, one malformed value of each kind, lookups up to length 3 |
| `layout_document` | edits, undo, redo, save, open | `kMaxHistory` 2 (100 in the code) and `MaxEdits` 3 edits after each open: the bound is exceeded, with undos and redos in any number |
| `hot_reload` | program against editor | two files, four texts (a newer revision, an invalid one, one under the other's id), `MaxTime` 4 writes: two complete saves, each truncation seen or not |
| `text_service` | typing through the text service | as `keyboard_engine`, with a layout of two-unit codepoints; `OtherDocs` is the empty text |
| `installed_data` | starts, shutdowns, upgrades, downgrades, two processes at once | two versions, two layouts, a renamed key, a required key and an unknown one; one process leaving at a time while another starts; runs are unbounded (the state space is finite) |
| `designer` | the window's commands, its writes and the files | two files, one key; a file by hand that the validator reports and whose second key does not survive a save; `kMaxHistory` 1 and `MaxEdits` 4 (one OK of the key dialog is four edits, so it already overflows the history); `kMaxRecent` 1 (10 in the code) with two files: the list overflows; `MaxWrites` 2: a write of one file and a write of the same or the other after it, each with its `.bak`; `MaxFaults` 1, since the property speaks of one fault |
| `flush_through`, `live_reload`, `word_boundary`, `round_trip` | disagreements between the code and its documentation | the same constants, smaller where a short trace suffices |

In the typing runs the last edit `op` is left out of the state by a `VIEW`: no action reads it, and
properties use only its primed value. `designer` leaves out `saved` in the same way (no action or
property of that run reads it) and permutes its two files, which nothing tells apart. No other run
uses symmetry: codepoints, layouts and versions have different roles.

## 4. Properties

**Typing** (`KeyboardEngine`). `SyncedWindow`: the window is the tail of the text. `TypingKeepsForeignText`:
a suppressed key never deletes what the composer did not insert. `ModesExclusive`, `ComposeBufferLive`:
compose mode and dead keys exclude each other, and a compose buffer can always still become a
sequence. `IdleWhenDisabled`. `WindowNormalized`: the window is in normal form also after truncation,
Backspace and ligatures. `LigaturesSettled`: no ligature is left at the end of the text by a key that
emits (for chains no longer than the guard of eight rounds).

`WindowNormalized` and `LigaturesSettled` are properties of the sample layouts as much as of the code:
a ligature whose result composes with what precedes it, or a cycle of ligatures, breaks them, and the
validator accepts both. Section 6 proves them from those two conditions. The ligature of
`layouts/old_uyghur.json` meets the first; it replaces two letters by themselves, so it still matches
after the last round, which changes no text.

**Normalisation.** `OrderIsStableSort` and `FullyComposed` are reference definitions of the two halves
of the algorithm. `ShownIsEquivalent`: the canonical decomposition of the screen is that of what was
typed. `IncrementalIsBatch`: normalising a window after every key equals normalising everything once,
provided no letter carries more marks than the window holds (`RunsFitWindow`); beyond that the code
loses the equivalence, which a window of 32 makes rare.

**Text service.** `SyncedWindow` and `TypingKeepsForeignText` again, the second for deletions of every
width: a session that counts codepoints where units are meant deletes too little, of its own text, and
never the user's. And `PendingIsAnswered`: no mode outlives the keys it was meant for. A key is tested by one call and handled by another; with a dead key or a
compose sequence pending, every key that is not a modifier or a shortcut ends the mode, begins one of its
own, or brings the sequence on to another beginning of a sequence of the table. A prediction that
forgets a mode, or a handler that leaves it, breaks it.

**Files.** `AcceptedIsComplete`: a layout is read completely or rejected. `ActivatedIsComposable`: what
the validator passes satisfies `IsLayout`, which the `Composer` assumes of every layout and the proofs
use. `LookupIsScan`, `LongestLigatureWins`, `CapsLockFollowsPolicy`: the queries against reference
definitions. `SavingKeepsTheLayout`: open, then save, then open gives the same layout, up to the order of
ligatures of equal length.

**Document.** `HistoryBounded`, `CleanMeansSaved`, `EditsLeaveNoEmptyKey`, `EditedLayoutsWellFormed`, and
`UndoIsACursor`: the two stacks implement `EditHistory` under the mapping
`line <- undo \o <<layout>> \o Reverse(redo)`, `pos <- Len(undo) + 1`.

**Designer.** `OneFaultLosesNothing` (README.md:363-364, a copy is written first): one failed operation
or kill, in whatever order of saves, exports, restarts and other programs' writes, leaves the last
complete text of every file in place or in its `.bak`. A second fault can lose it, since a `.bak` is
made of a torn file too. `CleanMeansOnDisk`: a title without a star means that the file named there
reads as the document. Excepted are documents the format does not return (a key without action, or
with the `cased` flag of a key it was copied from: `Rereadable`) and a path that was taken without a
complete write (`astray`: Save As that failed or was declined, a torn write, another program). The
case of the `cased` flag is shown by `SavedTextReadsBack` (section 5); of `astray` nothing is checked,
since no document says what the star means then. `PreviewIsCurrent`: what the preview's composer holds was typed with the document's mappings.

**Reload.** `LayoutNeverLost`. `UpToDateIsFresh`: if the watch believes to be up to
date, the layout in use is the one on disk. `SavedEditsArrive` (liveness): what is saved reaches the
keyboard. The last two except the case that a write time was recorded whose text was not read
(`swallowed`), which the code does not prevent (finding `live_reload`).

**Data.** `SettingsSurvive`: a start finds the settings as last put down, and keys of `config.ini` that it
does not know are still there. `StampedMeansMigrated`: no legacy spelling is left behind a version
marker. Both except a rewrite of `config.ini` that was itself interrupted, failed or raced with another,
or a file that could not be read (`mishap`, healed by the next complete save); the first also a start
that loads before the last process has saved. `UserLayoutsKept`: no step of the program, and no copy
that is killed or fails, changes a complete layout file. `StartupIsIdempotent` (AutoMigration.h:8):
after one launch without fault the next ones, killed at any step, change neither `config.ini` nor a layout
file; the history variable `settled` ends with a launch that cannot read `config.ini`, with the installer
and with what the user deletes. A layout torn by an earlier kill stays torn, which is idempotent and is
shown by `NewLayoutsAreSeeded`. `SettingsSurvive` takes what a shutdown saves for what is wanted from then on: what
that save drops, `UnknownKeysKept` shows.

**Fairness** is assumed only in `HotReload`. Weak fairness of the second half of a handler: it is the
same thread and cannot stop. Strong fairness of `CheckLayoutReload`: the timer is periodic, and the
modal loop of the tray menu dispatches timer messages too, so a tick is only delayed by what the user
does. Nothing is assumed of the editor or of the user.

## 5. Disagreements found

| Run | What |
|---|---|
| `flush_through` | `Composer.cpp:161-168` lets an unmapped key through after flushing a dead key but keeps the window; a mark typed next reorders the window and deletes the character that key typed |
| `live_reload` | `Application.cpp:226` records the file time after the layout was read: a save in between is never loaded, against README.md:280 |
| `word_boundary` | `tsf/TextService.cpp:180` never hands Space, Enter, Tab, Backspace to the composer, against Composer.hpp:13 and ARCHITECTURE.md:59 |
| `round_trip` | a key defined by `null` is accepted, written as `{}`, and then rejected, against LayoutSerializer.hpp:3 |

Six more are stated as properties that the code does not keep, each with a configuration that makes TLC
show it in a few seconds (`tlc -config X.cfg M`, with the module of the run it belongs to); they are
not runs of `PROJECT.json`.

| Property, configuration | What |
|---|---|
| `EditsKeepPairs`, `MCEditsKeepPairs.cfg` (`MCTextService`) | `tsf/EditSession.cpp:51` extends the range to delete by codepoints where the framework counts UTF-16 units: half of a letter above U+FFFF stays, against README.md:9 and EditSession.h:5 |
| `FlushedTextArrives`, `MCFlushedTextArrives.cfg` (`MCTextService`) | `tsf/TextService.cpp:193` returns before the edit session when the key is let through, so the standalone form of a dead key before an unmapped key is never inserted, against KeyboardLayout.hpp:56 |
| `UnknownKeysKept`, `MCUnknownKeysKept.cfg` (`MCInstalledData`) | `Config::Save` (`Config.cpp:98-116`) writes the keys it knows, so the keys the migration preserved are gone after the first session, against README.md:247-248 |
| `DefaultsOnlyIfMissing`, `MCDefaultsOnlyIfMissing.cfg` (`MCInstalledData`) | `Config.cpp:70-71` overwrites a `config.ini` that exists and cannot be opened with the defaults, against Config.h:9 |
| `NewLayoutsAreSeeded`, `MCNewLayoutsAreSeeded.cfg` (`MCInstalledData`) | a layout torn by an interrupted copy (`AutoMigration.cpp:81`) has the name that `planLayoutSeed` looks for and is never seeded, against README.md:247-249 |
| `SavedTextReadsBack`, `MCPastedCase.cfg` (`MCDesigner`) | `LayoutDocument.cpp:124` pastes the `cased` flag of the copied key, which the file does not carry: Caps Lock differs after saving and opening, against LayoutSerializer.hpp:3 |

Without a property, because they are visible in one line of the model:

* One OK of the key dialog is four undo steps (`DesignerWindow.cpp:396-400`), where the comment there
  says undo captures the whole change: `DoEditSelectedKey` pushes four snapshots.
* A save is reported before its stream is closed and flushed: `WriteFails(TRUE)` marks the document saved.

Known limits that are documented, or that no document speaks of, and so are no findings: the hook
keeps its window when the caret moves (README.md:109); a version is stamped though its migration failed
(AutoMigration.h:22: failures are skipped, never fatal); Save As keeps a path it did not write; Backspace
in the live preview is not given to its composer.

## 6. Proofs

TLAPS proves the following for all values of the constants that satisfy the modules' assumptions:
for any number of keys, layouts, files, versions, writes and faults. The assumptions are

* `ComposerAssumption`: the layouts typed with satisfy `IsLayout`. This is no restriction:
  `ComposerAssumptionHolds` proves it of every layout the parser and the validator accept, and
  `EditedLayoutsAreWellFormed` of every layout the designer makes from one.
* `NFCAssumption`: the normaliser maps texts to texts. What it computes matters only to
  `WindowStaysNormalized`, whose hypothesis says that it is `toNFC` of `Normalizer`.
* `TypingAssumption`: the window holds at least one codepoint. The codepoints typed are arbitrary.
* `ControlAssumption`, `DesignerAssumption`, `HotReloadAssumption`, `InstalledDataAssumption`,
  `DocumentAssumption`: types of the constants, positive bounds, finitely many files.
* `LayoutFileAssumption`: a key that can be named has a name of its own, and files hold names, values
  of the behaviour section and texts.
* `EditAssumption`: opened layouts and the arguments of edits have the types of the C++ parameters. That
  `NoDead` is a string is among them only because the provers know nothing of string literals.

Along which argument:

* `KeyboardLayoutProofs` and `ComposerProofs` hold the lemmas. `Kept` and `addComposes` are recursive
  functions over the length of a list; the lemmas unfold one step of them (`KeptUnfolds`,
  `AddComposesUnfolds`) and do the induction over that length by hand, as an induction over the numbers
  of which the statement holds. So what the compose indexes hold after a whole list is proved for
  lists of any length. `ComposerProofs` says that `commonPrefix` is a common prefix, that ligatures and
  the window keep texts texts, and, handler by handler, what each does to the window and the modes.
* `KeyboardEngineProofs`. The inductive invariant is `TypeOK /\ ModesInv /\ SyncedWindow /\
  IdleWhenDisabled`. `SyncedWindow` needs the types, because the new window is a tail of the processed
  text only if the common prefix is a prefix of both; `ModesInv` is `ModesExclusive` and
  `ComposeBufferLive` together, inductive only because `IsLayout` closes the set of compose prefixes under
  dropping the last codepoint (the Backspace case). Theorems: `TypeCorrectness`, `Reconciliation`,
  `ModesNeverOverlap`, `ComposeNeverStuck`, `DisabledIsIdle`, and, as an action property from the same
  invariant, `ForeignTextIsKept`. Two theorems have hypotheses about the layouts, which a user's layout
  need not meet and which the module of the run checks of the sample layouts (`SampleLigatures`).
  `WindowStaysNormalized` (`WindowNormalized`), if the result of every ligature is empty or a text in
  normal form that begins with a starter: `NormalizerProofs` is instantiated for its lemmas that a text
  is normal exactly if its parts are and the second begins with no mark, so that the prefix a ligature
  or Backspace keeps and the suffix a full window keeps are normal. `LigaturesAreDone`
  (`LigaturesSettled`), if the codepoints can be ranked from 0 to 8 so that the last of a result ranks
  below the last of its sequence: each round that replaces lowers the rank of the end of the text.
* `TextServiceProofs`. The same properties for the other front end, where text is counted in UTF-16
  units: the invariant adds that the codepoints of the window, encoded one by one, are the tail of the
  units in the document. The lemmas on `Utf16` say that encoding distributes over concatenation, which
  is what makes "the last n codepoints" and "the units of the last n codepoints" the same text; an edit
  session that is refused, finds no selection, does half of its edit or halves a surrogate pair ends
  `synced`. `ForeignTextIsKept` needs less: an edit deletes no more units than codepoints it means, and a
  text has at least as many units as codepoints (`Utf16Long`). Theorems
  `TypeCorrectness`, `WindowIsTail`, `ModesNeverOverlap`, `ComposeNeverStuck`, `ForeignTextIsKept`, and
  `ModesAreAnswered` (`PendingIsAnswered`): a pending mode makes the test eat the key, and each exit of
  `process` then clears the mode, sets the one of its own action, or stays in compose mode with a buffer
  that `ModesInv`, after the step, says is a beginning of a sequence.
* `DesignerProofs`, first the document: `HistoryIsBounded` and `CleanIsSaved` from an inductive
  invariant over the two stacks; `UndoTimeline`, the refinement of `EditHistory`: every mutator is an
  `Edit`, `undo` and `redo` move the cursor, opening cuts the line, the rest stutters.
  `EditedLayoutsAreWellFormed` needs every version in both stacks to be a layout, and the clipboard a
  key (`EditInv`), because undo and paste bring them back; `OnlyFilesBringEmptyKeys` is an action
  property: a step that is not an opening leaves no empty key behind if there was none in the document,
  its history and its clipboard.
* `DesignerProofs`, then the window. `DesignerInv` adds to the three properties what a write has reached:
  before any fault a file holds its last complete text until it is truncated, and from the end of the
  copy on the `.bak` does (`NoFaultYet`); with one fault the file under way is excused until the write
  returns (`OneFault`); and the document's claim on its file also holds during a write, to another file
  or to this one until it is truncated (`CleanInv`), which a failed open needs. Theorems `BackupsCoverOneFault`, `CleanTitleTellsTheTruth`, `PreviewFollowsEdits`, and
  `DesignerTypeCorrectness`, whose recent list without repetition and within its bound follows from
  what a loop that skips one entry keeps.
* `DesignerProofs`, last the files (`LayoutFile`; its behaviour is `FileSpec`). All follow from `WellFormed(text)`: the file's keys have names and its lists are
  lists. `NothingIsDropped`; `ComposerAssumptionHolds`; `IndexesAnswerAsTheList`, from what the indexes
  hold after any list; `LongestIsApplied`, where the first of a list sorted by length is a longest one;
  `CapsLockIsThePolicy`; and `SaveAndOpen`: reading what was written gives back keys, dead keys and
  compose sequences, and ligatures in exactly the orders that were possible before.
* `HotReloadProofs`. `ReloadInv`: write times are those of a clock, the watch is on the file of the
  current id, and a file whose time is the one last read was read (`ReadIsCurrent`). The last part is
  what a step of the application needs to conclude anything from equal times. The registry's queries
  are restated with the list and the files as parameters, so that a lemma can compare them before and
  after a write. Theorems `WatchTellsTheTruth`, `LayoutIsNeverLost`, `TypeCorrectness`. The first entry of
  an id is the least index of a finite scan, hence the finite set of files in `HotReloadAssumption`.
* `InstalledDataProofs`. Three invariants over the types: `MigrationInv` (an unstamped start still
  migrates; behind the marker and after the migration the file has no legacy key), `SurviveInv` (unless
  something went wrong or a process that leaves is writing, what the user wants is in the file, or in
  the memory of the start that rewrites it, and a start that is to overwrite the file has read just
  that) and `SettledInv` (how far a start without fault has come, up to the writing of the defaults,
  and that a settled one is `Normal` and finds nothing to copy or to write). Theorems `InstalledTypes`, `StampIsTrue`,
  `SettingsAreKept`, `StartsAreIdempotent`, `UserLayoutsStay`.

* `NormalizerProofs`. `OrderIsSorted`: for every text `canonicalOrder` is a stable sort of each run of
  marks, as `OrderIsStableSort` defines it by ranks. The three nested loops are recursive functions over
  an interval; that such a function exists is the lemma `RecursionExists`, and each loop has a lemma
  that unfolds it and one that carries its invariant along by `InductionOnInterval`. What a comparison
  keeps is `StableReorderings(s)`: s with its positions permuted so that no mark leaves its run and one
  overtakes only marks of a higher class. A pass brings the greatest class to its end (`Passed`), the
  passes settle a run from behind (`Settled`), the runs are disjoint. In a rearrangement that ascends on
  a run, the marks that belong before a mark are those that are, so counting them gives its rank.

  Then `compose`. A run sorted stably can be sorted in one way only (`OrderedIsUnique`), so all stable
  reorderings of a text have the same canonical order, and ordering an ordered text with one more mark
  is ordering the whole (`OrderOfAppend`). Texts fall into clusters, a starter with its marks, and
  marks before any starter; `InductionOnClusters` is the induction used from here on, and `ComposeOfJoin`,
  `NfcOfJoin`, `DecomposeOfJoin` say that the algorithms work cluster by cluster. Of the table the proofs
  need what `TableFacts` evaluates: the marks that compose with one starter share a class, no composite
  composes further or comes from two pairs. So a cluster takes at most one mark (`Takes`), the first of
  its class, and neither the order of the other marks nor a mark typed later can change which
  (`TakenReorders`, `LongerTaken`). Texts that are ordered and have nothing left to compose (`Normal`) are
  the ones `toNFC` leaves alone, and normalising early changes nothing: `NfcOfAppend`, toNFC of a text
  already normalised with one more codepoint is toNFC of the whole. `DecompositionReorders` and
  `NfcKeepsMeaning` show that decomposing takes back what composing did, up to stable reorderings.

  The inductive invariant of `NormalizedTyping` is `TypingInv`: while no run of marks is longer than the
  window, the screen is `toNFC(raw)`, and nothing has left a window that is not full. The second part is
  what the step needs: if a mark is typed, a full window holds a starter, for otherwise the run of marks
  typed would be too long (`TrailingKept`: marks that end a normal form end the text as marks), and the
  cluster of that starter is all that a mark can change (`WindowIsEnough`); and a window once full stays
  full, because a key never makes a normal text shorter (`NeverShorter`). From it follow, for every
  text, alphabet and window size, `IncrementalNormalizes` (`IncrementalIsBatch`), `NothingLeftToCompose`
  (`FullyComposed`) and `EquivalenceIsKept` (`ShownIsEquivalent`).

Only model-checked:

* `SavedEditsArrive`: liveness under fairness is beyond the prover.
* The disagreements of section 5.

## 7. Not modelled

* The JSON text reader, UTF-8 decoding, the name search and key-cap geometry, the parsers of key names
  and versions: text at character level or drawing, without state. What is accepted and written of a
  layout file is modelled at the level of its nodes.
* Registration and COM plumbing (`tsf/Dll.cpp`, `Register.cpp`, `ClassFactory.cpp`): three calls into the
  registry and the framework whose results are external, undone in reverse order with the undoing's
  results ignored; reference counts are the interlocked counters of COM.
* The tray icon, notifications, painting and layout of windows, the glyph picker, the log.
* The text of the designer's live preview. Its Backspace edits the text and not the composer
  (`DesignerWindow.cpp:696`), so the two may differ until the next edit of the mappings; the keyboard's
  own text is modelled in `KeyboardEngine`.
* Portable mode, in which program and data share a directory.

## 8. Plan

Done, in this order: `KeyboardLayout`, `Composer`, `KeyboardEngine` with its proofs; `Normalizer` and
`NormalizedTyping`; `EditHistory` and `LayoutDocument` with its proofs; `HotReload`; `TextService`;
`InstalledData`; `LayoutFile`; `Designer` with its proofs; the leaving process and the unreadable file in
`InstalledData`; the proofs of `InstalledData` and of `HotReload`; the composer's lemmas in a module of
their own and the proofs of `TextService`; the proofs of `LayoutFile`; layouts under edits in
`DesignerProofs`; the type invariants of `HotReload` and `Designer`; the canonical order of `Normalizer`,
then composition, decomposition and typing by windows; the theorems about normal form and ligatures in
`KeyboardEngineProofs`.

Next:

1. The live preview as a third front end of `Composer`, on `TextControl`.
2. Registration with its rollback, and the DLL's reference count against unloading.
