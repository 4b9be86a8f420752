--------------------------- MODULE InstalledData ---------------------------
(***************************************************************************)
(* What a start of the keyboard does to the user's data directory, and     *)
(* what its end leaves there: InstallerHelper::Startup, InstallationDetec- *)
(* tor, AutoMigration, Migration, VersionManager and Config.               *)
(*                                                                         *)
(* The process can be killed before any step and a file operation can      *)
(* fail.  A file that is rewritten is truncated first, so being killed in  *)
(* between loses its content.  A process that shuts down gives up the      *)
(* single-instance mutex before it saves, so the next one may be starting  *)
(* meanwhile.  Beside the program act its installer, the designer (which   *)
(* writes layout files at any time) and the user.                          *)
(* Settings are key/value pairs; the layouts are told apart by whose text  *)
(* they hold.                                                              *)
(***************************************************************************)
EXTENDS Naturals, FiniteSets

CONSTANTS
  Versions,   \* the versions of the program, ordered as Version::compare does
  Ids,        \* layout ids
  Bundled,    \* [Versions -> SUBSET Ids]: the layouts in the program directory
  Defaults,   \* [required keys -> values]: Migration::defaults
  Values,     \* the values of settings
  OldKey, NewKey,      \* the deprecated key and its replacement (kRenames)
  Unknown,             \* keys no version of this program reads
  SessionKeys,         \* the settings the tray menu changes
  NoFile, NoVersion,   \* no such file; no marker that parses
  Absent, Torn, Shipped, Edited,   \* what a layout file holds
  NotRun

Required == DOMAIN Defaults
Keys     == Required \cup Unknown \cup {OldKey}

ASSUME InstalledDataAssumption ==
  /\ Versions \subseteq Nat /\ NoVersion \notin Versions
  /\ Bundled \in [Versions -> SUBSET Ids]
  /\ Defaults \in [Required -> Values]
  /\ NewKey \in Required /\ OldKey \notin Required \cup Unknown
  /\ Unknown \cap Required = {} /\ SessionKeys \subseteq Required
  /\ NoFile \notin UNION {[K -> Values] : K \in SUBSET Keys}
  /\ Absent \notin {Torn, Shipped, Edited} /\ Torn \notin {Shipped, Edited}

VARIABLES
  installed,   \* the version in the program directory
  dirs,        \* which of "root" and "layouts" exist
  marker,      \* installed_version.txt, as ReadMarker reads it
  config,      \* config.ini: settings, or NoFile
  layouts,     \* [Ids -> what the file of that name in the layouts directory holds]
  pc,          \* where the process that holds the mutex stands
  kind,        \* LaunchKind of the launch
  toCopy,      \* the layouts SeedLayouts has still to copy
  mem,         \* Config's members; before they are loaded, the settings a migration writes
  leaving,     \* Nobody, or a process that has let go of the mutex, with its settings
  wanted,      \* history: the settings as last chosen and put down
  mishap,      \* history: since the last complete save, a rewrite of config.ini failed,
               \* was interrupted or raced with another, or it could not be read
  faulty,      \* history: a step of this launch failed
  settled      \* history: a launch ended without fault, and since then only layout
               \* edits and launches that could read config.ini have come

disk    == <<dirs, marker, config, layouts>>
history == <<wanted, mishap, faulty, settled>>
vars    == <<installed, disk, pc, kind, toCopy, mem, leaving, history>>

Settings == UNION {[K -> Values] : K \in SUBSET Keys}

\* What the user of the settings c wants: the old spelling counts where the new
\* one is missing, and no value is lost.
Chosen(c) ==
  [k \in Required \cup (Unknown \cap DOMAIN c) |->
     CASE k \in DOMAIN c -> c[k]
       [] k = NewKey /\ k \notin DOMAIN c /\ OldKey \in DOMAIN c -> c[OldKey]
       [] OTHER -> Defaults[k]]
Empty    == [k \in {} |-> {}]

\* at: "unsaved", "saving" (config.ini is truncated), or "raced" (it is, and a
\* start has truncated it too).
Leaving(at, c) == [at |-> at, settings |-> c]
Nobody         == Leaving("gone", Empty)

-----------------------------------------------------------------------------
\* What detect and needsMigration make of the facts.
detect ==
  CASE marker = NoVersion -> IF config # NoFile \/ "root" \in dirs THEN "Upgrade" ELSE "FirstInstall"
    [] marker \in Versions /\ marker < installed -> "Upgrade"
    [] marker \in Versions /\ marker > installed -> "Downgrade"
    [] OTHER -> IF config # NoFile /\ "root" \in dirs THEN "Normal" ELSE "Reinstall"

\* Mutant of needsMigration: a routine launch migrates too.
needsMigrationAlways == kind # "Downgrade"

needsMigration == kind \in {"FirstInstall", "Upgrade", "Reinstall"}

\* Mutant of Renamed: the old spelling wins.
RenamedClobbers(c) ==
  IF OldKey \in DOMAIN c
  THEN [k \in (DOMAIN c \cup {NewKey}) \ {OldKey} |-> IF k = NewKey THEN c[OldKey] ELSE c[k]]
  ELSE c

\* The deprecated key gives its value to the new one unless that is set.
Renamed(c) ==
  IF OldKey \in DOMAIN c
  THEN [k \in (DOMAIN c \cup {NewKey}) \ {OldKey} |-> IF k \in DOMAIN c THEN c[k] ELSE c[OldKey]]
  ELSE c

\* migrateConfig: rename, then fill the missing required keys with defaults.
migrateConfig(c) ==
  LET r == Renamed(c)
  IN  [k \in DOMAIN r \cup Required |-> IF k \in DOMAIN r THEN r[k] ELSE Defaults[k]]

\* Mutant of Loaded: a key the file lacks is left without a value.
LoadedOnly(c) == [k \in Required \cap DOMAIN c |-> c[k]]

\* Config::Load of a file: the keys it knows, defaults for the others.
Loaded(c) == [k \in Required |-> IF k \in DOMAIN c THEN c[k] ELSE Defaults[k]]

-----------------------------------------------------------------------------
\* A fresh system, or the data an earlier program left: with the deprecated key
\* only if it wrote no marker.
Init ==
  /\ installed \in Versions
  /\ \/ dirs = {} /\ marker = NoVersion /\ config = NoFile
     \/ /\ dirs = {"root", "layouts"} /\ marker \in Versions \cup {NoVersion}
        /\ config \in Settings
        /\ OldKey \in DOMAIN config => marker = NoVersion
  /\ layouts = [id \in Ids |-> Absent]
  /\ pc = "off" /\ kind = NotRun /\ toCopy = {} /\ mem = Defaults /\ leaving = Nobody
  /\ wanted = IF config = NoFile THEN Defaults ELSE Chosen(config)
  /\ mishap = FALSE /\ faulty = FALSE /\ settled = FALSE

\* Mutant of Launch: the version is stamped before the migration.
LaunchStamps ==
  /\ pc = "off" /\ pc' = "dirs"
  /\ kind' = detect
  /\ marker' = (IF "root" \in dirs THEN installed ELSE marker)
  /\ faulty' = FALSE
  /\ UNCHANGED <<installed, dirs, config, layouts, toCopy, mem, leaving, wanted, mishap, settled>>

\* Startup: gather the facts and classify the launch.
Launch ==
  /\ pc = "off" /\ pc' = "dirs"
  /\ kind' = detect
  /\ faulty' = FALSE
  /\ UNCHANGED <<installed, disk, toCopy, mem, leaving, wanted, mishap, settled>>

\* EnsureDirectories creates what is missing, as far as it can.
EnsureDirectories ==
  /\ pc = "dirs" /\ pc' = "plan"
  /\ dirs' \in {d \in SUBSET {"root", "layouts"} : dirs \subseteq d /\ ("layouts" \in d => "root" \in d)}
  /\ faulty' = (faulty \/ dirs' # {"root", "layouts"})
  /\ UNCHANGED <<installed, marker, config, layouts, kind, toCopy, mem, leaving, wanted, mishap, settled>>

\* planLayoutSeed: the bundled layouts without a file of that name.
PlanSeed ==
  /\ pc = "plan" /\ pc' = "seed"
  /\ toCopy' = {id \in Bundled[installed] : layouts[id] = Absent}
  /\ UNCHANGED <<installed, disk, kind, mem, leaving, history>>

\* Mutant of SeedLayout: the copy overwrites.
SeedLayoutOverwrites(id) ==
  /\ pc = "seed" /\ id \in toCopy /\ "layouts" \in dirs
  /\ layouts' = [layouts EXCEPT ![id] = Torn]
  /\ pc' = "copying"
  /\ UNCHANGED <<installed, dirs, marker, config, kind, toCopy, mem, leaving, history>>

\* copy_file begins: the file is there, its content is not yet.  A file that
\* has appeared since the plan is skipped.
SeedLayout(id) ==
  /\ pc = "seed" /\ id \in toCopy /\ "layouts" \in dirs
  /\ IF layouts[id] = Absent
     THEN layouts' = [layouts EXCEPT ![id] = Torn] /\ pc' = "copying" /\ UNCHANGED toCopy
     ELSE toCopy' = toCopy \ {id} /\ UNCHANGED <<layouts, pc>>
  /\ UNCHANGED <<installed, dirs, marker, config, kind, mem, leaving, history>>

\* ... and ends.  (A file torn by an earlier kill exists, and is never planned.)
SeedLayoutEnd(id) ==
  /\ pc = "copying" /\ id \in toCopy /\ layouts[id] = Torn
  /\ layouts' = [layouts EXCEPT ![id] = Shipped]
  /\ pc' = "seed" /\ toCopy' = toCopy \ {id}
  /\ UNCHANGED <<installed, dirs, marker, config, kind, mem, leaving, history>>

\* A copy fails, at once or half-way (the file may be left torn), and is skipped.
SeedLayoutFails(id) ==
  /\ id \in toCopy /\ <<pc, layouts[id]>> \in {<<"seed", Absent>>, <<"copying", Torn>>}
  /\ layouts' \in {layouts, [layouts EXCEPT ![id] = Absent]}
  /\ pc' = "seed" /\ toCopy' = toCopy \ {id} /\ faulty' = TRUE
  /\ UNCHANGED <<installed, dirs, marker, config, kind, mem, leaving, wanted, mishap, settled>>

\* MigrateConfigFile reads config.ini: there is nothing to do, or its settings
\* are migrated in memory, or it cannot be opened.
MigrateConfigFile ==
  /\ pc = "seed" /\ toCopy = {}
  /\ IF needsMigration /\ config # NoFile /\ migrateConfig(config) # config
     THEN \/ mem' = migrateConfig(config) /\ pc' = "migrating" /\ UNCHANGED <<faulty, mishap>>
          \/ UNCHANGED mem /\ pc' = "stamp" /\ faulty' = TRUE /\ mishap' = TRUE
     ELSE pc' = "stamp" /\ UNCHANGED <<mem, faulty, mishap>>
  /\ UNCHANGED <<installed, disk, kind, toCopy, leaving, wanted, settled>>

\* The process that leaves, once a start has truncated the file it is saving.
Overtaken == IF leaving.at = "saving" THEN [leaving EXCEPT !.at = "raced"] ELSE leaving

\* ... opens it to write, and so truncates it, if it can be opened ...
MigrateConfigFileOpen ==
  /\ pc = "migrating"
  /\ \/ config' = Empty /\ pc' = "rewriting" /\ leaving' = Overtaken /\ UNCHANGED <<faulty, mishap>>
     \/ UNCHANGED <<config, leaving>> /\ pc' = "stamp" /\ faulty' = TRUE /\ mishap' = TRUE
  /\ UNCHANGED <<installed, dirs, marker, layouts, kind, toCopy, mem, wanted, settled>>

\* ... and writes the settings, or the write fails unnoticed.
MigrateConfigFileEnd ==
  /\ pc = "rewriting" /\ pc' = "stamp"
  /\ \/ config' = mem /\ UNCHANGED <<faulty, mishap>>
     \/ UNCHANGED config /\ faulty' = TRUE /\ mishap' = TRUE
  /\ UNCHANGED <<installed, dirs, marker, layouts, kind, toCopy, mem, leaving, wanted, settled>>

\* WriteMarker, whose result is ignored: written, left empty, or not opened.
WriteMarker ==
  /\ pc = "stamp" /\ pc' = "load"
  /\ \/ "root" \in dirs /\ marker' = installed /\ UNCHANGED <<faulty, settled>>
     \/ "root" \in dirs /\ marker' = NoVersion /\ faulty' = TRUE /\ settled' = FALSE
     \/ UNCHANGED marker /\ faulty' = TRUE /\ settled' = FALSE
  /\ UNCHANGED <<installed, dirs, config, layouts, kind, toCopy, mem, leaving, wanted, mishap>>

\* Config::Load: without a file the defaults stay, and are saved at once.
LoadConfig ==
  /\ pc = "load"
  /\ IF config # NoFile
     THEN mem' = Loaded(config) /\ pc' = "running" /\ settled' = (settled \/ ~faulty)
     ELSE mem' = Loaded(Empty) /\ pc' = "defaulting" /\ UNCHANGED settled
  /\ UNCHANGED <<installed, disk, kind, toCopy, leaving, wanted, mishap, faulty>>

\* A file that is there and cannot be opened counts as missing.
LoadUnreadable ==
  /\ pc = "load" /\ config # NoFile
  /\ mem' = Loaded(Empty) /\ pc' = "defaulting"
  /\ mishap' = TRUE /\ faulty' = TRUE /\ settled' = FALSE
  /\ UNCHANGED <<installed, disk, kind, toCopy, leaving, wanted>>

\* The Save of Load: the file is created or truncated, if it can be opened ...
SaveDefaults ==
  /\ pc = "defaulting"
  /\ \/ "root" \in dirs /\ config' = Empty /\ pc' = "writing" /\ leaving' = Overtaken /\ UNCHANGED faulty
     \/ UNCHANGED <<config, leaving>> /\ pc' = "running" /\ faulty' = TRUE
  /\ UNCHANGED <<installed, dirs, marker, layouts, kind, toCopy, mem, wanted, mishap, settled>>

\* ... and written, or not (an empty file reads as the defaults too).
SaveDefaultsEnd ==
  /\ pc = "writing" /\ pc' = "running"
  /\ \/ config' = mem /\ UNCHANGED faulty
     \/ UNCHANGED config /\ faulty' = TRUE
  /\ settled' = (settled \/ ~faulty')
  /\ UNCHANGED <<installed, dirs, marker, layouts, kind, toCopy, mem, leaving, wanted, mishap>>

\* The tray menu: ToggleEnabled and SwitchLayout change the settings in memory.
ChangeSetting(k, v) ==
  /\ pc = "running" /\ mem[k] # v
  /\ mem' = [mem EXCEPT ![k] = v]
  /\ UNCHANGED <<installed, disk, pc, kind, toCopy, leaving, history>>

\* Shutdown gives up the mutex (bound: no second process leaves with the first).
Shutdown ==
  /\ pc = "running" /\ pc' = "off"
  /\ leaving = Nobody /\ leaving' = Leaving("unsaved", mem) /\ mem' = Defaults
  /\ UNCHANGED <<installed, disk, kind, toCopy, history>>

\* It saves: config.ini is truncated, if it can be opened ...
Save ==
  /\ leaving.at = "unsaved"
  /\ \/ /\ "root" \in dirs /\ config' = Empty
        /\ leaving' = [leaving EXCEPT !.at = IF pc \in {"rewriting", "writing"} THEN "raced" ELSE "saving"]
     \/ UNCHANGED config /\ leaving' = Nobody
  /\ UNCHANGED <<installed, dirs, marker, layouts, pc, kind, toCopy, mem, history>>

\* A start is about to overwrite config.ini with what it has read of it.
Overwriting == pc \in {"migrating", "rewriting", "defaulting", "writing"}

\* ... and written with the settings of Config, and no others.
SaveEnd ==
  /\ leaving.at \in {"saving", "raced"} /\ leaving' = Nobody
  /\ wanted' = leaving.settings
  /\ \/ config' = leaving.settings /\ mishap' = (leaving.at = "raced" \/ Overwriting)
     \/ UNCHANGED config /\ mishap' = TRUE
  /\ UNCHANGED <<installed, dirs, marker, layouts, pc, kind, toCopy, mem, faulty, settled>>

\* A process is ended from outside.
Kill ==
  /\ pc # "off" /\ pc' = "off" /\ toCopy' = {} /\ mem' = Defaults
  /\ mishap' = (mishap \/ pc = "rewriting")
  /\ UNCHANGED <<installed, disk, kind, leaving, wanted, faulty, settled>>

KillLeaving ==
  /\ leaving # Nobody /\ leaving' = Nobody
  /\ mishap' = (mishap \/ leaving.at # "unsaved")
  /\ UNCHANGED <<installed, disk, pc, kind, toCopy, mem, wanted, faulty, settled>>

-----------------------------------------------------------------------------
\* The installer, which asks for the program to be closed.
Install(v) ==
  /\ pc = "off" /\ leaving = Nobody /\ v # installed
  /\ installed' = v /\ settled' = FALSE
  /\ UNCHANGED <<disk, pc, kind, toCopy, mem, leaving, wanted, mishap, faulty>>

\* The designer saves a layout file (it does not open one that is being copied).
EditLayout(id) ==
  /\ "layouts" \in dirs /\ ~(pc = "copying" /\ layouts[id] = Torn)
  /\ layouts' = [layouts EXCEPT ![id] = Edited]
  /\ UNCHANGED <<installed, dirs, marker, config, pc, kind, toCopy, mem, leaving, history>>

\* The user deletes a layout file, config.ini, or the whole directory.
DeleteLayout(id) ==
  /\ pc = "off" /\ leaving = Nobody /\ layouts[id] # Absent
  /\ layouts' = [layouts EXCEPT ![id] = Absent] /\ settled' = FALSE
  /\ UNCHANGED <<installed, dirs, marker, config, pc, kind, toCopy, mem, leaving, wanted, mishap, faulty>>

DeleteConfig ==
  /\ pc = "off" /\ leaving = Nobody /\ config # NoFile
  /\ config' = NoFile /\ wanted' = Defaults /\ settled' = FALSE /\ mishap' = FALSE
  /\ UNCHANGED <<installed, dirs, marker, layouts, pc, kind, toCopy, mem, leaving, faulty>>

DeleteData ==
  /\ pc = "off" /\ leaving = Nobody /\ dirs # {}
  /\ dirs' = {} /\ marker' = NoVersion /\ config' = NoFile /\ layouts' = [id \in Ids |-> Absent]
  /\ wanted' = Defaults /\ settled' = FALSE /\ mishap' = FALSE
  /\ UNCHANGED <<installed, pc, kind, toCopy, mem, leaving, faulty>>

Startup ==
  \/ Launch \/ EnsureDirectories \/ PlanSeed
  \/ \E id \in Ids : SeedLayout(id) \/ SeedLayoutEnd(id) \/ SeedLayoutFails(id)
  \/ MigrateConfigFile \/ MigrateConfigFileOpen \/ MigrateConfigFileEnd \/ WriteMarker
  \/ LoadConfig \/ LoadUnreadable \/ SaveDefaults \/ SaveDefaultsEnd

Program ==
  \/ Startup
  \/ \E k \in SessionKeys, v \in Values : ChangeSetting(k, v)
  \/ Shutdown \/ Save \/ SaveEnd \/ Kill \/ KillLeaving

Others ==
  \/ \E v \in Versions : Install(v)
  \/ \E id \in Ids : EditLayout(id) \/ DeleteLayout(id)
  \/ DeleteConfig \/ DeleteData

Next == Program \/ Others

Spec == Init /\ [][Next]_vars

-----------------------------------------------------------------------------
\* The variables keep their types, whatever fails in between.
TypeOK ==
  /\ installed \in Versions /\ dirs \in SUBSET {"root", "layouts"}
  /\ marker \in Versions \cup {NoVersion}
  /\ config \in Settings \cup {NoFile}
  /\ layouts \in [Ids -> {Absent, Torn, Shipped, Edited}]
  /\ pc \in {"off", "dirs", "plan", "seed", "copying", "migrating", "rewriting", "stamp", "load",
             "defaulting", "writing", "running"}
  /\ kind \in {NotRun, "FirstInstall", "Upgrade", "Downgrade", "Reinstall", "Normal"}
  /\ toCopy \in SUBSET Ids
  /\ mem \in Settings /\ (pc \in {"defaulting", "writing", "running"} => DOMAIN mem = Required)
  /\ leaving \in [at : {"unsaved", "saving", "raced"}, settings : [Required -> Values]] \cup {Nobody}
  /\ wanted \in Settings
  /\ {mishap, faulty, settled} \subseteq BOOLEAN

\* A start finds the settings as they were last put down, whatever versions and
\* kills lie in between: a legacy spelling that Config does not read has been
\* converted by then, and what Config does not know is still in the file.
\* Excepted are a rewrite of config.ini that itself went wrong, and a start that
\* overtakes the last process between its mutex and its save.
SettingsSurvive ==
  [][LoadConfig /\ ~mishap /\ leaving = Nobody =>
       /\ \A k \in Required : mem'[k] = wanted[k]
       /\ \A k \in DOMAIN wanted \ Required : k \in DOMAIN config /\ config[k] = wanted[k]]_vars

\* The marker vouches for the migration: once a version is stamped, no legacy
\* spelling is left that a later launch of that version would not look at.
StampedMeansMigrated ==
  marker # NoVersion /\ ~mishap /\ config # NoFile => OldKey \notin DOMAIN config

\* No step of the program touches a layout file that is complete, a user's or one
\* it seeded itself: also when the user saves it while the layouts are being
\* copied, and whatever copy is killed or fails half-way.
UserLayoutsKept ==
  [][\A id \in Ids : layouts[id] \in {Edited, Shipped} /\ Program => layouts'[id] = layouts[id]]_vars

\* AutoMigration.h:8: after a launch without fault every further one, killed or
\* not, leaves config.ini and the layout files as they are, until the user or
\* the installer changes something, or a launch cannot read config.ini.
StartupIsIdempotent ==
  [][settled /\ Startup => UNCHANGED <<config, layouts>>]_vars

-----------------------------------------------------------------------------
(* What the documents promise and the code does not keep.                  *)

\* README.md:247-250: the first launch after an upgrade preserves every value,
\* including keys it does not recognise; so they outlive that launch's session.
UnknownKeysKept ==
  [][SaveEnd /\ config' # config /\ kind = "Upgrade" /\ ~faulty =>
       \A k \in Unknown \cap DOMAIN wanted : k \in DOMAIN config']_vars

\* Config.h:9: Load creates the defaults if the file is missing, and only then,
\* however the file could be opened, as long as nobody else writes it.
DefaultsOnlyIfMissing ==
  [][SaveDefaults /\ config' # config /\ leaving = Nobody => config = NoFile]_vars

\* README.md:249-250: when a launch without fault stamps its version, the new
\* bundled layouts have been seeded, whatever launches came before.
NewLayoutsAreSeeded ==
  [][WriteMarker /\ ~faulty' => \A id \in Bundled[installed] : layouts[id] # Torn]_vars
=============================================================================
