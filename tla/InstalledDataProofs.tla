------------------------ MODULE InstalledDataProofs ------------------------
(***************************************************************************)
(* What a start of the keyboard keeps of the user's data, for every set of *)
(* versions, layouts and settings, every default and every rename.         *)
(***************************************************************************)
EXTENDS InstalledData, TLAPS

-----------------------------------------------------------------------------
(* Settings.                                                               *)

LEMMA IntoSettings ==
  ASSUME NEW K \in SUBSET Keys, NEW c \in [K -> Values]
  PROVE  c \in Settings
BY DEF Settings

LEMMA SettingsAre ==
  ASSUME NEW c \in Settings
  PROVE  DOMAIN c \in SUBSET Keys /\ c \in [DOMAIN c -> Values]
BY DEF Settings

LEMMA DefaultsAre == Defaults \in [Required -> Values] /\ Defaults \in Settings
<1>1. Defaults \in [Required -> Values]
  BY InstalledDataAssumption
<1>2. Required \in SUBSET Keys
  BY DEF Keys
<1> QED BY <1>1, <1>2, IntoSettings

LEMMA EmptyIs == Empty \in Settings /\ DOMAIN Empty = {}
<1>1. Empty \in [{} -> Values] /\ DOMAIN Empty = {}
  BY DEF Empty
<1> QED BY <1>1, IntoSettings

LEMMA NoFileIsNone == NoFile \notin Settings
BY InstalledDataAssumption DEF Settings

LEMMA LoadedIs ==
  ASSUME NEW c \in Settings
  PROVE  Loaded(c) \in [Required -> Values]
BY SettingsAre, DefaultsAre DEF Loaded

LEMMA RequiredAreSettings ==
  ASSUME NEW c \in [Required -> Values]
  PROVE  c \in Settings /\ DOMAIN c = Required
<1>1. Required \in SUBSET Keys
  BY DEF Keys
<1> QED BY <1>1, IntoSettings

LEMMA LoadedEmpty == Loaded(Empty) = Defaults
BY EmptyIs, DefaultsAre DEF Loaded

LEMMA MigratedIs ==
  ASSUME NEW c \in Settings
  PROVE  migrateConfig(c) \in Settings /\ OldKey \notin DOMAIN migrateConfig(c)
<1> DEFINE r == Renamed(c)
<1>1. OldKey \notin DOMAIN r /\ DOMAIN r \subseteq Keys /\ r \in [DOMAIN r -> Values]
  BY SettingsAre, InstalledDataAssumption DEF Renamed, Keys
<1>2. migrateConfig(c) \in [DOMAIN r \cup Required -> Values]
  BY <1>1, DefaultsAre DEF migrateConfig
<1>3. DOMAIN r \cup Required \in SUBSET Keys /\ OldKey \notin DOMAIN r \cup Required
  BY <1>1, InstalledDataAssumption DEF Keys
<1>4. DOMAIN migrateConfig(c) = DOMAIN r \cup Required
  BY DEF migrateConfig
<1> QED BY <1>2, <1>3, <1>4, IntoSettings

-----------------------------------------------------------------------------
(* Types.                                                                  *)

LEMMA LeavingIs ==
  ASSUME NEW c \in [Required -> Values]
  PROVE  /\ Leaving("unsaved", c) \in [at : {"unsaved", "saving", "raced"}, settings : [Required -> Values]]
         /\ Leaving("unsaved", c).at = "unsaved"
BY DEF Leaving

LEMMA NobodyIs == Nobody.at = "gone" /\ Nobody.settings = Empty
BY DEF Nobody, Leaving

\* A start that truncates the file leaves the other process what it has to save.
LEMMA OvertakenIs ==
  ASSUME leaving \in [at : {"unsaved", "saving", "raced"}, settings : [Required -> Values]] \cup {Nobody}
  PROVE  /\ Overtaken \in [at : {"unsaved", "saving", "raced"}, settings : [Required -> Values]] \cup {Nobody}
         /\ Overtaken.at = IF leaving.at = "saving" THEN "raced" ELSE leaving.at
         /\ Overtaken = Nobody <=> leaving = Nobody
<1>1. CASE leaving.at = "saving"
  <2>1. leaving \in [at : {"unsaved", "saving", "raced"}, settings : [Required -> Values]]
    BY <1>1, NobodyIs
  <2>2. /\ Overtaken \in [at : {"unsaved", "saving", "raced"}, settings : [Required -> Values]]
        /\ Overtaken.at = "raced"
    BY <1>1, <2>1 DEF Overtaken
  <2> QED BY <1>1, <2>2, NobodyIs
<1>2. CASE leaving.at # "saving"
  BY <1>2 DEF Overtaken
<1> QED BY <1>1, <1>2

LEMMA InitTypes == Init => TypeOK
<1> SUFFICES ASSUME Init PROVE TypeOK
  OBVIOUS
<1>1. wanted \in Settings
  <2>1. CASE config = NoFile
    BY <2>1, DefaultsAre DEF Init
  <2>2. CASE config # NoFile
    <3>1. config \in Settings
      BY <2>2 DEF Init
    <3> DEFINE K == Required \cup (Unknown \cap DOMAIN config)
    <3>2. K \in SUBSET Keys
      BY DEF Keys
    <3>3. Chosen(config) \in [K -> Values]
      BY <3>1, SettingsAre, DefaultsAre DEF Chosen
    <3> QED BY <2>2, <3>2, <3>3, IntoSettings DEF Init
  <2> QED BY <2>1, <2>2
<1>2. mem \in Settings /\ pc = "off" /\ leaving = Nobody
  BY DefaultsAre DEF Init
<1> QED BY <1>1, <1>2 DEF Init, TypeOK

LEMMA StepTypes == TypeOK /\ [Next]_vars => TypeOK'
<1> SUFFICES ASSUME TypeOK, [Next]_vars PROVE TypeOK'
  OBVIOUS
<1> USE DEF disk, history
<1>1. CASE Launch
  <2>1. detect \in {"FirstInstall", "Upgrade", "Downgrade", "Reinstall", "Normal"}
    BY DEF detect
  <2> QED BY <1>1, <2>1 DEF Launch, TypeOK
<1>2. CASE EnsureDirectories
  BY <1>2 DEF EnsureDirectories, TypeOK
<1>3. CASE PlanSeed
  BY <1>3, InstalledDataAssumption DEF PlanSeed, TypeOK
<1>4. ASSUME NEW id \in Ids, SeedLayout(id) PROVE TypeOK'
  BY <1>4 DEF SeedLayout, TypeOK
<1>5. ASSUME NEW id \in Ids, SeedLayoutEnd(id) PROVE TypeOK'
  BY <1>5 DEF SeedLayoutEnd, TypeOK
<1>6. ASSUME NEW id \in Ids, SeedLayoutFails(id) PROVE TypeOK'
  BY <1>6 DEF SeedLayoutFails, TypeOK
<1>7. CASE MigrateConfigFile
  <2>1. config # NoFile => migrateConfig(config) \in Settings
    BY MigratedIs DEF TypeOK
  <2>2. mem' \in Settings
    BY <1>7, <2>1 DEF MigrateConfigFile, TypeOK
  <2>3. pc' \in {"stamp", "migrating"} /\ mishap' \in BOOLEAN /\ faulty' \in BOOLEAN
    BY <1>7 DEF MigrateConfigFile, TypeOK
  <2> QED BY <1>7, <2>2, <2>3 DEF MigrateConfigFile, TypeOK
<1>8. CASE MigrateConfigFileOpen \/ MigrateConfigFileEnd
  <2>1. CASE MigrateConfigFileOpen
    <3>1. config' \in Settings \cup {NoFile} /\ leaving' \in {leaving, Overtaken}
      BY <2>1, EmptyIs DEF MigrateConfigFileOpen, TypeOK
    <3> QED BY <2>1, <3>1, OvertakenIs DEF MigrateConfigFileOpen, TypeOK
  <2>2. CASE MigrateConfigFileEnd
    BY <2>2 DEF MigrateConfigFileEnd, TypeOK
  <2> QED BY <1>8, <2>1, <2>2
<1>9. CASE WriteMarker
  BY <1>9 DEF WriteMarker, TypeOK
<1>10. CASE LoadConfig \/ LoadUnreadable
  <2>1. mem' \in [Required -> Values]
    BY <1>10, LoadedIs, EmptyIs DEF LoadConfig, LoadUnreadable, TypeOK
  <2>2. mem' \in Settings /\ DOMAIN mem' = Required
    BY <2>1, RequiredAreSettings
  <2>3. pc' \in {"running", "defaulting"} /\ {mishap', faulty', settled'} \subseteq BOOLEAN
    BY <1>10 DEF LoadConfig, LoadUnreadable, TypeOK
  <2> QED BY <1>10, <2>2, <2>3 DEF LoadConfig, LoadUnreadable, TypeOK
<1>11. CASE SaveDefaults \/ SaveDefaultsEnd
  <2>1. CASE SaveDefaults
    <3>1. config' \in Settings \cup {NoFile} /\ leaving' \in {leaving, Overtaken}
      BY <2>1, EmptyIs DEF SaveDefaults, TypeOK
    <3> QED BY <2>1, <3>1, OvertakenIs DEF SaveDefaults, TypeOK
  <2>2. CASE SaveDefaultsEnd
    BY <2>2 DEF SaveDefaultsEnd, TypeOK
  <2> QED BY <1>11, <2>1, <2>2
<1>12. ASSUME NEW k \in SessionKeys, NEW v \in Values, ChangeSetting(k, v) PROVE TypeOK'
  <2>1. mem \in [Required -> Values]
    BY <1>12, SettingsAre DEF ChangeSetting, TypeOK
  <2>2. mem' \in [Required -> Values]
    BY <1>12, <2>1 DEF ChangeSetting
  <2>3. mem' \in Settings /\ DOMAIN mem' = Required
    BY <2>2, RequiredAreSettings
  <2> QED BY <1>12, <2>3 DEF ChangeSetting, TypeOK
<1>13. CASE Shutdown
  <2>1. mem \in [Required -> Values]
    BY <1>13, SettingsAre DEF Shutdown, TypeOK
  <2>2. leaving' \in [at : {"unsaved", "saving", "raced"}, settings : [Required -> Values]]
    BY <1>13, <2>1, LeavingIs DEF Shutdown
  <2> QED BY <1>13, <2>2, DefaultsAre DEF Shutdown, TypeOK
<1>14. CASE Save
  BY <1>14, EmptyIs, NobodyIs DEF Save, TypeOK
<1>15. CASE SaveEnd
  <2>1. leaving.settings \in [Required -> Values]
    BY <1>15, NobodyIs DEF SaveEnd, TypeOK
  <2> QED BY <1>15, <2>1, RequiredAreSettings DEF SaveEnd, TypeOK
<1>16. CASE Kill
  BY <1>16, DefaultsAre DEF Kill, TypeOK
<1>17. CASE KillLeaving
  BY <1>17 DEF KillLeaving, TypeOK
<1>18. ASSUME NEW v \in Versions, Install(v) PROVE TypeOK'
  BY <1>18 DEF Install, TypeOK
<1>19. ASSUME NEW id \in Ids, EditLayout(id) \/ DeleteLayout(id) PROVE TypeOK'
  BY <1>19 DEF EditLayout, DeleteLayout, TypeOK
<1>20. CASE DeleteConfig \/ DeleteData
  BY <1>20, DefaultsAre DEF DeleteConfig, DeleteData, TypeOK
<1>21. CASE UNCHANGED vars
  BY <1>21 DEF vars, TypeOK
<1> QED
  BY <1>1, <1>2, <1>3, <1>4, <1>5, <1>6, <1>7, <1>8, <1>9, <1>10, <1>11, <1>12, <1>13, <1>14,
     <1>15, <1>16, <1>17, <1>18, <1>19, <1>20, <1>21
     DEF Next, Program, Startup, Others

\* Types: whatever fails in between, config.ini holds settings and Config has
\* a value for every key it knows.
THEOREM InstalledTypes == Spec => []TypeOK
BY InitTypes, StepTypes, PTL DEF Spec

-----------------------------------------------------------------------------
(* The marker vouches for the migration.                                   *)

Clean(c) == OldKey \notin DOMAIN c

\* A start that finds no version will migrate; what it then leaves for the
\* stamp is clean, and so is what a stamped version vouches for.
MigrationInv ==
  /\ pc \in {"dirs", "plan", "seed", "copying"} /\ marker = NoVersion => needsMigration
  /\ ~mishap /\ config # NoFile /\ (marker # NoVersion \/ pc \in {"stamp", "load"}) => Clean(config)
  /\ pc \in {"migrating", "rewriting"} => Clean(mem)

LEMMA RequiredIsClean ==
  ASSUME NEW c \in [Required -> Values]
  PROVE  Clean(c)
BY InstalledDataAssumption DEF Clean

LEMMA NoOldKeys == Clean(Defaults) /\ Clean(Empty)
BY DefaultsAre, RequiredIsClean, EmptyIs DEF Clean

LEMMA InitMigration == Init => MigrationInv
BY DEF Init, MigrationInv, Clean, Settings

LEMMA StepMigration == TypeOK /\ MigrationInv /\ [Next]_vars => MigrationInv'
<1> SUFFICES ASSUME TypeOK, MigrationInv, [Next]_vars PROVE MigrationInv'
  OBVIOUS
<1> USE DEF disk, history
<1>1. CASE Launch
  <2>1. marker = NoVersion => detect \in {"FirstInstall", "Upgrade"}
    BY InstalledDataAssumption DEF detect
  <2> QED BY <1>1, <2>1 DEF Launch, MigrationInv, needsMigration
<1>2. CASE EnsureDirectories \/ PlanSeed
  BY <1>2 DEF EnsureDirectories, PlanSeed, MigrationInv, needsMigration
<1>3. ASSUME NEW id \in Ids, SeedLayout(id) \/ SeedLayoutEnd(id) \/ SeedLayoutFails(id)
      PROVE MigrationInv'
  BY <1>3 DEF SeedLayout, SeedLayoutEnd, SeedLayoutFails, MigrationInv, needsMigration
<1>4. CASE MigrateConfigFile
  <2>1. CASE needsMigration /\ config # NoFile /\ migrateConfig(config) # config
    <3>1. Clean(migrateConfig(config))
      BY <2>1, MigratedIs DEF TypeOK, Clean
    <3> QED BY <1>4, <2>1, <3>1 DEF MigrateConfigFile, MigrationInv
  <2>2. CASE ~(needsMigration /\ config # NoFile /\ migrateConfig(config) # config)
    <3>1. pc' = "stamp" /\ UNCHANGED <<config, mem, mishap, marker>>
      BY <1>4, <2>2 DEF MigrateConfigFile
    <3>2. needsMigration /\ config # NoFile => Clean(config)
      BY <2>2, MigratedIs DEF TypeOK, Clean
    <3>3. ~needsMigration => marker # NoVersion
      BY <1>4 DEF MigrateConfigFile, MigrationInv
    <3> QED BY <3>1, <3>2, <3>3 DEF MigrationInv
  <2> QED BY <2>1, <2>2
<1>5. CASE MigrateConfigFileOpen \/ MigrateConfigFileEnd
  BY <1>5, NoOldKeys DEF MigrateConfigFileOpen, MigrateConfigFileEnd, MigrationInv
<1>6. CASE WriteMarker
  BY <1>6 DEF WriteMarker, MigrationInv
<1>7. CASE LoadConfig \/ LoadUnreadable \/ SaveDefaults
  BY <1>7, NoOldKeys DEF LoadConfig, LoadUnreadable, SaveDefaults, MigrationInv
<1>16. CASE SaveDefaultsEnd
  <2>1. mem \in [Required -> Values]
    BY <1>16, SettingsAre DEF SaveDefaultsEnd, TypeOK
  <2>2. Clean(mem)
    BY <2>1, RequiredIsClean
  <2> QED BY <1>16, <2>2 DEF SaveDefaultsEnd, MigrationInv
<1>8. ASSUME NEW k \in SessionKeys, NEW v \in Values, ChangeSetting(k, v) PROVE MigrationInv'
  BY <1>8 DEF ChangeSetting, MigrationInv
<1>9. CASE Shutdown \/ Kill \/ KillLeaving
  BY <1>9 DEF Shutdown, Kill, KillLeaving, MigrationInv, needsMigration
<1>10. CASE Save
  BY <1>10, NoOldKeys DEF Save, MigrationInv, needsMigration
<1>11. CASE SaveEnd
  <2>1. Clean(leaving.settings)
    BY <1>11, NobodyIs, RequiredIsClean DEF SaveEnd, TypeOK
  <2> QED BY <1>11, <2>1 DEF SaveEnd, MigrationInv, needsMigration
<1>12. ASSUME NEW v \in Versions, Install(v) PROVE MigrationInv'
  BY <1>12 DEF Install, MigrationInv
<1>13. ASSUME NEW id \in Ids, EditLayout(id) \/ DeleteLayout(id) PROVE MigrationInv'
  BY <1>13 DEF EditLayout, DeleteLayout, MigrationInv, needsMigration
<1>14. CASE DeleteConfig \/ DeleteData
  BY <1>14 DEF DeleteConfig, DeleteData, MigrationInv
<1>15. CASE UNCHANGED vars
  BY <1>15 DEF vars, MigrationInv, needsMigration
<1> QED
  BY <1>1, <1>2, <1>3, <1>4, <1>5, <1>6, <1>7, <1>8, <1>9, <1>10, <1>11, <1>12, <1>13, <1>14, <1>15, <1>16
     DEF Next, Program, Startup, Others

\* Whatever the order of versions, kills and failures, a version that is
\* stamped has no legacy spelling left before it, unless the rewrite of
\* config.ini itself went wrong.
THEOREM StampIsTrue == Spec => []StampedMeansMigrated
<1>1. MigrationInv => StampedMeansMigrated
  BY DEF MigrationInv, StampedMeansMigrated, Clean
<1> QED BY <1>1, InitTypes, StepTypes, InitMigration, StepMigration, PTL DEF Spec

-----------------------------------------------------------------------------
(* Settings survive.                                                       *)

\* What the settings c give for the key k, old spelling included.
Reads(c, k) ==
  IF k \in DOMAIN c THEN c[k]
  ELSE IF k = NewKey /\ OldKey \in DOMAIN c THEN c[OldKey] ELSE Defaults[k]

\* c says what is wanted.
Means(c) ==
  /\ \A k \in Required : Reads(c, k) = wanted[k]
  /\ \A k \in DOMAIN wanted \ Required : k \in Unknown \cap DOMAIN c /\ c[k] = wanted[k]

Text == IF config = NoFile THEN Empty ELSE config

\* Nobody has truncated the file and still to write what is wanted.
Quiet == ~mishap /\ leaving.at \notin {"saving", "raced"}

\* Unless something went wrong, what is wanted is in the file, or in the
\* memory of the start that rewrites it, or about to be written by the process
\* that leaves; and a start that is to overwrite the file has read it.
SurviveInv ==
  Quiet =>
    /\ pc \in {"migrating", "rewriting"} => Means(mem)
    /\ pc \in {"defaulting", "writing"} => Means(Empty) /\ mem = Defaults
    /\ pc # "rewriting" => Means(Text)

LEMMA MigrationKeeps ==
  ASSUME NEW c \in Settings, Means(c)
  PROVE  Means(migrateConfig(c))
<1> DEFINE m == migrateConfig(c)
           r == Renamed(c)
<1>1. NewKey \in Required /\ OldKey \notin Required /\ OldKey \notin Unknown /\ Unknown \cap Required = {}
  BY InstalledDataAssumption
<1>2. DOMAIN m = DOMAIN r \cup Required
      /\ \A k \in DOMAIN m : m[k] = IF k \in DOMAIN r THEN r[k] ELSE Defaults[k]
  BY DEF migrateConfig
<1>3. \A k \in Required : Reads(m, k) = Reads(c, k)
  BY <1>1, <1>2 DEF Reads, Renamed
<1>4. ASSUME NEW k \in Unknown \cap DOMAIN c
      PROVE  k \in DOMAIN m /\ m[k] = c[k]
  BY <1>1, <1>2 DEF Renamed
<1>5. \A k \in Required : Reads(m, k) = wanted[k]
  BY <1>3 DEF Means
<1>6. ASSUME NEW k \in DOMAIN wanted \ Required
      PROVE  k \in Unknown \cap DOMAIN m /\ m[k] = wanted[k]
  <2>1. k \in Unknown \cap DOMAIN c /\ c[k] = wanted[k]
    BY DEF Means
  <2> QED BY <2>1, <1>4
<1> QED BY <1>5, <1>6 DEF Means

LEMMA DefaultsMean == (wanted = Defaults => Means(Empty)) /\ (Means(Empty) => Means(Defaults))
<1>1. DOMAIN Defaults = Required /\ DOMAIN Empty = {} /\ OldKey \notin Required
  BY DefaultsAre, EmptyIs, InstalledDataAssumption
<1> QED BY <1>1 DEF Means, Reads

LEMMA InitSurvive == Init => SurviveInv
<1> SUFFICES ASSUME Init PROVE Means(Text)
  BY NobodyIs DEF Init, SurviveInv, Quiet
<1>1. CASE config = NoFile
  BY <1>1, DefaultsMean DEF Init, Text
<1>2. CASE config # NoFile
  <2>1. wanted = Chosen(config)
    BY <1>2 DEF Init
  <2>2. \A k \in Required : Chosen(config)[k] = Reads(config, k)
    BY InstalledDataAssumption DEF Chosen, Reads
  <2>3. DOMAIN Chosen(config) = Required \cup (Unknown \cap DOMAIN config)
    BY DEF Chosen
  <2>4. \A k \in Unknown \cap DOMAIN config : Chosen(config)[k] = config[k]
    BY DEF Chosen
  <2> QED BY <1>2, <2>1, <2>2, <2>3, <2>4 DEF Means, Text
<1> QED BY <1>1, <1>2

\* Steps of a start that leave the settings and those who hold them alone.
LEMMA SettingsAlone ==
  ASSUME SurviveInv, UNCHANGED <<config, wanted, mishap, leaving>>, pc # "rewriting",
         pc' \notin {"migrating", "rewriting", "defaulting", "writing"}
  PROVE  SurviveInv'
<1>1. Text' = Text /\ (Means(Text) => Means(Text)')
  BY DEF Text, Means, Reads
<1> QED BY <1>1 DEF SurviveInv, Quiet

\* ... and steps that leave the start alone too.
LEMMA StartAlone ==
  ASSUME SurviveInv, UNCHANGED <<config, wanted, pc, mem>>, Quiet' => Quiet
  PROVE  SurviveInv'
<1>1. /\ Means(Text) => Means(Text)'
      /\ Means(mem) => Means(mem)'
      /\ Means(Empty) => Means(Empty)'
  BY DEF Text, Means, Reads
<1> QED BY <1>1 DEF SurviveInv

LEMMA StepSurvive == TypeOK /\ SurviveInv /\ [Next]_vars => SurviveInv'
<1> SUFFICES ASSUME TypeOK, SurviveInv, [Next]_vars PROVE SurviveInv'
  OBVIOUS
<1> USE DEF disk, history
<1>1. CASE Launch \/ EnsureDirectories \/ PlanSeed \/ WriteMarker
  BY <1>1, SettingsAlone DEF Launch, EnsureDirectories, PlanSeed, WriteMarker
<1>3. ASSUME NEW id \in Ids, SeedLayout(id) \/ SeedLayoutEnd(id) \/ SeedLayoutFails(id)
      PROVE SurviveInv'
  BY <1>3, SettingsAlone DEF SeedLayout, SeedLayoutEnd, SeedLayoutFails
<1>4. CASE MigrateConfigFile
  <2>1. CASE pc' = "migrating"
    <3>1. /\ config # NoFile /\ mem' = migrateConfig(config) /\ pc = "seed"
          /\ UNCHANGED <<leaving, wanted, config, mishap>>
      BY <1>4, <2>1 DEF MigrateConfigFile
    <3>2. Quiet' => Means(config)
      BY <3>1 DEF SurviveInv, Quiet, Text
    <3>3. Quiet' => Means(mem')
      BY <3>1, <3>2, MigrationKeeps DEF TypeOK
    <3>4. Quiet' => Means(mem)' /\ Means(Text)'
      BY <3>1, <3>2, <3>3 DEF Means, Reads, Text
    <3> QED BY <2>1, <3>4 DEF SurviveInv
  <2>2. CASE pc' # "migrating" /\ mishap'
    BY <2>2 DEF SurviveInv, Quiet
  <2>3. CASE pc' # "migrating" /\ ~mishap'
    BY <1>4, <2>3, SettingsAlone DEF MigrateConfigFile
  <2> QED BY <2>1, <2>2, <2>3
<1>5. CASE MigrateConfigFileOpen
  <2>1. CASE mishap'
    BY <2>1 DEF SurviveInv, Quiet
  <2>2. CASE ~mishap'
    <3>1. /\ pc = "migrating" /\ pc' = "rewriting" /\ leaving' = Overtaken
          /\ UNCHANGED <<mem, wanted, mishap>>
      BY <1>5, <2>2 DEF MigrateConfigFileOpen
    <3>2. Quiet' => Means(mem)
      BY <3>1, OvertakenIs DEF SurviveInv, Quiet, TypeOK
    <3>3. Quiet' => Means(mem)'
      BY <3>1, <3>2 DEF Means, Reads
    <3> QED BY <3>1, <3>3 DEF SurviveInv
  <2> QED BY <2>1, <2>2
<1>18. CASE MigrateConfigFileEnd
  <2>1. CASE mishap'
    BY <2>1 DEF SurviveInv, Quiet
  <2>2. CASE ~mishap'
    <3>1. config' = mem /\ ~mishap /\ pc = "rewriting" /\ pc' = "stamp" /\ UNCHANGED <<wanted, leaving>>
      BY <1>18, <2>2 DEF MigrateConfigFileEnd, TypeOK
    <3>2. Text' = mem /\ (Quiet' => Means(mem))
      BY <3>1, NoFileIsNone DEF SurviveInv, Quiet, Text, TypeOK
    <3>3. Quiet' => Means(Text)'
      BY <3>1, <3>2 DEF Means, Reads
    <3> QED BY <3>1, <3>3 DEF SurviveInv
  <2> QED BY <2>1, <2>2
<1>6. CASE LoadConfig
  <2>1. CASE config # NoFile
    BY <1>6, <2>1, SettingsAlone DEF LoadConfig
  <2>2. CASE config = NoFile
    <3>1. /\ mem' = Loaded(Empty) /\ pc = "load" /\ pc' = "defaulting"
          /\ UNCHANGED <<wanted, mishap, leaving, config>>
      BY <1>6, <2>2 DEF LoadConfig
    <3>2. Quiet' => Means(Empty) /\ Means(Text)
      BY <2>2, <3>1 DEF SurviveInv, Quiet, Text
    <3>3. Quiet' => Means(Empty)' /\ Means(Text)'
      BY <3>1, <3>2 DEF Means, Reads, Text
    <3> QED BY <3>1, <3>3, LoadedEmpty DEF SurviveInv
  <2> QED BY <2>1, <2>2
<1>7. CASE LoadUnreadable
  BY <1>7 DEF LoadUnreadable, SurviveInv, Quiet
<1>19. CASE SaveDefaults
  <2>1. /\ pc = "defaulting" /\ pc' \in {"writing", "running"} /\ UNCHANGED <<mem, wanted, mishap>>
        /\ \/ config' = Empty /\ leaving' = Overtaken
           \/ UNCHANGED <<config, leaving>>
    BY <1>19 DEF SaveDefaults
  <2>2. Quiet' => Quiet
    BY <2>1, OvertakenIs DEF Quiet, TypeOK
  <2>3. Quiet' => Means(Empty) /\ Means(Text) /\ mem = Defaults
    BY <2>1, <2>2 DEF SurviveInv
  <2>4. Text' \in {Empty, Text}
    BY <2>1 DEF Text
  <2>5. Quiet' => Means(Empty)' /\ Means(Text)' /\ mem' = Defaults
    BY <2>1, <2>3, <2>4 DEF Means, Reads
  <2> QED BY <2>1, <2>5 DEF SurviveInv
<1>20. CASE SaveDefaultsEnd
  <2>1. /\ pc = "writing" /\ pc' = "running" /\ UNCHANGED <<wanted, mishap, leaving>>
        /\ config' \in {mem, config}
    BY <1>20 DEF SaveDefaultsEnd
  <2>2. Quiet' => Means(Empty) /\ Means(Text) /\ mem = Defaults
    BY <2>1 DEF SurviveInv, Quiet
  <2>3. Quiet' => Text' \in {Defaults, Text}
    BY <2>1, <2>2, DefaultsAre, NoFileIsNone DEF Text
  <2>4. Quiet' => Means(Text)'
    BY <2>1, <2>2, <2>3, DefaultsMean DEF Means, Reads
  <2> QED BY <2>1, <2>4 DEF SurviveInv
<1>8. ASSUME NEW k \in SessionKeys, NEW v \in Values, ChangeSetting(k, v) PROVE SurviveInv'
  BY <1>8, SettingsAlone DEF ChangeSetting
<1>9. CASE Shutdown
  <2>1. /\ leaving = Nobody /\ pc = "running" /\ pc' = "off" /\ UNCHANGED <<config, wanted, mishap>>
    BY <1>9 DEF Shutdown
  <2>2. Means(Text) => Means(Text)'
    BY <2>1 DEF Means, Reads, Text
  <2> QED BY <2>1, <2>2, NobodyIs DEF SurviveInv, Quiet
<1>10. CASE Save
  <2>1. leaving.at = "unsaved" /\ UNCHANGED <<pc, mem, wanted, mishap>>
    BY <1>10 DEF Save
  <2>2. CASE leaving' = Nobody /\ UNCHANGED config
    BY <2>1, <2>2, StartAlone DEF Quiet
  <2>3. CASE ~(leaving' = Nobody /\ UNCHANGED config)
    <3>1. leaving.at = "unsaved" /\ leaving \in [at : {"unsaved", "saving", "raced"}, settings : [Required -> Values]]
      BY <2>1, NobodyIs DEF TypeOK
    <3>2. leaving'.at \in {"saving", "raced"}
      BY <1>10, <2>3, <3>1 DEF Save
    <3> QED BY <3>2 DEF SurviveInv, Quiet
  <2> QED BY <2>2, <2>3
<1>11. CASE SaveEnd
  <2>1. /\ leaving' = Nobody /\ wanted' = leaving.settings /\ pc' = pc
        /\ mishap' \/ (config' = leaving.settings /\ ~Overwriting)
    BY <1>11 DEF SaveEnd, TypeOK
  <2>2. leaving.settings \in [Required -> Values]
    BY <1>11, NobodyIs DEF SaveEnd, TypeOK
  <2>3. ASSUME ~mishap' PROVE Means(Text)'
    <3>1. Text' = wanted' /\ DOMAIN wanted' = Required
      BY <2>1, <2>2, <2>3, RequiredAreSettings, NoFileIsNone DEF Text
    <3> QED BY <3>1 DEF Means, Reads
  <2> QED BY <2>1, <2>3 DEF SurviveInv, Quiet, Overwriting
<1>12. CASE Kill
  <2>1. CASE pc = "rewriting"
    BY <1>12, <2>1 DEF Kill, SurviveInv, Quiet
  <2>2. CASE pc # "rewriting"
    BY <1>12, <2>2, SettingsAlone DEF Kill, TypeOK
  <2> QED BY <2>1, <2>2
<1>13. CASE KillLeaving
  <2>1. UNCHANGED <<config, wanted, pc, mem>> /\ (Quiet' => Quiet)
    BY <1>13 DEF KillLeaving, Quiet
  <2> QED BY <2>1, StartAlone
<1>14. ASSUME NEW v \in Versions, Install(v) PROVE SurviveInv'
  BY <1>14, SettingsAlone DEF Install
<1>15. ASSUME NEW id \in Ids, EditLayout(id) \/ DeleteLayout(id) PROVE SurviveInv'
  BY <1>15, StartAlone DEF EditLayout, DeleteLayout, Quiet
<1>16. CASE DeleteConfig \/ DeleteData
  <2>1. config' = NoFile /\ wanted' = Defaults /\ pc' = "off"
    BY <1>16 DEF DeleteConfig, DeleteData
  <2>2. DOMAIN Defaults = Required /\ DOMAIN Empty = {}
    BY DefaultsAre, EmptyIs
  <2>3. Means(Text)'
    BY <2>1, <2>2 DEF Means, Reads, Text
  <2> QED BY <2>1, <2>3 DEF SurviveInv
<1>17. CASE UNCHANGED vars
  BY <1>17, StartAlone DEF vars, Quiet
<1> QED
  BY <1>1, <1>3, <1>4, <1>5, <1>6, <1>7, <1>8, <1>9, <1>10, <1>11, <1>12, <1>13, <1>14, <1>15,
     <1>16, <1>17, <1>18, <1>19, <1>20 DEF Next, Program, Startup, Others

\* A start reads what the last save put down, and keeps what it does not read.
LEMMA LoadReadsWanted ==
  ASSUME MigrationInv, SurviveInv, LoadConfig, ~mishap, leaving = Nobody
  PROVE  /\ \A k \in Required : mem'[k] = wanted[k]
         /\ \A k \in DOMAIN wanted \ Required : k \in DOMAIN config /\ config[k] = wanted[k]
<1>1. Means(Text) /\ mem' = Loaded(Text) /\ pc = "load"
  BY NobodyIs DEF SurviveInv, Quiet, LoadConfig, Text
<1>2. OldKey \notin DOMAIN Text
  BY <1>1, EmptyIs DEF MigrationInv, Clean, Text
<1>3. \A k \in Required : Loaded(Text)[k] = Reads(Text, k)
  BY <1>2 DEF Loaded, Reads
<1>4. \A k \in Required : mem'[k] = wanted[k]
  BY <1>1, <1>3 DEF Means
<1>5. \A k \in DOMAIN wanted \ Required : k \in DOMAIN config /\ config[k] = wanted[k]
  BY <1>1, EmptyIs DEF Means, Text
<1> QED BY <1>4, <1>5

\* No version, kill or failure between two starts changes a setting, and no
\* migration drops a key it does not know, unless a rewrite of config.ini went
\* wrong or the process before has still to save.
THEOREM SettingsAreKept == Spec => SettingsSurvive
<1>1. TypeOK /\ MigrationInv /\ SurviveInv /\ [Next]_vars =>
        [LoadConfig /\ ~mishap /\ leaving = Nobody =>
           /\ \A k \in Required : mem'[k] = wanted[k]
           /\ \A k \in DOMAIN wanted \ Required : k \in DOMAIN config /\ config[k] = wanted[k]]_vars
  BY LoadReadsWanted
<1> QED
  BY <1>1, InitTypes, StepTypes, InitMigration, StepMigration, InitSurvive, StepSurvive, PTL
     DEF Spec, SettingsSurvive

-----------------------------------------------------------------------------
(* A settled start changes nothing.                                        *)

Seeded == \A id \in Bundled[installed] : layouts[id] # Absent

InPlace ==
  config # NoFile /\ dirs = {"root", "layouts"} /\ marker = installed /\ Seeded

\* How far a start that has not failed has come.
Progress ==
  ~faulty =>
    /\ pc \notin {"off", "dirs", "running"} => dirs = {"root", "layouts"}
    /\ pc \in {"seed", "copying"} => \A id \in Bundled[installed] \ toCopy : layouts[id] # Absent
    /\ pc \notin {"off", "dirs", "plan", "seed", "copying", "running"} => Seeded
    /\ pc \in {"load", "defaulting", "writing"} => marker = installed
    /\ pc = "writing" => config # NoFile

\* What is settled is in place, and a start finds nothing to do.
Settled ==
  settled =>
    /\ InPlace
    /\ pc \notin {"copying", "migrating", "rewriting", "defaulting", "writing"}
    /\ pc = "seed" => toCopy = {}
    /\ pc \notin {"off", "running"} => kind = "Normal"

SettledInv == Progress /\ Settled

LEMMA InitSettled == Init => SettledInv
BY DEF Init, SettledInv, Progress, Settled

\* Steps that leave alone what is in place.
LEMMA PlaceAlone ==
  ASSUME SettledInv, UNCHANGED <<installed, dirs, marker, layouts, kind, toCopy, faulty>>,
         settled' => settled, config' # NoFile \/ UNCHANGED config,
         pc' = pc \/ pc' \in {"off", "running"}
  PROVE  SettledInv'
<1>1. Seeded' = Seeded
  BY DEF Seeded
<1>2. Progress'
  BY <1>1 DEF SettledInv, Progress
<1>3. Settled'
  BY <1>1 DEF SettledInv, Settled, InPlace
<1> QED BY <1>2, <1>3 DEF SettledInv

LEMMA StepSettled == TypeOK /\ SettledInv /\ [Next]_vars => SettledInv'
<1> SUFFICES ASSUME TypeOK, SettledInv, [Next]_vars PROVE SettledInv'
  OBVIOUS
<1> USE DEF disk, history
<1>1. CASE Launch
  <2>1. InPlace => detect = "Normal"
    BY InstalledDataAssumption DEF InPlace, detect, TypeOK
  <2> QED BY <1>1, <2>1 DEF Launch, SettledInv, Progress, Settled, InPlace, Seeded
<1>2. CASE EnsureDirectories
  <2>1. settled => dirs' = {"root", "layouts"}
    BY <1>2 DEF EnsureDirectories, SettledInv, Settled, InPlace
  <2> QED BY <1>2, <2>1 DEF EnsureDirectories, SettledInv, Progress, Settled, InPlace, Seeded
<1>3. CASE PlanSeed
  BY <1>3, InstalledDataAssumption DEF PlanSeed, SettledInv, Progress, Settled, InPlace, Seeded, TypeOK
<1>4. ASSUME NEW id \in Ids, SeedLayout(id) PROVE SettledInv'
  <2>1. ~settled
    BY <1>4 DEF SeedLayout, SettledInv, Settled
  <2>2. \A i \in Ids : layouts[i] # Absent => layouts'[i] # Absent
    BY <1>4, InstalledDataAssumption DEF SeedLayout, TypeOK
  <2>3. layouts'[id] # Absent
    BY <1>4, InstalledDataAssumption DEF SeedLayout, TypeOK
  <2>4. toCopy' \in {toCopy, toCopy \ {id}} /\ pc' \in {"seed", "copying"}
        /\ UNCHANGED <<installed, dirs, marker, faulty, settled>> /\ pc = "seed"
    BY <1>4 DEF SeedLayout
  <2>5. Progress'
    BY <2>2, <2>3, <2>4, InstalledDataAssumption DEF SettledInv, Progress, TypeOK
  <2> QED BY <2>1, <2>4, <2>5 DEF SettledInv, Settled
<1>5. ASSUME NEW id \in Ids, SeedLayoutEnd(id) PROVE SettledInv'
  <2>1. ~settled
    BY <1>5 DEF SeedLayoutEnd, SettledInv, Settled
  <2>2. \A i \in Ids : layouts[i] # Absent => layouts'[i] # Absent
    BY <1>5, InstalledDataAssumption DEF SeedLayoutEnd, TypeOK
  <2>3. layouts'[id] # Absent
    BY <1>5, InstalledDataAssumption DEF SeedLayoutEnd, TypeOK
  <2>4. toCopy' = toCopy \ {id} /\ pc' = "seed" /\ pc = "copying"
        /\ UNCHANGED <<installed, dirs, marker, faulty, settled>>
    BY <1>5 DEF SeedLayoutEnd
  <2>5. Progress'
    BY <2>2, <2>3, <2>4, InstalledDataAssumption DEF SettledInv, Progress, TypeOK
  <2> QED BY <2>1, <2>4, <2>5 DEF SettledInv, Settled
<1>6. ASSUME NEW id \in Ids, SeedLayoutFails(id) PROVE SettledInv'
  <2>1. ~settled /\ UNCHANGED settled /\ faulty'
    BY <1>6 DEF SeedLayoutFails, SettledInv, Settled
  <2> QED BY <2>1 DEF SettledInv, Settled, Progress
<1>7. CASE MigrateConfigFile
  <2>1. settled => ~needsMigration
    BY <1>7 DEF MigrateConfigFile, SettledInv, Settled, needsMigration
  <2>2. settled => pc' = "stamp" /\ UNCHANGED <<config, faulty>>
    BY <1>7, <2>1 DEF MigrateConfigFile
  <2>3. /\ pc = "seed" /\ toCopy = {} /\ pc' \in {"stamp", "migrating"} /\ (faulty => faulty')
        /\ UNCHANGED <<installed, dirs, marker, layouts, kind, toCopy, settled>>
    BY <1>7 DEF MigrateConfigFile
  <2>4. Seeded' = Seeded
    BY <2>3 DEF Seeded
  <2>5. Progress'
    BY <2>3, <2>4 DEF SettledInv, Progress, Seeded
  <2>6. Settled'
    BY <2>2, <2>3, <2>4 DEF SettledInv, Settled, InPlace
  <2> QED BY <2>5, <2>6 DEF SettledInv
<1>8. CASE MigrateConfigFileOpen \/ MigrateConfigFileEnd
  <2>1. ~settled /\ UNCHANGED settled
    BY <1>8 DEF MigrateConfigFileOpen, MigrateConfigFileEnd, SettledInv, Settled
  <2>2. /\ pc \in {"migrating", "rewriting"} /\ pc' \in {"rewriting", "stamp"} /\ (faulty => faulty')
        /\ UNCHANGED <<installed, dirs, layouts>>
    BY <1>8 DEF MigrateConfigFileOpen, MigrateConfigFileEnd
  <2> QED BY <2>1, <2>2 DEF SettledInv, Settled, Progress, Seeded
<1>9. CASE WriteMarker
  BY <1>9 DEF WriteMarker, SettledInv, Progress, Settled, InPlace, Seeded
<1>10. CASE LoadConfig
  <2>1. pc = "load" /\ UNCHANGED <<installed, dirs, marker, config, layouts, kind, toCopy, faulty>>
    BY <1>10 DEF LoadConfig
  <2>2. Seeded' = Seeded
    BY <2>1 DEF Seeded
  <2>3. CASE config # NoFile
    <3>1. pc' = "running" /\ (settled' => settled \/ ~faulty)
      BY <1>10, <2>3, Zenon DEF LoadConfig
    <3> QED BY <2>1, <2>2, <2>3, <3>1 DEF SettledInv, Progress, Settled, InPlace
  <2>4. CASE config = NoFile
    <3>1. pc' = "defaulting" /\ ~settled'
      BY <1>10, <2>4 DEF LoadConfig, SettledInv, Settled, InPlace
    <3> QED BY <2>1, <2>2, <3>1 DEF SettledInv, Progress, Settled
  <2> QED BY <2>3, <2>4
<1>11. CASE LoadUnreadable
  BY <1>11 DEF LoadUnreadable, SettledInv, Settled, Progress
<1>22. CASE SaveDefaults
  <2>1. /\ pc = "defaulting" /\ ~settled' /\ UNCHANGED <<installed, dirs, marker, layouts>>
        /\ \/ pc' = "writing" /\ config' = Empty /\ UNCHANGED faulty
           \/ pc' = "running" /\ faulty'
    BY <1>22 DEF SaveDefaults, SettledInv, Settled
  <2>2. Seeded' = Seeded
    BY <2>1 DEF Seeded
  <2> QED BY <2>1, <2>2, EmptyIs, NoFileIsNone DEF SettledInv, Progress, Settled
<1>23. CASE SaveDefaultsEnd
  <2>1. /\ pc = "writing" /\ pc' = "running" /\ (faulty => faulty')
        /\ UNCHANGED <<installed, dirs, marker, layouts, kind, toCopy>>
    BY <1>23 DEF SaveDefaultsEnd
  <2>2. Seeded' = Seeded
    BY <2>1 DEF Seeded
  <2>3. settled' => ~faulty'
    BY <1>23, Zenon DEF SaveDefaultsEnd, SettledInv, Settled
  <2>4. config # NoFile => config' # NoFile
    BY <1>23, NoFileIsNone DEF SaveDefaultsEnd, TypeOK
  <2> QED BY <2>1, <2>2, <2>3, <2>4 DEF SettledInv, Progress, Settled, InPlace
<1>12. ASSUME NEW k \in SessionKeys, NEW v \in Values, ChangeSetting(k, v) PROVE SettledInv'
  BY <1>12, PlaceAlone DEF ChangeSetting
<1>13. CASE Shutdown \/ KillLeaving
  BY <1>13, PlaceAlone DEF Shutdown, KillLeaving
<1>14. CASE Save
  BY <1>14, PlaceAlone, EmptyIs, NoFileIsNone DEF Save
<1>15. CASE SaveEnd
  <2>1. leaving.settings # NoFile
    BY <1>15, NobodyIs, RequiredAreSettings, NoFileIsNone DEF SaveEnd, TypeOK
  <2> QED BY <1>15, <2>1, PlaceAlone DEF SaveEnd
<1>16. CASE Kill
  BY <1>16 DEF Kill, SettledInv, Progress, Settled, InPlace, Seeded
<1>17. ASSUME NEW v \in Versions, Install(v) PROVE SettledInv'
  BY <1>17 DEF Install, SettledInv, Progress, Settled
<1>18. ASSUME NEW id \in Ids, EditLayout(id) PROVE SettledInv'
  <2>1. \A i \in Ids : layouts[i] # Absent => layouts'[i] # Absent
    BY <1>18, InstalledDataAssumption DEF EditLayout, TypeOK
  <2>2. UNCHANGED <<installed, dirs, marker, config, pc, kind, toCopy, faulty, settled>>
    BY <1>18 DEF EditLayout
  <2>3. Seeded => Seeded'
    BY <2>1, <2>2, InstalledDataAssumption DEF Seeded, TypeOK
  <2>4. Progress'
    BY <2>1, <2>2, <2>3, InstalledDataAssumption DEF SettledInv, Progress, TypeOK
  <2> QED BY <2>2, <2>3, <2>4 DEF SettledInv, Settled, InPlace
<1>19. ASSUME NEW id \in Ids, DeleteLayout(id) PROVE SettledInv'
  BY <1>19 DEF DeleteLayout, SettledInv, Progress, Settled
<1>20. CASE DeleteConfig \/ DeleteData
  BY <1>20 DEF DeleteConfig, DeleteData, SettledInv, Progress, Settled
<1>21. CASE UNCHANGED vars
  BY <1>21, PlaceAlone DEF vars
<1> QED
  BY <1>1, <1>2, <1>3, <1>4, <1>5, <1>6, <1>7, <1>8, <1>9, <1>10, <1>11, <1>12, <1>13, <1>14,
     <1>15, <1>16, <1>17, <1>18, <1>19, <1>20, <1>21, <1>22, <1>23 DEF Next, Program, Startup, Others

LEMMA SettledStarts ==
  ASSUME SettledInv, settled, Startup
  PROVE  UNCHANGED <<config, layouts>>
<1> USE DEF disk, history
<1>1. CASE Launch \/ EnsureDirectories \/ PlanSeed \/ WriteMarker
  BY <1>1 DEF Launch, EnsureDirectories, PlanSeed, WriteMarker
<1>2. ASSUME NEW id \in Ids, SeedLayout(id) \/ SeedLayoutEnd(id) \/ SeedLayoutFails(id)
      PROVE  UNCHANGED <<config, layouts>>
  BY <1>2 DEF SeedLayout, SeedLayoutEnd, SeedLayoutFails, SettledInv, Settled
<1>3. CASE MigrateConfigFile \/ MigrateConfigFileOpen \/ MigrateConfigFileEnd
  BY <1>3 DEF MigrateConfigFile, MigrateConfigFileOpen, MigrateConfigFileEnd, SettledInv, Settled
<1>4. CASE LoadConfig \/ LoadUnreadable \/ SaveDefaults \/ SaveDefaultsEnd
  BY <1>4 DEF LoadConfig, LoadUnreadable, SaveDefaults, SaveDefaultsEnd, SettledInv, Settled
<1> QED BY <1>1, <1>2, <1>3, <1>4 DEF Startup

\* AutoMigration.h:8, for all versions: after one launch without fault a start
\* finds nothing to create, copy, migrate or write.
THEOREM StartsAreIdempotent == Spec => StartupIsIdempotent
<1>1. SettledInv /\ [Next]_vars =>
        [settled /\ Startup => UNCHANGED <<config, layouts>>]_vars
  BY SettledStarts
<1> QED
  BY <1>1, InitTypes, StepTypes, InitSettled, StepSettled, PTL DEF Spec, StartupIsIdempotent

LEMMA CompleteStays ==
  ASSUME TypeOK, NEW id \in Ids, layouts[id] \in {Edited, Shipped}, Program
  PROVE  layouts'[id] = layouts[id]
<1> USE DEF disk, history
<1>1. ASSUME NEW i \in Ids, SeedLayout(i) \/ SeedLayoutEnd(i) \/ SeedLayoutFails(i)
      PROVE  layouts'[id] = layouts[id]
  BY <1>1, InstalledDataAssumption DEF SeedLayout, SeedLayoutEnd, SeedLayoutFails, TypeOK
<1>2. CASE \/ Launch \/ EnsureDirectories \/ PlanSeed \/ WriteMarker
           \/ MigrateConfigFile \/ MigrateConfigFileOpen \/ MigrateConfigFileEnd
           \/ LoadConfig \/ LoadUnreadable \/ SaveDefaults \/ SaveDefaultsEnd
  BY <1>2 DEF Launch, EnsureDirectories, PlanSeed, WriteMarker,
              MigrateConfigFile, MigrateConfigFileOpen, MigrateConfigFileEnd,
              LoadConfig, LoadUnreadable, SaveDefaults, SaveDefaultsEnd
<1>3. CASE \/ \E k \in SessionKeys, v \in Values : ChangeSetting(k, v)
           \/ Shutdown \/ Save \/ SaveEnd \/ Kill \/ KillLeaving
  BY <1>3 DEF ChangeSetting, Shutdown, Save, SaveEnd, Kill, KillLeaving
<1> QED BY <1>1, <1>2, <1>3 DEF Program, Startup

\* No step of the program rewrites a layout file that is complete.
THEOREM UserLayoutsStay == Spec => UserLayoutsKept
<1>1. TypeOK => [\A id \in Ids : layouts[id] \in {Edited, Shipped} /\ Program => layouts'[id] = layouts[id]]_vars
  BY CompleteStays
<1> QED BY <1>1, InitTypes, StepTypes, PTL DEF Spec, UserLayoutsKept
=============================================================================
