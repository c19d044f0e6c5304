--------------------------- MODULE SelfUpdate_proofs ---------------------------
(***************************************************************************)
(* What must survive launches, migrations, updates and crashes, for any    *)
(* set of builds and any number of faults: each migration runs once, there *)
(* is always a build to run, and a configuration stays one, however long   *)
(* its lists.                                                              *)
(***************************************************************************)
EXTENDS SelfUpdate, FiniteSetTheorems, WellFoundedInduction, TLAPS

-----------------------------------------------------------------------------
(* The count of migrations                                                 *)

Counts == {Missing, Torn} \cup {Whole(n) : n \in Nat}

ControlOK ==
  /\ run \in {"down", "legacy", "migrate", "up"}
  /\ version \in Builds /\ firstLaunch \in BOOLEAN
  /\ pos \in Nat /\ counted \in Nat /\ settled \subseteq Nat
  /\ applied \in Counts /\ last \in Counts

(* Without a configuration there is no count: a first launch overrides     *)
(* none.                                                                   *)
FileInv == file = Missing => applied = Missing /\ run = "down"

(* The count that can be read is the one that was held last, and what it   *)
(* counts is settled.                                                      *)
CountInv ==
  /\ applied = Missing => counted = 0
  /\ \A n \in Nat : applied = Whole(n) => counted = n + 1 /\ 1 .. n \subseteq settled

(* A launch in progress has read the count that the file still holds and   *)
(* is past what it counts; whoever cannot tell is past all migrations.     *)
StartInv ==
  /\ firstLaunch /\ run \in {"legacy", "migrate"} => applied = Missing
  /\ run = "legacy" /\ pos # 0 /\ applied # Missing => pos > Len(Versions)
  /\ run = "migrate" /\ pos # 0 =>
       /\ recorded = applied
       /\ IF applied = Torn THEN pos > version ELSE pos >= counted
       /\ 1 .. pos - 1 \subseteq settled

CInv == ControlOK /\ FileInv /\ CountInv /\ StartInv

-----------------------------------------------------------------------------
(* The updater                                                             *)

(* Past its check the updater installs a build newer than the running one, *)
(* and what it has installed is where it was to go.                        *)
UpdaterInv ==
  /\ updater # "idle" => run = "up" /\ target > version
  /\ updater = "installed" => IF path = "backup" THEN target \in backups ELSE exec # {}

BuildsOK == exec \subseteq Builds /\ backups \subseteq Builds /\ target \in Builds

UInv == BuildsOK /\ UpdaterInv /\ SomethingToRun

-----------------------------------------------------------------------------
(* The rules of the user                                                   *)

HasRules(c) == "rules" \in DOMAIN c
DataInv == HasRules(memory) /\ (file.state = "whole" => HasRules(file.data))

RulesSaved == file.state = "whole" /\ file.data.rules = "new"
LegacyDone == last = Whole(Len(Versions))

(* Before anything goes wrong every launch leaves both records of what has *)
(* run.                                                                    *)
CleanInv ==
  faults = 0 =>
    /\ last # Torn
    /\ run = "migrate" => LegacyDone
    /\ run = "up" \/ RulesSaved => applied # Missing

(* One fault leaves one of them, which is enough: no legacy migration runs *)
(* over rules that are saved, and those in memory are the saved ones.      *)
OnceInv ==
  faults <= 1 =>
    /\ run = "up" \/ RulesSaved => applied # Missing \/ LegacyDone
    /\ RulesSaved /\ run = "legacy" /\ pos # 0 => pos > Len(Versions)
    /\ RulesSaved /\ run # "down" => memory.rules = "new"
    /\ run = "legacy" /\ memory.rules = "new" => RulesSaved

RInv == faults \in Nat /\ DataInv /\ CleanInv /\ OnceInv

IInv == CInv /\ UInv /\ RInv

-----------------------------------------------------------------------------
(* The contents of a file are told apart by their state.                   *)
LEMMA Contents ==
  /\ Missing # Torn
  /\ \A x : Whole(x) # Missing /\ Whole(x) # Torn
  /\ \A x : Whole(x).state = "whole" /\ Whole(x).data = x
  /\ Missing.state # "whole" /\ Torn.state # "whole"
<1>1. Missing.state = "missing" /\ Torn.state = "torn"
  BY DEF Missing, Torn
<1>2. \A x : Whole(x).state = "whole" /\ Whole(x).data = x
  BY DEF Whole
<1>3. QED
  BY <1>1, <1>2

(* A count is missing, unreadable or a number.                             *)
LEMMA CountFacts ==
  ASSUME NEW f \in Counts
  PROVE  /\ f.state = "whole" => f.data \in Nat /\ f = Whole(f.data)
         /\ f # Missing /\ f # Torn => f.state = "whole"
         /\ f = Missing \/ f = Torn \/ \E n \in Nat : f = Whole(n)
BY Contents DEF Counts

(* Builds and releases are numbered.                                       *)
LEMMA Numbers ==
  /\ Builds \subseteq Nat
  /\ Len(Versions) \in Nat
  /\ OldReleases \subseteq 0 .. Len(Versions) /\ OldReleases \subseteq Nat
BY ConfigAssumption, ReleaseAssumption DEF Versions

-----------------------------------------------------------------------------
(* The steps of the configuration                                          *)

(* A launch begins behind whatever files it finds.                         *)
LEMMA LaunchKeeps ==
  ASSUME CInv, NEW b \in Builds, Launch(b)
  PROVE  CInv'
<1>1. /\ run = "down" /\ version' = b /\ pos' = 0
      /\ UNCHANGED <<applied, last, counted, settled>>
      /\ run' \in {"down", "legacy"} /\ firstLaunch' \in BOOLEAN
      /\ firstLaunch' /\ run' = "legacy" => file = Missing
      /\ file' # Missing
  BY Contents DEF Launch, CInv, ControlOK
<1>2. ControlOK' /\ FileInv' /\ CountInv'
  BY <1>1 DEF CInv, ControlOK, FileInv, CountInv
<1>3. StartInv'
  BY <1>1 DEF CInv, ControlOK, FileInv, StartInv
<1>4. QED
  BY <1>2, <1>3 DEF CInv

(* The legacy migrations touch no count, and do not run beside one.        *)
LEMMA LegacyKeeps ==
  ASSUME CInv, StartLegacy \/ LegacyMigration \/ RecordLegacy
  PROVE  CInv'
<1>1. /\ run = "legacy" /\ UNCHANGED <<version, firstLaunch, applied, counted, settled>>
      /\ last' \in Counts /\ file' # Missing
      /\ \/ run' = "down" /\ pos' = pos
         \/ run' = "migrate" /\ pos' = 0
         \/ run' = "legacy" /\ pos = 0 /\ pos' = LegacyFrom + 1
              /\ (last # Torn \/ firstLaunch \/ applied # Missing)
         \/ run' = "legacy" /\ pos # 0 /\ pos' = pos + 1
  <2>1. CASE StartLegacy
    BY <2>1 DEF StartLegacy, CInv, ControlOK, FileInv
  <2>2. CASE LegacyMigration
    BY <2>2, Contents DEF LegacyMigration, Write, Down, CInv, ControlOK, FileInv
  <2>3. CASE RecordLegacy
    BY <2>3, Numbers DEF RecordLegacy, Write, Down, CInv, ControlOK, FileInv, Counts
  <2>4. QED
    BY <2>1, <2>2, <2>3
<1>2. (last # Torn \/ firstLaunch \/ applied # Missing) =>
        LegacyFrom \in Nat /\ (applied # Missing => LegacyFrom = Len(Versions))
  BY Numbers, CountFacts DEF LegacyFrom, CInv, ControlOK
<1>3. ControlOK' /\ FileInv' /\ CountInv'
  BY <1>1, <1>2 DEF CInv, ControlOK, FileInv, CountInv
<1>4. StartInv'
  BY <1>1, <1>2, Numbers DEF CInv, ControlOK, StartInv
<1>5. QED
  BY <1>3, <1>4 DEF CInv

(* runMigrations starts past what is counted, or past everything when it   *)
(* cannot tell.                                                            *)
LEMMA StartMigrationsKeeps ==
  ASSUME CInv, StartMigrations
  PROVE  CInv'
<1>1. /\ run = "migrate" /\ pos = 0
      /\ UNCHANGED <<version, firstLaunch, file, last, applied, counted>>
  BY DEF StartMigrations
<1>2. CASE run' = "up"
  BY <1>1, <1>2 DEF StartMigrations, CInv, ControlOK, FileInv, CountInv, StartInv
<1>3. CASE run' # "up"
  <2> DEFINE all == firstLaunch \/ applied = Torn
  <2>1. /\ run' = run /\ recorded' = IF firstLaunch THEN Missing ELSE applied
        /\ pos' = 1 + IF all THEN version ELSE IF applied = Missing THEN 0 ELSE applied.data
        /\ settled' = IF all THEN settled \cup 1 .. version ELSE settled
    BY <1>1, <1>3 DEF StartMigrations
  <2>2. recorded' = applied /\ version \in Nat
    BY <1>1, <2>1, Numbers DEF CInv, ControlOK, StartInv
  <2>3. CASE all
    <3>1. pos' = 1 + version /\ settled' = settled \cup 1 .. version
      BY <2>1, <2>3
    <3>2. applied = Missing \/ applied = Torn
      BY <1>1, <2>3 DEF CInv, StartInv
    <3>3. ControlOK' /\ FileInv' /\ CountInv'
      <4>1. settled \subseteq settled' /\ settled' \subseteq Nat /\ pos' \in Nat
        <5>1. 1 .. version \subseteq Nat /\ 1 + version \in Nat
          BY <2>2
        <5>2. QED
          BY <3>1, <5>1 DEF CInv, ControlOK
      <4>2. ControlOK' /\ FileInv'
        BY <1>1, <2>1, <4>1 DEF CInv, ControlOK, FileInv
      <4>3. CountInv'
        BY <1>1, <4>1 DEF CInv, CountInv
      <4>4. QED
        BY <4>2, <4>3
    <3>4. StartInv'
      BY <1>1, <2>1, <2>2, <3>1, <3>2, Contents DEF CInv, ControlOK, CountInv, StartInv
    <3>5. QED
      BY <3>3, <3>4 DEF CInv
  <2>4. CASE ~all
    <3>1. settled' = settled /\ applied # Torn /\ ~firstLaunch
      BY <2>1, <2>4
    <3>2. PICK n \in Nat : pos' = 1 + n /\ counted <= n + 1 /\ 1 .. n \subseteq settled
      <4>1. CASE applied = Missing
        BY <2>1, <2>4, <4>1 DEF CInv, CountInv
      <4>2. CASE applied # Missing
        BY <2>1, <2>4, <3>1, <4>2, CountFacts, Contents DEF CInv, ControlOK, CountInv
      <4>3. QED
        BY <4>1, <4>2
    <3>3. ControlOK' /\ FileInv' /\ CountInv'
      <4>1. pos' \in Nat
        BY <3>2
      <4>2. ControlOK' /\ FileInv'
        BY <1>1, <2>1, <3>1, <4>1 DEF CInv, ControlOK, FileInv
      <4>3. CountInv'
        BY <1>1, <3>1 DEF CInv, CountInv
      <4>4. QED
        BY <4>2, <4>3
    <3>4. StartInv'
      BY <1>1, <2>1, <2>2, <3>1, <3>2 DEF CInv, ControlOK, StartInv
    <3>5. QED
      BY <3>3, <3>4 DEF CInv
  <2>5. QED
    BY <2>3, <2>4
<1>4. QED
  BY <1>2, <1>3

(* A migration that ran, or failed, is settled.                            *)
LEMMA MigrationKeeps ==
  ASSUME CInv, Migration
  PROVE  CInv'
<1>1. /\ run = "migrate" /\ pos \in 1 .. version /\ version \in Nat
      /\ pos' = pos + 1 /\ settled' = settled \cup {pos}
      /\ UNCHANGED <<run, version, firstLaunch, recorded, file, last, applied, counted>>
  BY Numbers DEF Migration, CInv, ControlOK
<1>2. ControlOK' /\ FileInv' /\ CountInv'
  BY <1>1 DEF CInv, ControlOK, FileInv, CountInv
<1>3. StartInv'
  BY <1>1 DEF CInv, ControlOK, StartInv
<1>4. QED
  BY <1>2, <1>3 DEF CInv

(* The count that is written covers settled migrations only and is not     *)
(* below the one it replaces, unless that was unreadable.                  *)
LEMMA RecordMigrationsKeeps ==
  ASSUME CInv, RecordMigrations
  PROVE  CInv'
<1>1. /\ run = "migrate" /\ pos > version /\ version \in Nat /\ pos \in Nat /\ CountOf \in Nat
      /\ UNCHANGED <<version, firstLaunch, pos, file, last, settled>>
      /\ run' \in {"up", "down"}
  BY Numbers DEF RecordMigrations, Write, Down, CountOf, CInv, ControlOK
<1>2. \/ UNCHANGED <<applied, counted>>
      \/ applied' = Torn /\ counted' = counted
      \/ applied' = Whole(CountOf) /\ recorded # Whole(CountOf)
           /\ counted' = IF CountOf >= counted \/ recorded = Torn THEN CountOf + 1 ELSE counted
  <2>1. recorded = applied
    BY <1>1 DEF CInv, StartInv
  <2>2. QED
    BY <2>1, Contents DEF RecordMigrations, Write
<1>3. ControlOK' /\ FileInv' /\ StartInv'
  BY <1>1, <1>2 DEF CInv, ControlOK, FileInv, StartInv, Counts
<1>4. CountInv'
  <2>1. CASE UNCHANGED <<applied, counted>>
    BY <1>1, <2>1 DEF CInv, CountInv
  <2>2. CASE applied' = Torn /\ counted' = counted
    BY <2>2, Contents DEF CountInv
  <2>3. CASE applied' = Whole(CountOf) /\ recorded # Whole(CountOf)
               /\ counted' = IF CountOf >= counted \/ recorded = Torn THEN CountOf + 1 ELSE counted
    <3>1. recorded = applied /\ 1 .. CountOf \subseteq settled
      BY <1>1 DEF CInv, StartInv, CountOf
    <3>2. CountOf >= counted \/ recorded = Torn
      <4>1. CASE applied = Missing
        BY <1>1, <4>1 DEF CInv, CountInv
      <4>2. ASSUME NEW n \in Nat, applied = Whole(n)  PROVE CountOf >= counted
        <5>1. counted = n + 1 /\ pos >= counted
          BY <1>1, <4>2, Contents DEF CInv, CountInv, StartInv
        <5>2. CountOf # n
          BY <2>3, <3>1, <4>2
        <5>3. QED
          BY <1>1, <5>1, <5>2 DEF CountOf
      <4>3. QED
        BY <3>1, <4>1, <4>2, CountFacts DEF CInv, ControlOK
    <3>3. \A n \in Nat : applied' = Whole(n) => n = CountOf
      BY <2>3, Contents
    <3>4. QED
      BY <1>1, <2>3, <3>1, <3>2, <3>3, Contents DEF CountInv
  <2>4. QED
    BY <1>2, <2>1, <2>2, <2>3
<1>5. QED
  BY <1>3, <1>4 DEF CInv

(* Saves, ends of the process and what happens outside it.                 *)
LEMMA RestKeeps ==
  ASSUME CInv, Update \/ Crash \/ RemoveFiles \/ RunOldRelease
  PROVE  CInv'
<1>1. /\ (run = "up" /\ run' \in {"up", "down"}) \/ run' = "down"
      /\ UNCHANGED <<version, firstLaunch, pos>>
  BY DEF Update, Write, Down, Crash, RemoveFiles, RunOldRelease
<1>2. \/ /\ UNCHANGED <<applied, counted, settled>> /\ last' \in Counts
         /\ file' = Missing => file = Missing
      \/ RemoveFiles
  <2>1. CASE Update
    BY <2>1, Contents DEF Update, Write, CInv, ControlOK
  <2>2. CASE Crash
    BY <2>2 DEF Crash, configFiles, CInv, ControlOK
  <2>3. CASE RunOldRelease
    BY <2>3, Numbers DEF RunOldRelease, CInv, ControlOK, Counts
  <2>4. QED
    BY <2>1, <2>2, <2>3
<1>3. ControlOK' /\ FileInv' /\ CountInv'
  <2>1. CASE RemoveFiles
    BY <1>1, <2>1, Contents
    DEF RemoveFiles, CInv, ControlOK, FileInv, CountInv, Counts
  <2>2. CASE ~RemoveFiles
    BY <1>1, <1>2, <2>2 DEF CInv, ControlOK, FileInv, CountInv
  <2>3. QED
    BY <2>1, <2>2
<1>4. StartInv'
  BY <1>1 DEF StartInv
<1>5. QED
  BY <1>3, <1>4 DEF CInv

(* The updater leaves the configuration alone, and so does who installs a  *)
(* build by hand.                                                          *)
LEMMA UpdatesKeep ==
  ASSUME CInv, Updates \/ Install
  PROVE  CInv' /\ UNCHANGED <<run, version, pos>>
<1>1. UNCHANGED <<run, version, firstLaunch, pos, recorded, file, last, applied, counted, settled>>
  BY DEF Updates, CheckForUpdates, MakeStaging, Unarchive, MoveOld, MoveNew, RollBack,
         RemoveBackup, RemoveStaging, Install, ConfigKept, configVars, configFiles
<1>2. QED
  BY <1>1 DEF CInv, ControlOK, FileInv, CountInv, StartInv

-----------------------------------------------------------------------------
(* The steps of the updater                                                *)

(* The steps of the updater leave a build to run, at the executable's path *)
(* or at that of its backup.                                               *)
LEMMA UpdaterKeeps ==
  ASSUME CInv, UInv, Updates
  PROVE  UInv'
<1>1. run = "up" /\ UNCHANGED <<run, version>> /\ version \in Builds
  BY UpdatesKeep
  DEF Updates, CheckForUpdates, MakeStaging, Unarchive, MoveOld, MoveNew, RollBack,
      RemoveBackup, RemoveStaging, Updating, CInv, ControlOK
<1>2. CASE CheckForUpdates
  BY <1>1, <1>2 DEF CheckForUpdates, At, UInv, BuildsOK, UpdaterInv, SomethingToRun
<1>3. CASE MakeStaging \/ Unarchive \/ RemoveStaging
  <2>1. /\ updater # "idle" /\ UNCHANGED <<exec, backups, target>>
        /\ updater' # "installed"
    BY <1>3
    DEF MakeStaging, Unarchive, RemoveStaging, Updating, At, ConfigKept
  <2>2. QED
    BY <1>1, <2>1 DEF UInv, BuildsOK, UpdaterInv, SomethingToRun
<1>4. CASE MoveOld
  BY <1>1, <1>4
  DEF MoveOld, Updating, At, ConfigKept, UInv, BuildsOK, UpdaterInv, SomethingToRun
<1>5. CASE MoveNew
  BY <1>1, <1>5
  DEF MoveNew, MovedIn, Updating, At, ConfigKept, UInv, BuildsOK, UpdaterInv, SomethingToRun
<1>6. CASE RollBack
  BY <1>1, <1>6
  DEF RollBack, Updating, At, ConfigKept, UInv, BuildsOK, UpdaterInv, SomethingToRun
<1>7. CASE RemoveBackup
  <2>1. /\ updater = "installed" /\ updater' = "finished" /\ UNCHANGED <<exec, target, path>>
        /\ backups' = backups \/ backups' = backups \ {version}
    BY <1>7 DEF RemoveBackup, Updating, At, ConfigKept
  <2>2. target # version
    BY <2>1, Numbers, ConfigAssumption DEF UInv, UpdaterInv, CInv, ControlOK
  <2>3. QED
    BY <1>1, <2>1, <2>2 DEF UInv, BuildsOK, UpdaterInv, SomethingToRun
<1>8. QED
  BY <1>2, <1>3, <1>4, <1>5, <1>6, <1>7 DEF Updates

(* Beside it only the end of the process matters, and that ends it.        *)
LEMMA BesideKeeps ==
  ASSUME UInv, Beside,
         \/ run' = "down"
         \/ run' = "up" /\ version' = version
         \/ run # "up"
  PROVE  UInv'
BY DEF UInv, BuildsOK, UpdaterInv, SomethingToRun, Beside

(* So does an installation by hand.                                        *)
LEMMA InstallKeeps ==
  ASSUME UInv, Install
  PROVE  UInv'
BY DEF Install, UInv, BuildsOK, UpdaterInv, SomethingToRun

-----------------------------------------------------------------------------
(* The steps and the rules                                                 *)

(* A migration keeps the rules or makes them migrated ones.                *)
LEMMA MigratedRules ==
  ASSUME NEW i \in 1 .. Len(Versions), NEW c, HasRules(c)
  PROVE  /\ HasRules(Migrated(Versions[i], c))
         /\ Migrated(Versions[i], c).rules \in {c.rules, "migrated"}
<1> DEFINE Kept(d) == HasRules(d) /\ d.rules \in {c.rules, "migrated"}
<1>1. Kept(V030(c)) /\ Kept(V060(c)) /\ Kept(V070(c)) /\ Kept(V090(c))
  BY DEF V030, V060, V070, V090, AddFilterList, ToggleFilterList, Moved, EachList, HasRules
<1>2. Kept(V0100(c)) /\ Kept(V0130(c)) /\ Kept(V0160(c)) /\ Kept(V0180(c))
  BY DEF V0100, V0130, V0160, V0180, AddFilterList, HasRules
<1>3. Kept(V0190(c)) /\ Kept(V0210(c)) /\ Kept(V0220(c)) /\ Kept(V0261(c)) /\ Kept(V0270(c))
  BY DEF V0190, V0210, V0220, V0261, V0270, Moved, EachList, HasRules
<1>4. Versions[i] \in {"v0.3.0", "v0.6.0", "v0.7.0", "v0.9.0", "v0.10.0", "v0.13.0", "v0.16.0",
                       "v0.18.0", "v0.19.0", "v0.21.0", "v0.22.0", "v0.26.1", "v0.27.0"}
  BY DEF Versions
<1>5. Kept(Migrated(Versions[i], c))
  BY <1>1, <1>2, <1>3, <1>4 DEF Migrated
<1>6. QED
  BY <1>5

(* The user's changes keep them or save new ones.                          *)
LEMMA EditedRules ==
  ASSUME NEW c, HasRules(c), NEW d \in Edited(c)
  PROVE  HasRules(d) /\ d.rules \in {c.rules, "new"}
BY DEF Edited, AddFilterList, HasRules

(* Faults are counted up.                                                  *)
LEMMA FaultsCount ==
  ASSUME RInv, Fault \/ UNCHANGED faults
  PROVE  /\ faults' \in Nat /\ faults <= faults'
         /\ faults' = 0 => faults = 0 /\ UNCHANGED faults
         /\ faults' <= 1 => faults <= 1 /\ (faults = 0 \/ UNCHANGED faults)
BY DEF RInv, Fault

(* A launch takes the rules that are in the file.                          *)
LEMMA LaunchRules ==
  ASSUME CInv, RInv, NEW b \in Builds, Launch(b)
  PROVE  RInv'
<1>1. /\ run = "down" /\ UNCHANGED <<last, applied>> /\ pos' = 0
      /\ Fault \/ UNCHANGED faults
      /\ \/ run' = "legacy" /\ memory' = file'.data /\ file' = file /\ file.state = "whole"
         \/ run' = "legacy" /\ memory' = Default /\ file' = Whole(Default)
         \/ run' = "down" /\ memory' = memory /\ file' = Torn
  BY DEF Launch
<1>2. HasRules(Default) /\ Default.rules = "none"
  BY DEF Default, HasRules
<1>3. DataInv' /\ (RulesSaved' => RulesSaved)
  BY <1>1, <1>2, Contents DEF RInv, DataInv, RulesSaved
<1>4. CleanInv'
  BY <1>1, <1>3, FaultsCount DEF RInv, CleanInv
<1>5. OnceInv'
  <2>1. run' = "legacy" => (memory'.rules = "new" <=> RulesSaved')
    BY <1>1, <1>2, Contents DEF RulesSaved
  <2>2. QED
    BY <1>1, <1>3, <2>1, FaultsCount DEF RInv, OnceInv, LegacyDone
<1>6. QED
  BY <1>1, <1>3, <1>4, <1>5, FaultsCount DEF RInv

(* The legacy migrations are skipped when either record says that they     *)
(* ran.                                                                    *)
LEMMA StartLegacyRules ==
  ASSUME CInv, RInv, StartLegacy
  PROVE  RInv'
<1>1. /\ run = "legacy" /\ UNCHANGED <<memory, file, last, applied>>
      /\ Fault \/ UNCHANGED faults
      /\ \/ run' = "migrate" /\ (last = Torn \/ Fault)
         \/ run' = "legacy" /\ pos' = LegacyFrom + 1
  BY DEF StartLegacy
<1>2. applied # Missing \/ LegacyDone => LegacyFrom = Len(Versions)
  BY Contents DEF LegacyFrom, LegacyDone
<1>3. CleanInv'
  <2>1. ~Fault \/ faults' # 0
    BY DEF RInv, Fault
  <2>2. QED
    BY <1>1, <2>1, FaultsCount DEF RInv, CleanInv, RulesSaved, LegacyDone
<1>4. OnceInv'
  BY <1>1, <1>2, FaultsCount, Numbers DEF RInv, OnceInv, RulesSaved, LegacyDone
<1>5. QED
  BY <1>1, <1>3, <1>4, FaultsCount DEF RInv, DataInv

(* A legacy migration runs only over rules that were not saved by this     *)
(* release, as long as at most one thing went wrong.                       *)
LEMMA LegacyMigrationRules ==
  ASSUME CInv, RInv, LegacyMigration
  PROVE  RInv' /\ (faults' <= 1 => ~RulesSaved)
<1>1. /\ run = "legacy" /\ pos \in 1 .. Len(Versions) /\ UNCHANGED <<last, applied>>
      /\ run' \in {"legacy", "down"} /\ (run' = "legacy" => pos' = pos + 1)
      /\ Fault \/ UNCHANGED faults
  BY DEF LegacyMigration, Write, Down
<1>2. faults' <= 1 => ~RulesSaved /\ memory.rules # "new"
  BY <1>1, FaultsCount, Numbers DEF RInv, OnceInv
<1>3. /\ HasRules(memory') /\ memory'.rules \in {memory.rules, "migrated"}
      /\ file' \in {file, Torn, Whole(memory')}
  <2> DEFINE next == Migrated(Versions[pos], memory)
  <2>1. HasRules(next) /\ next.rules \in {memory.rules, "migrated"}
    BY <1>1, MigratedRules DEF RInv, DataInv
  <2>2. \/ memory' = memory /\ file' \in {file, Torn}
        \/ memory' = next /\ file' \in {file, Whole(next)}
    BY DEF LegacyMigration, Write, Down
  <2>3. QED
    BY <2>1, <2>2 DEF RInv, DataInv
<1>4. DataInv'
  BY <1>3, Contents DEF RInv, DataInv
<1>5. faults' <= 1 => ~RulesSaved' /\ memory'.rules # "new"
  BY <1>2, <1>3, Contents DEF RulesSaved
<1>6. CleanInv' /\ OnceInv'
  BY <1>1, <1>5, FaultsCount DEF RInv, CleanInv, OnceInv
<1>7. QED
  BY <1>1, <1>2, <1>4, <1>6, FaultsCount DEF RInv

(* Without a fault the legacy migrations end with their own record         *)
(* written.                                                                *)
LEMMA RecordLegacyRules ==
  ASSUME CInv, RInv, RecordLegacy
  PROVE  RInv'
<1>1. /\ run = "legacy" /\ UNCHANGED <<memory, file, applied>>
      /\ \/ run' = "migrate" /\ LegacyDone' /\ UNCHANGED faults
         \/ run' \in {"migrate", "down"} /\ Fault
  BY DEF RecordLegacy, Write, Down, LegacyDone
<1>2. ~Fault \/ faults' # 0
  BY DEF RInv, Fault
<1>3. CleanInv'
  BY <1>1, <1>2, FaultsCount, Contents DEF RInv, CleanInv, RulesSaved, LegacyDone
<1>4. OnceInv'
  BY <1>1, FaultsCount DEF RInv, CleanInv, OnceInv, RulesSaved, Fault
<1>5. QED
  BY <1>1, <1>3, <1>4, FaultsCount DEF RInv, DataInv

(* The counted migrations leave the rules alone, and without a fault end   *)
(* with a count.                                                           *)
LEMMA MigrationsRules ==
  ASSUME CInv, RInv, StartMigrations \/ Migration \/ RecordMigrations
  PROVE  RInv'
<1>1. /\ run = "migrate" /\ UNCHANGED <<memory, file, last>>
      /\ Fault \/ UNCHANGED faults
      /\ \/ run' = "up" /\ applied' # Missing
         \/ run' = "up" /\ applied' = applied /\ Fault
         \/ run' \in {"migrate", "down"} /\ (applied' = applied \/ applied' # Missing)
  <2>1. CASE StartMigrations \/ Migration
    BY <2>1 DEF StartMigrations, Migration
  <2>2. CASE RecordMigrations
    <3>1. pos # 0 /\ recorded = applied
      BY <2>2, Numbers DEF RecordMigrations, CInv, ControlOK, StartInv
    <3>2. QED
      BY <2>2, <3>1, Contents DEF RecordMigrations, Write, Down
  <2>3. QED
    BY <2>1, <2>2
<1>2. ~Fault \/ faults' # 0
  BY DEF RInv, Fault
<1>3. CleanInv'
  BY <1>1, <1>2, FaultsCount DEF RInv, CleanInv, RulesSaved, LegacyDone
<1>4. OnceInv'
  BY <1>1, FaultsCount DEF RInv, CleanInv, OnceInv, RulesSaved, LegacyDone, Fault
<1>5. QED
  BY <1>1, <1>3, <1>4, FaultsCount DEF RInv, DataInv

(* A save of any setting writes the rules in memory, which are the saved   *)
(* ones.                                                                   *)
LEMMA UpdateRules ==
  ASSUME CInv, RInv, Update
  PROVE  /\ RInv'
         /\ faults' <= 1 /\ RulesSaved /\ file'.state = "whole" => RulesSaved'
<1>1. /\ run = "up" /\ run' \in {"up", "down"} /\ UNCHANGED <<last, applied>>
      /\ Fault \/ UNCHANGED faults
  BY DEF Update, Write, Down
<1>2. /\ HasRules(memory') /\ memory'.rules \in {memory.rules, "new"}
      /\ file' \in {file, Torn, Whole(memory')}
  <2>1. PICK c \in Edited(memory) :
          \/ memory' = memory /\ file' \in {file, Torn}
          \/ memory' = c /\ file' \in {file, Whole(c)}
    BY DEF Update, Write, Down
  <2>2. HasRules(c) /\ c.rules \in {memory.rules, "new"}
    BY EditedRules DEF RInv, DataInv
  <2>3. QED
    BY <2>1, <2>2 DEF RInv, DataInv
<1>3. DataInv'
  BY <1>2, Contents DEF RInv, DataInv
<1>4. faults' <= 1 /\ RulesSaved => memory'.rules = "new"
  BY <1>1, <1>2, FaultsCount DEF RInv, OnceInv
<1>5. RulesSaved' => memory'.rules = "new" \/ RulesSaved
  BY <1>2, Contents DEF RulesSaved
<1>6. CleanInv'
  BY <1>1, FaultsCount DEF RInv, CleanInv
<1>7. OnceInv'
  BY <1>1, <1>4, <1>5, FaultsCount DEF RInv, CleanInv, OnceInv, LegacyDone
<1>8. faults' <= 1 /\ RulesSaved /\ file'.state = "whole" => RulesSaved'
  BY <1>2, <1>4, Contents DEF RulesSaved
<1>9. QED
  BY <1>1, <1>3, <1>6, <1>7, <1>8, FaultsCount DEF RInv

(* Crashes, installations and old releases write no rules.                 *)
LEMMA RestRules ==
  ASSUME CInv, RInv, Crash \/ RemoveFiles \/ RunOldRelease \/ Updates \/ Install
  PROVE  RInv'
<1>1. Fault \/ UNCHANGED faults
  BY DEF Crash, RemoveFiles, RunOldRelease, Updates, Install, CheckForUpdates, MakeStaging,
         Unarchive, MoveOld, MoveNew, MovedIn, RollBack, RemoveBackup, RemoveStaging, configVars
<1>2. CASE Crash \/ Updates \/ Install
  <2>1. /\ UNCHANGED <<memory, file, last, applied, pos>>
        /\ run' = run \/ run' = "down"
    BY <1>2
    DEF Crash, Down, Updates, Install, CheckForUpdates, MakeStaging, Unarchive, MoveOld, MoveNew,
        RollBack, RemoveBackup, RemoveStaging, ConfigKept, configVars, configFiles
  <2>2. DataInv' /\ CleanInv' /\ OnceInv'
    BY <1>1, <2>1, FaultsCount
    DEF RInv, DataInv, CleanInv, OnceInv, RulesSaved, LegacyDone
  <2>3. QED
    BY <1>1, <2>2, FaultsCount DEF RInv
<1>3. CASE RemoveFiles
  <2>1. /\ run' = "down" /\ UNCHANGED <<memory, faults>> /\ file' = Missing /\ last' = Missing
    BY <1>3 DEF RemoveFiles
  <2>2. DataInv' /\ CleanInv' /\ OnceInv'
    BY <2>1, Contents DEF RInv, DataInv, CleanInv, OnceInv, RulesSaved
  <2>3. QED
    BY <1>1, <2>2, FaultsCount DEF RInv
<1>4. CASE RunOldRelease
  <2>1. /\ run' = "down" /\ UNCHANGED <<memory, file, applied>> /\ Fault
    BY <1>4 DEF RunOldRelease
  <2>2. DataInv' /\ CleanInv' /\ OnceInv'
    BY <2>1, FaultsCount DEF RInv, DataInv, CleanInv, OnceInv, RulesSaved, Fault
  <2>3. QED
    BY <1>1, <2>2, FaultsCount DEF RInv
<1>5. QED
  BY <1>2, <1>3, <1>4

-----------------------------------------------------------------------------
(* The invariant                                                           *)

(* A first start, or one over what an old release left.                    *)
LEMMA InitInv == Init => IInv
<1>1. SUFFICES ASSUME Init  PROVE IInv
  OBVIOUS
<1>2. ControlOK /\ FileInv
  BY <1>1, Numbers DEF Init, ConfigInit, ControlOK, FileInv, Counts
<1>3. CountInv /\ StartInv
  BY <1>1, Contents DEF Init, ConfigInit, CountInv, StartInv
<1>4. UInv
  BY <1>1 DEF Init, ConfigInit, UInv, BuildsOK, UpdaterInv, SomethingToRun
<1>5. RInv
  <2>1. HasRules(Default) /\ \A n \in OldReleases : HasRules(Release(n)) /\ Release(n).rules # "new"
    BY Numbers, ReleaseAssumption DEF Default, HasRules, TypeConfig
  <2>2. DataInv /\ ~RulesSaved /\ last # Torn
    BY <1>1, <2>1, Contents DEF Init, ConfigInit, DataInv, RulesSaved
  <2>3. QED
    BY <1>1, <2>2 DEF Init, ConfigInit, RInv, CleanInv, OnceInv
<1>6. QED
  BY <1>2, <1>3, <1>4, <1>5 DEF IInv, CInv

(* Every step keeps the invariant: the count, the executable, the rules.   *)
LEMMA StepInv == IInv /\ [Next]_vars => IInv'
<1>1. SUFFICES ASSUME IInv, [Next]_vars  PROVE IInv'
  OBVIOUS
<1>2. CInv /\ UInv /\ RInv
  BY <1>1 DEF IInv
<1>3. ASSUME NEW b \in exec, Launch(b), Beside  PROVE IInv'
  BY <1>2, <1>3, LaunchKeeps, BesideKeeps, LaunchRules DEF IInv, UInv, BuildsOK, Launch
<1>4. CASE ConfigNext /\ Beside
  <2>1. CInv'
    BY <1>2, <1>4, LegacyKeeps, StartMigrationsKeeps, MigrationKeeps, RecordMigrationsKeeps,
       RestKeeps
    DEF ConfigNext, Startup
  <2>2. RInv'
    BY <1>2, <1>4, StartLegacyRules, LegacyMigrationRules, RecordLegacyRules, MigrationsRules,
       UpdateRules, RestRules
    DEF ConfigNext, Startup
  <2>3. CASE Startup
    BY <1>2, <1>4, <2>1, <2>2, <2>3, BesideKeeps
    DEF IInv, Startup, StartLegacy, LegacyMigration, RecordLegacy, StartMigrations, Migration,
        RecordMigrations
  <2>4. CASE Update \/ Crash \/ RemoveFiles \/ RunOldRelease
    BY <1>2, <1>4, <2>1, <2>2, <2>4, BesideKeeps
    DEF IInv, Update, Write, Down, Crash, RemoveFiles, RunOldRelease
  <2>5. QED
    BY <1>4, <2>3, <2>4 DEF ConfigNext
<1>5. CASE Updates \/ Install
  BY <1>2, <1>5, UpdatesKeep, UpdaterKeeps, InstallKeeps, RestRules DEF IInv
<1>6. CASE UNCHANGED vars
  BY <1>1, <1>6
  DEF vars, configVars, updateVars, IInv, CInv, ControlOK, FileInv, CountInv, StartInv, UInv,
      BuildsOK, UpdaterInv, SomethingToRun, RInv, DataInv, CleanInv, OnceInv, RulesSaved,
      LegacyDone
<1>7. QED
  BY <1>1, <1>3, <1>4, <1>5, <1>6 DEF Next

(* The inductive invariant the other theorems follow from.                 *)
THEOREM Invariant == Spec => []IInv
BY InitInv, StepInv, PTL DEF Spec

-----------------------------------------------------------------------------
(* The theorems                                                            *)

(* There is always a build to run, at the executable's path or next to it  *)
(* as its backup, whatever fails and wherever the process dies.            *)
THEOREM NeverBricked == Spec => []SomethingToRun
<1>1. IInv => SomethingToRun
  BY DEF IInv, UInv
<1>2. QED
  BY <1>1, Invariant, PTL

NewerIsInstalled == updater # "idle" => target > version

(* The updater never goes back: what it stages and installs is newer than  *)
(* the build that runs.                                                    *)
THEOREM NeverOlder == Spec => []NewerIsInstalled
<1>1. IInv => NewerIsInstalled
  BY DEF IInv, UInv, UpdaterInv, NewerIsInstalled
<1>2. QED
  BY <1>1, Invariant, PTL

(* No migration that is recorded runs again, none is recorded that neither *)
(* ran nor counts as applied, and no legacy migration runs beside the      *)
(* count.                                                                  *)
THEOREM MigrationsOnce == Spec => MigrationsRunOnce
<1>1. IInv /\ [Next]_vars =>
        [/\ run = "migrate" /\ pos \in 1 .. version /\ pos' # pos => pos >= counted
         /\ run = "legacy" /\ pos \in 1 .. Len(Versions) /\ pos' # pos =>
              applied = Missing]_configVars
  <2>1. SUFFICES ASSUME IInv
                 PROVE  /\ run = "migrate" /\ pos \in 1 .. version => pos >= counted
                        /\ run = "legacy" /\ pos \in 1 .. Len(Versions) => applied = Missing
    OBVIOUS
  <2>2. version \in Nat /\ CInv
    BY <2>1, Numbers DEF IInv, CInv, ControlOK
  <2>3. QED
    BY <2>2, Numbers DEF CInv, StartInv
<1>2. IInv => CountedIsSettled
  BY CountFacts DEF IInv, CInv, ControlOK, CountInv, CountedIsSettled
<1>3. QED
  BY <1>1, <1>2, Invariant, PTL DEF Spec, MigrationsRunOnce, RecordedNeverRunsAgain

(* As long as at most one thing has gone wrong, a save, a migration or a   *)
(* crash never replaces the rules that the user saved by older ones.       *)
THEOREM RulesAreKept == Spec => SavedRulesSurvive
<1>1. IInv /\ [Next]_vars =>
        [faults' <= 1 /\ file.state = "whole" /\ file'.state = "whole"
           /\ file.data.rules = "new" => file'.data.rules = "new"]_configVars
  <2>1. SUFFICES ASSUME IInv, Next, faults' <= 1, RulesSaved, file'.state = "whole"
                 PROVE  file'.data.rules = "new"
    BY DEF RulesSaved, vars
  <2>2. CInv /\ RInv /\ file # Missing
    BY <2>1, Contents DEF IInv, RulesSaved
  <2>3. ~LegacyMigration
    BY <2>1, <2>2, LegacyMigrationRules
  <2>4. CASE Update
    BY <2>1, <2>2, <2>4, UpdateRules DEF RulesSaved
  <2>5. CASE file' = file
    BY <2>1, <2>5 DEF RulesSaved
  <2>6. CASE ~Update /\ file' # file
    BY <2>1, <2>2, <2>3, <2>6, Contents
    DEF Next, Launch, ConfigNext, Startup, StartLegacy, RecordLegacy, StartMigrations, Migration,
        RecordMigrations, Crash, RemoveFiles, RunOldRelease, Updates, Install, CheckForUpdates,
        MakeStaging, Unarchive, MoveOld, MoveNew, RollBack, RemoveBackup, RemoveStaging,
        ConfigKept, configVars, configFiles, RulesSaved
  <2>7. QED
    BY <2>4, <2>5, <2>6
<1>2. QED
  BY <1>1, Invariant, PTL DEF Spec, SavedRulesSurvive

-----------------------------------------------------------------------------
(* Numbers                                                                 *)

(* Every non-empty set of numbers has a least one.                         *)
LEMMA Least ==
  ASSUME NEW T, T \subseteq Nat, T # {}
  PROVE  \E n \in T : \A m \in T : ~(m < n)
<1>1. IsWellFoundedOn(OpToRel(<, Nat), Nat)
  BY NatLessThanWellFounded
<1>2. \E x \in T : \A y \in T : <<y, x>> \notin OpToRel(<, Nat)
  BY <1>1, WFMin
<1>3. QED
  BY <1>2 DEF OpToRel

(* Induction, for a set of numbers.                                        *)
LEMMA Induction ==
  ASSUME NEW S, 0 \in S, \A n \in Nat : n \in S => n + 1 \in S
  PROVE  \A n \in Nat : n \in S
<1> DEFINE T == Nat \ S
<1>1. SUFFICES ASSUME T # {} PROVE FALSE
  OBVIOUS
<1>2. \E n \in T : \A m \in T : ~(m < n)
  <2> HIDE DEF T
  <2>1. T \subseteq Nat
    BY DEF T
  <2>2. QED
    BY <1>1, <2>1, Least
<1>3. PICK n \in T : \A m \in T : ~(m < n)
  BY <1>2
<1>4. n # 0 /\ n - 1 \in Nat
  OBVIOUS
<1>5. n - 1 \in S
  BY <1>3, <1>4
<1>6. QED
  BY <1>4, <1>5

(* A recursive definition up to n: its steps, and what they make of b.     *)
StepsIn(V, n, step) == \A k \in 1..n : \A v \in V : step[k][v] \in V
Iterates(f, b, n, step) == f[0] = b /\ \A k \in 1..n : f[k] = step[k][f[k - 1]]

(* A function is defined by it if the steps stay in a set of values.       *)
LEMMA Recursion ==
  ASSUME NEW n \in Nat, NEW V, NEW b \in V, NEW step, StepsIn(V, n, step)
  PROVE  \E f \in [0..n -> V] : Iterates(f, b, n, step)
<1> DEFINE S == {m \in Nat : m <= n => \E f \in [0..m -> V] : Iterates(f, b, m, step)}
<1>1. 0 \in S
  <2> DEFINE f == [k \in 0..0 |-> b]
  <2>1. f \in [0..0 -> V] /\ f[0] = b /\ 1..0 = {}
    OBVIOUS
  <2> HIDE DEF f
  <2>2. QED
    BY <2>1 DEF Iterates
<1>2. ASSUME NEW m \in Nat, m \in S  PROVE m + 1 \in S
  <2>1. SUFFICES ASSUME m + 1 <= n PROVE \E f \in [0..m + 1 -> V] : Iterates(f, b, m + 1, step)
    OBVIOUS
  <2>2. PICK f \in [0..m -> V] : Iterates(f, b, m, step)
    BY <1>2, <2>1
  <2> DEFINE g == [k \in 0..(m + 1) |-> IF k = m + 1 THEN step[m + 1][f[m]] ELSE f[k]]
  <2>3. step[m + 1][f[m]] \in V
    BY <2>1 DEF StepsIn
  <2>4. g \in [0..(m + 1) -> V]
    BY <2>3
  <2>5. g[0] = b
    BY <2>2 DEF Iterates
  <2>6. ASSUME NEW k \in 1..(m + 1)  PROVE g[k] = step[k][g[k - 1]]
    <3>1. k - 1 \in 0..m /\ g[k - 1] = f[k - 1]
      OBVIOUS
    <3>2. CASE k = m + 1
      BY <3>1, <3>2
    <3>3. CASE k # m + 1
      <4>1. k \in 1..m /\ g[k] = f[k]
        BY <3>3
      <4>2. QED
        BY <2>2, <3>1, <4>1 DEF Iterates
    <3>4. QED
      BY <3>2, <3>3
  <2>7. Iterates(g, b, m + 1, step)
    BY <2>5, <2>6 DEF Iterates
  <2>8. QED
    BY <2>4, <2>7
<1>3. \A m \in Nat : m \in S
  <2> HIDE DEF S
  <2>1. QED
    BY <1>1, <1>2, Induction
<1>4. QED
  BY <1>3

-----------------------------------------------------------------------------
(* Lists                                                                   *)

(* What is left of a list without some of its elements is a list.          *)
LEMMA WithoutLists ==
  ASSUME NEW c, c.lists \in Seq(FilterList), NEW urls
  PROVE  Without(c, urls) \in Seq(FilterList)
<1> DEFINE l == c.lists
           n == Len(l)
           V == Seq(FilterList)
           Gone(i) == l[i].url \in urls
           step == [i \in 1 .. n |-> [v \in V |-> IF Gone(i) THEN v ELSE Append(v, l[i])]]
           Body(f) == [i \in 0 .. n |-> IF i = 0 THEN <<>>
                         ELSE IF Gone(i) THEN f[i - 1] ELSE Append(f[i - 1], l[i])]
<1>1. n \in Nat /\ \A i \in 1 .. n : l[i] \in FilterList
  OBVIOUS
<1>2. <<>> \in V
  OBVIOUS
<1> HIDE DEF l, n, Gone
<1>3. StepsIn(V, n, step)
  BY <1>1 DEF StepsIn
<1>4. \A i \in 1 .. n : \A v \in V : step[i][v] = IF Gone(i) THEN v ELSE Append(v, l[i])
  OBVIOUS
<1> HIDE DEF step, V
<1>5. PICK f \in [0 .. n -> V] : Iterates(f, <<>>, n, step)
  BY <1>1, <1>2, <1>3, Recursion
<1>6. f = Body(f)
  <2>1. ASSUME NEW i \in 1 .. n
        PROVE  f[i] = IF Gone(i) THEN f[i - 1] ELSE Append(f[i - 1], l[i])
    <3>1. i - 1 \in 0 .. n /\ f[i - 1] \in V
      BY <1>1
    <3>2. f[i] = step[i][f[i - 1]]
      BY <1>5 DEF Iterates
    <3>3. QED
      BY <1>4, <3>1, <3>2
  <2>2. f[0] = <<>>
    BY <1>5 DEF Iterates
  <2>3. DOMAIN f = 0 .. n /\ f = [i \in 0 .. n |-> f[i]]
    OBVIOUS
  <2>4. ASSUME NEW i \in 0 .. n
        PROVE  f[i] = IF i = 0 THEN <<>> ELSE IF Gone(i) THEN f[i - 1] ELSE Append(f[i - 1], l[i])
    <3>1. CASE i = 0
      BY <2>2, <3>1
    <3>2. CASE i # 0
      <4>1. i \in 1 .. n
        BY <1>1, <3>2
      <4>2. QED
        BY <2>1, <3>2, <4>1
    <3>3. QED
      BY <3>1, <3>2
  <2>5. QED
    BY <2>3, <2>4
<1> DEFINE R == CHOOSE g : g = Body(g)
<1>7. R = Body(R)
  <2> HIDE DEF Body
  <2>1. QED
    BY <1>6
<1>8. Without(c, urls) = R[n]
  BY DEF Without, l, n, Gone
<1> HIDE DEF R
<1>9. /\ R[0] = <<>>
      /\ \A i \in 1 .. n : R[i] = IF Gone(i) THEN R[i - 1] ELSE Append(R[i - 1], l[i])
  <2>1. \A i \in 0 .. n : Body(R)[i] = IF i = 0 THEN <<>>
          ELSE IF Gone(i) THEN R[i - 1] ELSE Append(R[i - 1], l[i])
    OBVIOUS
  <2> HIDE DEF Body
  <2>2. \A i \in 0 .. n : R[i] = IF i = 0 THEN <<>>
          ELSE IF Gone(i) THEN R[i - 1] ELSE Append(R[i - 1], l[i])
    BY <1>7, <2>1
  <2>3. QED
    BY <1>1, <2>2
<1> DEFINE S == {i \in Nat : i <= n => R[i] \in V}
<1>10. \A i \in Nat : i \in S
  <2>1. 0 \in S
    BY <1>2, <1>9
  <2>2. ASSUME NEW i \in Nat, i \in S  PROVE i + 1 \in S
    <3>1. SUFFICES ASSUME i + 1 <= n PROVE R[i + 1] \in V
      OBVIOUS
    <3>2. i + 1 \in 1 .. n /\ (i + 1) - 1 = i /\ R[i] \in V
      BY <1>1, <2>2, <3>1
    <3>3. Append(R[i], l[i + 1]) \in V
      BY <1>1, <3>2 DEF V
    <3>4. QED
      BY <1>9, <3>2, <3>3
  <2> HIDE DEF S
  <2>3. QED
    BY <2>1, <2>2, Induction
<1>11. QED
  BY <1>1, <1>8, <1>10 DEF V

(* The first list with a URL is there.                                     *)
LEMMA FirstIsThere ==
  ASSUME NEW c, c.lists \in Seq(FilterList), NEW u, Has(c, u)
  PROVE  First(c, u) \in DOMAIN c.lists
<1> DEFINE T == {i \in DOMAIN c.lists : c.lists[i].url = u}
<1>1. T \subseteq Nat /\ T # {}
  BY DEF Has
<1> HIDE DEF T
<1>2. PICK i \in T : \A j \in T : ~(j < i)
  BY <1>1, Least
<1>3. i \in DOMAIN c.lists /\ c.lists[i].url = u /\ \A j \in 1 .. i - 1 : c.lists[j].url # u
  BY <1>2 DEF T
<1>4. QED
  BY <1>3 DEF First

(* The last of some lists is there, and tells whether it is enabled.       *)
LEMMA EnabledIsBoolean ==
  ASSUME NEW c, c.lists \in Seq(FilterList), NEW urls, NEW default \in BOOLEAN
  PROVE  EnabledOf(c, urls, default) \in BOOLEAN
<1> DEFINE l == c.lists
           n == Len(l)
           T == {m \in 0 .. n - 1 : l[n - m].url \in urls}
           IsLast(i) == l[i].url \in urls /\ \A j \in i + 1 .. n : l[j].url \notin urls
<1>1. n \in Nat /\ DOMAIN l = 1 .. n /\ \A i \in 1 .. n : l[i].enabled \in BOOLEAN
  <2>1. n \in Nat /\ DOMAIN l = 1 .. n /\ \A i \in 1 .. n : l[i] \in FilterList
    OBVIOUS
  <2>2. \A x \in FilterList : x.enabled \in BOOLEAN
    BY DEF FilterList
  <2>3. QED
    BY <2>1, <2>2
<1>2. SUFFICES ASSUME \E x \in ToSet(l) : x.url \in urls
               PROVE  l[CHOOSE i \in DOMAIN l : IsLast(i)].enabled \in BOOLEAN
  BY DEF EnabledOf
<1>3. \E i \in 1 .. n : IsLast(i)
  <2>1. PICK k \in 1 .. n : l[k].url \in urls
    BY <1>1, <1>2 DEF ToSet
  <2>2. n - k \in T /\ T \subseteq Nat
    BY <1>1, <2>1
  <2> HIDE DEF T
  <2>3. PICK m \in T : \A j \in T : ~(j < m)
    BY <2>2, Least
  <2>4. n - m \in 1 .. n /\ l[n - m].url \in urls
    BY <1>1, <2>3 DEF T
  <2>5. ASSUME NEW j \in n - m + 1 .. n  PROVE l[j].url \notin urls
    <3>1. n - j \in Nat /\ n - j < m /\ n - (n - j) = j /\ n - j \in 0 .. n - 1
      BY <1>1, <2>3 DEF T
    <3>2. n - j \notin T
      BY <2>3, <3>1
    <3>3. QED
      BY <3>1, <3>2 DEF T
  <2>6. QED
    BY <2>4, <2>5
<1> HIDE DEF IsLast, n, l
<1>4. (CHOOSE i \in DOMAIN l : IsLast(i)) \in 1 .. n
  BY <1>1, <1>3
<1>5. QED
  BY <1>1, <1>4

-----------------------------------------------------------------------------
(* The types of the configuration                                          *)

(* A configuration with other lists, or another value of a field, is one.  *)
LEMMA Fields ==
  ASSUME NEW c \in TypeConfig
  PROVE  /\ c.lists \in Seq(FilterList)
         /\ \A l \in Seq(FilterList) : [c EXCEPT !.lists = l] \in TypeConfig
         /\ \A p \in {"automatic", "prompt", "disabled"} : [c EXCEPT !.policy = p] \in TypeConfig
         /\ \A r \in {"migrated", "new"} : [c EXCEPT !.rules = r] \in TypeConfig
         /\ [c EXCEPT !.storage = "disk"] \in TypeConfig
BY DEF TypeConfig

(* The URLs that the program knows give lists.                             *)
LEMMA KnownLists ==
  ASSUME NEW u \in Url, NEW on \in BOOLEAN
  PROVE  /\ List(u, on) \in FilterList
         /\ [List(u, on) EXCEPT !.trusted = TRUE] \in FilterList
BY DEF List, FilterList

(* A list added to a configuration leaves one.                             *)
LEMMA AddTypes ==
  ASSUME NEW c \in TypeConfig, NEW l \in FilterList
  PROVE  AddFilterList(c, l) \in TypeConfig
<1> c.lists \in Seq(FilterList)
  BY Fields
<1>1. Append(c.lists, l) \in Seq(FilterList)
  OBVIOUS
<1>2. AddFilterList(c, l) = [c EXCEPT !.lists = Append(c.lists, l)]
  BY DEF AddFilterList
<1>3. QED
  BY <1>1, <1>2, Fields

(* Lists change one by one, and one list among others.                     *)
LEMMA EachTypes ==
  ASSUME NEW c \in TypeConfig, NEW f, \A i \in DOMAIN c.lists : f[i] \in FilterList
  PROVE  [c EXCEPT !.lists = [i \in DOMAIN c.lists |-> f[i]]] \in TypeConfig
<1>1. [i \in DOMAIN c.lists |-> f[i]] \in Seq(FilterList)
  BY Fields
<1>2. QED
  BY <1>1, Fields

(* Lists that move stay lists, if they move to URLs the program knows.     *)
LEMMA MovedTypes ==
  ASSUME NEW c \in TypeConfig, NEW to, \A u \in DOMAIN to : to[u] \in Url
  PROVE  Moved(c, to) \in TypeConfig
<1> DEFINE f == [i \in DOMAIN c.lists |->
                   IF c.lists[i].url \in DOMAIN to THEN [c.lists[i] EXCEPT !.url = to[c.lists[i].url]]
                                                   ELSE c.lists[i]]
<1>1. ASSUME NEW l \in FilterList, NEW u \in Url  PROVE [l EXCEPT !.url = u] \in FilterList
  BY DEF FilterList
<1>0. c.lists \in Seq(FilterList)
  BY Fields
<1>2. \A i \in DOMAIN c.lists : c.lists[i] \in FilterList
  BY <1>0
<1>3. \A i \in DOMAIN c.lists : f[i] \in FilterList
  BY <1>1, <1>2
<1>4. Moved(c, to) = [c EXCEPT !.lists = [i \in DOMAIN c.lists |-> f[i]]]
  BY DEF Moved, EachList
<1> HIDE DEF f
<1>5. QED
  BY <1>3, <1>4, EachTypes

(* Switching a list on or off, and trusting one, leave lists.              *)
LEMMA FieldTypes ==
  ASSUME NEW l \in FilterList
  PROVE  /\ \A on \in BOOLEAN : [l EXCEPT !.enabled = on] \in FilterList
         /\ [l EXCEPT !.trusted = TRUE] \in FilterList
         /\ \A u \in Url : [l EXCEPT !.url = u] \in FilterList
BY DEF FilterList

(* A configuration stays one when a list is switched on or off.            *)
LEMMA ToggleTypes ==
  ASSUME NEW c \in TypeConfig, NEW u, NEW on \in BOOLEAN
  PROVE  ToggleFilterList(c, u, on) \in TypeConfig
<1>1. CASE ~Has(c, u)
  BY <1>1 DEF ToggleFilterList
<1>2. CASE Has(c, u)
  <2>1. c.lists \in Seq(FilterList)
    BY Fields
  <2> DEFINE i == First(c, u)
             l == [c.lists[i] EXCEPT !.enabled = on]
  <2>2. i \in DOMAIN c.lists
    BY <1>2, <2>1, FirstIsThere
  <2> HIDE DEF i
  <2>3. l \in FilterList
    <3>1. c.lists[i] \in FilterList
      BY <2>1, <2>2
    <3>2. QED
      BY <3>1, FieldTypes
  <2>4. ToggleFilterList(c, u, on) = [c EXCEPT !.lists = [c.lists EXCEPT ![i] = l]]
    BY <1>2 DEF ToggleFilterList, i
  <2> HIDE DEF l
  <2>5. [c.lists EXCEPT ![i] = l] \in Seq(FilterList)
    BY <2>1, <2>2, <2>3
  <2>6. QED
    BY <2>4, <2>5, Fields
<1>3. QED
  BY <1>1, <1>2

(* Trusting a list and moving another leave a configuration.               *)
LEMMA V070Types == ASSUME NEW c \in TypeConfig  PROVE V070(c) \in TypeConfig
<1> DEFINE f == [i \in DOMAIN c.lists |->
                   IF c.lists[i].url = "base" THEN [c.lists[i] EXCEPT !.trusted = TRUE] ELSE c.lists[i]]
           d == [c EXCEPT !.lists = [i \in DOMAIN c.lists |-> f[i]]]
           to == [u \in {"easy/old"} |-> "easy"]
<1>1. c.lists \in Seq(FilterList)
  BY Fields
<1>2. \A i \in DOMAIN c.lists : f[i] \in FilterList
  BY <1>1, FieldTypes
<1>3. V070(c) = Moved(d, to)
  BY DEF V070, EachList
<1> HIDE DEF f
<1>4. d \in TypeConfig
  BY <1>2, EachTypes
<1>5. \A u \in DOMAIN to : to[u] \in Url
  BY DEF Url
<1> HIDE DEF d, to
<1>6. QED
  BY <1>3, <1>4, <1>5, MovedTypes

(* The Zen list first and Shorts after YouTube: both are lists, in places. *)
LEMMA V0190Types == ASSUME NEW c \in TypeConfig  PROVE V0190(c) \in TypeConfig
<1> DEFINE zen == {"zen/raw", "zen/ZenPrivacy"}
           shorts == List("shorts/ZenPrivacy", EnabledOf(c, {"shorts/ZenPrivacy"}, FALSE))
           first == List("zen/ZenPrivacy", EnabledOf(c, zen, TRUE))
           left == Without(c, zen \cup {"shorts/ZenPrivacy"})
           rest == <<first>> \o left
           d == [c EXCEPT !.lists = rest]
           at == IF Has(d, "yt/ZenPrivacy") THEN First(d, "yt/ZenPrivacy") + 1 ELSE Len(rest) + 1
<1>1. c.lists \in Seq(FilterList)
  BY Fields
<1>2. V0190(c) = [c EXCEPT !.lists = InsertAt(rest, at, shorts)]
  BY DEF V0190
<1>3. shorts \in FilterList /\ first \in FilterList
  <2>1. /\ EnabledOf(c, {"shorts/ZenPrivacy"}, FALSE) \in BOOLEAN
        /\ EnabledOf(c, zen, TRUE) \in BOOLEAN
    BY <1>1, EnabledIsBoolean
  <2>2. "shorts/ZenPrivacy" \in Url /\ "zen/ZenPrivacy" \in Url
    BY DEF Url
  <2>3. QED
    BY <2>1, <2>2, KnownLists
<1>4. left \in Seq(FilterList)
  BY <1>1, WithoutLists
<1> HIDE DEF shorts, first, left
<1>5. rest \in Seq(FilterList)
  BY <1>3, <1>4
<1> HIDE DEF rest
<1>6. d \in TypeConfig /\ d.lists = rest
  BY <1>5, Fields DEF TypeConfig
<1> HIDE DEF d
<1>7. at \in 1 .. Len(rest) + 1
  <2>1. Has(d, "yt/ZenPrivacy") => First(d, "yt/ZenPrivacy") \in 1 .. Len(rest)
    BY <1>5, <1>6, FirstIsThere
  <2>2. Len(rest) \in Nat
    BY <1>5
  <2>3. QED
    BY <2>1, <2>2
<1> HIDE DEF at
<1>8. InsertAt(rest, at, shorts) \in Seq(FilterList)
  <2>1. /\ SubSeq(rest, 1, at - 1) \in Seq(FilterList)
        /\ SubSeq(rest, at, Len(rest)) \in Seq(FilterList)
        /\ <<shorts>> \in Seq(FilterList)
    BY <1>3, <1>5, <1>7
  <2>2. QED
    BY <2>1 DEF InsertAt
<1>9. QED
  BY <1>2, <1>8, Fields

(* A list that becomes the build stays one, and so do those that are left. *)
LEMMA V0270Types == ASSUME NEW c \in TypeConfig  PROVE V0270(c) \in TypeConfig
<1>1. c.lists \in Seq(FilterList)
  BY Fields
<1>2. CASE Has(c, "base/build")
  <2>1. Without(c, {"base"}) \in Seq(FilterList)
    BY <1>1, WithoutLists
  <2>2. QED
    BY <1>2, <2>1, Fields DEF V0270
<1>3. CASE ~Has(c, "base/build") /\ Has(c, "base")
  <2> DEFINE i == First(c, "base")
             l == [c.lists[i] EXCEPT !.url = "base/build"]
             moved == [c EXCEPT !.lists[First(c, "base")].url = "base/build"]
  <2>1. i \in DOMAIN c.lists
    BY <1>1, <1>3, FirstIsThere
  <2>2. moved = [c EXCEPT !.lists = [c.lists EXCEPT ![i] = l]]
    OBVIOUS
  <2>3. V0270(c) = [c EXCEPT !.lists = Without(moved, {"base"})]
    BY <1>3 DEF V0270
  <2> HIDE DEF i, moved
  <2>4. l \in FilterList
    <3>1. c.lists[i] \in FilterList /\ "base/build" \in Url
      BY <1>1, <2>1 DEF Url
    <3>2. QED
      BY <3>1, FieldTypes
  <2> HIDE DEF l
  <2>5. moved.lists \in Seq(FilterList)
    <3>1. [c.lists EXCEPT ![i] = l] \in Seq(FilterList)
      BY <1>1, <2>1, <2>4
    <3>2. moved.lists = [c.lists EXCEPT ![i] = l]
      BY <2>2 DEF TypeConfig
    <3>3. QED
      BY <3>1, <3>2
  <2>6. Without(moved, {"base"}) \in Seq(FilterList)
    BY <2>5, WithoutLists
  <2>7. QED
    BY <2>3, <2>6, Fields
<1>4. CASE ~Has(c, "base/build") /\ ~Has(c, "base")
  BY <1>4 DEF V0270
<1>5. QED
  BY <1>2, <1>3, <1>4

(* Hence every legacy migration.                                           *)
LEMMA MigratedTypes ==
  ASSUME NEW i \in 1 .. Len(Versions), NEW c \in TypeConfig
  PROVE  Migrated(Versions[i], c) \in TypeConfig
<1> DEFINE v == Versions[i]
<1>1. v \in {"v0.3.0", "v0.6.0", "v0.7.0", "v0.9.0", "v0.10.0", "v0.13.0", "v0.16.0",
             "v0.18.0", "v0.19.0", "v0.21.0", "v0.22.0", "v0.26.1", "v0.27.0"}
  BY DEF Versions
<1>2. /\ V030(c) \in TypeConfig /\ V0100(c) \in TypeConfig /\ V0180(c) \in TypeConfig
      /\ V060(c) \in TypeConfig
  <2>1. {"shortener", "zen/raw", "yt/ZenPrivacy"} \subseteq Url
    BY DEF Url
  <2>2. /\ List("shortener", TRUE) \in FilterList /\ List("zen/raw", TRUE) \in FilterList
        /\ List("yt/ZenPrivacy", FALSE) \in FilterList
    BY <2>1, KnownLists
  <2>3. QED
    BY <2>2, AddTypes, ToggleTypes DEF V030, V0100, V0180, V060
<1>3. /\ V090(c) \in TypeConfig /\ V0130(c) \in TypeConfig /\ V0160(c) \in TypeConfig
      /\ V0261(c) \in TypeConfig
  BY Fields DEF V090, V0130, V0160, V0261
<1>4. V0210(c) \in TypeConfig
  <2> DEFINE to == [u \in {"zen/ZenPrivacy", "yt/ZenPrivacy", "shorts/ZenPrivacy"} |->
                      CASE u = "zen/ZenPrivacy" -> "zen/irbis" [] u = "yt/ZenPrivacy" -> "yt/irbis"
                        [] OTHER -> "shorts/irbis"]
  <2>1. \A u \in DOMAIN to : to[u] \in Url
    BY DEF Url
  <2>2. V0210(c) = Moved(c, to)
    BY DEF V0210
  <2> HIDE DEF to
  <2>3. QED
    BY <2>1, <2>2, MovedTypes
<1>5. V0220(c) \in TypeConfig
  <2>1. Without(c, {"polish"}) \in Seq(FilterList)
    BY Fields, WithoutLists
  <2>2. QED
    BY <2>1, Fields DEF V0220
<1> HIDE DEF v
<1>6. Migrated(v, c) \in TypeConfig
  BY <1>1, <1>2, <1>3, <1>4, <1>5, V070Types, V0190Types, V0270Types DEF Migrated
<1>7. QED
  BY <1>6 DEF v

(* So does each change of the user's.                                      *)
LEMMA EditedTypes ==
  ASSUME NEW c \in TypeConfig, NEW d \in Edited(c)
  PROVE  d \in TypeConfig
<1>1. Without(c, {"zen/irbis"}) \in Seq(FilterList)
  BY Fields, WithoutLists
<1>2. List("zen/irbis", TRUE) \in FilterList
  BY KnownLists DEF Url
<1>3. AddFilterList(c, List("zen/irbis", TRUE)) \in TypeConfig
  BY <1>2, AddTypes
<1>4. QED
  BY <1>1, <1>3, Fields DEF Edited

(* The default configuration is one.                                       *)
LEMMA SixLists ==
  ASSUME NEW a \in FilterList, NEW b \in FilterList, NEW c \in FilterList, NEW d \in FilterList,
         NEW e \in FilterList, NEW f \in FilterList
  PROVE  <<a, b, c, d, e, f>> \in Seq(FilterList)
<1>1. <<a, b, c>> \in Seq(FilterList) /\ <<d, e, f>> \in Seq(FilterList)
  OBVIOUS
<1>2. <<a, b, c, d, e, f>> = <<a, b, c>> \o <<d, e, f>>
  OBVIOUS
<1>3. QED
  BY <1>1, <1>2

(* Its six lists have known URLs.                                          *)
LEMMA DefaultTypes == Default \in TypeConfig
<1>1. {"zen/irbis", "easy", "base/build", "shortener", "yt/irbis", "shorts/irbis"} \subseteq Url
  BY DEF Url
<1>2. <<List("zen/irbis", TRUE), List("easy", TRUE),
        [List("base/build", TRUE) EXCEPT !.trusted = TRUE], List("shortener", TRUE),
        List("yt/irbis", FALSE), List("shorts/irbis", FALSE)>> \in Seq(FilterList)
  <2>1. /\ List("zen/irbis", TRUE) \in FilterList /\ List("easy", TRUE) \in FilterList
        /\ [List("base/build", TRUE) EXCEPT !.trusted = TRUE] \in FilterList
        /\ List("shortener", TRUE) \in FilterList /\ List("yt/irbis", FALSE) \in FilterList
        /\ List("shorts/irbis", FALSE) \in FilterList
    BY <1>1, KnownLists
  <2>2. QED
    BY <2>1, SixLists
<1>3. QED
  BY <1>2 DEF Default, TypeConfig

-----------------------------------------------------------------------------
(* The types                                                               *)

Files == {Missing, Torn} \cup {Whole(c) : c \in TypeConfig}

DataTypes == memory \in TypeConfig /\ file \in Files /\ recorded \in Counts

UpdaterTypes ==
  /\ exec = {} \/ \E b \in Builds : exec = {b}
  /\ staging \subseteq [build : Builds, whole : BOOLEAN] /\ path \in {"executable", "backup"}
  /\ updater \in {"idle", "verified", "staging", "staged", "moved", "rollback", "installed",
                  "failed", "finished", "done"}
  /\ updater = "staging" => Staged(FALSE) \in staging
  /\ updater \in {"staged", "moved", "rollback"} => Staged(TRUE) \in staging

(* What is read from a whole file is a configuration.                      *)
LEMMA FileFacts ==
  ASSUME NEW f \in Files, f.state = "whole"
  PROVE  f.data \in TypeConfig
BY Contents DEF Files

(* The configuration in memory and the file keep their type.               *)
LEMMA DataLaunch ==
  ASSUME DataTypes, NEW b, Launch(b)
  PROVE  DataTypes'
<1>1. memory' \in TypeConfig /\ file' \in Files
  BY FileFacts, DefaultTypes DEF Launch, DataTypes, Files
<1>2. QED
  BY <1>1 DEF DataTypes, Launch

(* Neither migrations, saves nor what happens outside undo it.             *)
LEMMA DataStep ==
  ASSUME CInv, DataTypes, ConfigNext
  PROVE  DataTypes'
<1>1. ASSUME NEW c \in TypeConfig, NEW A, Write(file, c, A)
      PROVE  file' \in Files
  BY <1>1 DEF Write, DataTypes, Files
<1>2. CASE LegacyMigration
  <2> DEFINE d == Migrated(Versions[pos], memory)
  <2>1. d \in TypeConfig
    BY <1>2, MigratedTypes DEF LegacyMigration, DataTypes
  <2> HIDE DEF d
  <2>2. \/ UNCHANGED <<memory, recorded, file>>
        \/ Write(file, d, memory' = d /\ pos' = pos + 1 /\ UNCHANGED <<run, version, firstLaunch, recorded>>)
    BY <1>2 DEF LegacyMigration, d
  <2>3. QED
    BY <2>1, <2>2 DEF DataTypes, Files, Write, Down
<1>3. CASE Update
  <2>1. PICK c \in Edited(memory) \ {memory} :
          Write(file, c, memory' = c /\ UNCHANGED <<run, version, firstLaunch, pos, recorded>>)
    BY <1>3 DEF Update
  <2>2. c \in TypeConfig
    BY <2>1, EditedTypes DEF DataTypes
  <2>3. QED
    BY <2>1, <2>2 DEF DataTypes, Files, Write, Down
<1>4. CASE StartMigrations
  <2>1. recorded' \in {recorded, Missing, applied} /\ UNCHANGED <<memory, file>>
    BY <1>4 DEF StartMigrations
  <2>2. QED
    BY <2>1 DEF DataTypes, CInv, ControlOK, Counts
<1>5. CASE RemoveFiles
  BY <1>5 DEF RemoveFiles, DataTypes, Files
<1>6. CASE StartLegacy \/ RecordLegacy \/ Migration \/ RecordMigrations \/ Crash \/ RunOldRelease
  <2>1. UNCHANGED <<memory, file, recorded>>
    BY <1>6
    DEF StartLegacy, RecordLegacy, Migration, RecordMigrations, Crash, RunOldRelease, Write, Down,
        configFiles
  <2>2. QED
    BY <2>1 DEF DataTypes
<1>7. QED
  BY <1>2, <1>3, <1>4, <1>5, <1>6 DEF ConfigNext, Startup

(* The updater moves what it has staged, and keeps one build in place.     *)
LEMMA UpdaterStep ==
  ASSUME CInv, UInv, UpdaterTypes, Updates
  PROVE  UpdaterTypes'
<1>1. version \in Builds /\ target \in Builds /\ \A w \in BOOLEAN : Staged(w) \in [build : Builds, whole : BOOLEAN]
  BY DEF CInv, ControlOK, UInv, BuildsOK, Staged
<1>2. Staged(TRUE) # Staged(FALSE)
  <2>1. Staged(TRUE).whole = TRUE /\ Staged(FALSE).whole = FALSE
    BY DEF Staged
  <2>2. QED
    BY <2>1
<1>3. CASE CheckForUpdates
  BY <1>3 DEF CheckForUpdates, At, UpdaterTypes
<1>4. ~CheckForUpdates => Staged(TRUE)' = Staged(TRUE) /\ Staged(FALSE)' = Staged(FALSE)
  BY DEF Updates, MakeStaging, Unarchive, MoveOld, MoveNew, RollBack, RemoveBackup, RemoveStaging,
         ConfigKept, Staged
<1>5. CASE MakeStaging
  <2>1. /\ \/ updater' = "staging" /\ staging' \in {{Staged(FALSE)}, staging \cup {Staged(FALSE)}}
           \/ updater' = "idle" /\ staging' = staging
        /\ path' \in {"executable", "backup"} /\ exec' = exec /\ ~CheckForUpdates
    BY <1>5 DEF MakeStaging, CheckForUpdates, Updating, At
  <2>2. QED
    BY <1>1, <1>4, <2>1 DEF UpdaterTypes
<1>6. CASE Unarchive
  <2>1. /\ \/ updater' = "staged" /\ staging' = (staging \ {Staged(FALSE)}) \cup {Staged(TRUE)}
           \/ updater' = "failed" /\ staging' = staging
        /\ UNCHANGED <<path, exec>> /\ ~CheckForUpdates
    BY <1>6 DEF Unarchive, CheckForUpdates, Updating, At, ConfigKept
  <2>2. QED
    BY <1>1, <1>4, <2>1 DEF UpdaterTypes
<1>7. CASE MoveOld
  <2>1. /\ updater = "staged" /\ updater' \in {"moved", "failed"} /\ exec' \in {exec, {}}
        /\ UNCHANGED <<path, staging>> /\ ~CheckForUpdates
    BY <1>7 DEF MoveOld, CheckForUpdates, Updating, At, ConfigKept
  <2>2. QED
    BY <1>4, <2>1 DEF UpdaterTypes
<1>8. CASE MoveNew
  <2>1. /\ updater = "moved" /\ UNCHANGED path /\ ~CheckForUpdates
        /\ \/ /\ updater' = "installed" /\ staging' \subseteq staging
              /\ exec' \in {exec, {target}}
           \/ updater' = "rollback" /\ UNCHANGED <<exec, staging>>
    BY <1>8 DEF MoveNew, MovedIn, CheckForUpdates, Updating, At, ConfigKept
  <2>2. QED
    BY <1>1, <1>4, <2>1 DEF UpdaterTypes
<1>9. CASE RollBack \/ RemoveBackup \/ RemoveStaging
  BY <1>1, <1>4, <1>9
  DEF RollBack, RemoveBackup, RemoveStaging, Updating, At, ConfigKept, UpdaterTypes
<1>10. QED
  BY <1>3, <1>5, <1>6, <1>7, <1>8, <1>9 DEF Updates

(* The rest leaves the updater alone or ends it.                           *)
LEMMA BesideStep ==
  ASSUME UpdaterTypes, Beside
  PROVE  UpdaterTypes'
<1>1. Staged(TRUE)' = Staged(TRUE) /\ Staged(FALSE)' = Staged(FALSE)
  BY DEF Beside, Staged
<1>2. QED
  BY <1>1 DEF Beside, UpdaterTypes

(* An installation by hand puts one build in place.                        *)
LEMMA InstallStep ==
  ASSUME UInv, UpdaterTypes, Install
  PROVE  UpdaterTypes'
<1>1. Staged(TRUE)' = Staged(TRUE) /\ Staged(FALSE)' = Staged(FALSE)
  BY DEF Install, Staged
<1>2. \/ exec' = exec
      \/ \E b \in Builds : exec' = {b}
  BY DEF Install, UInv, BuildsOK
<1>3. UNCHANGED <<staging, updater, path>>
  BY DEF Install
<1>4. QED
  BY <1>1, <1>2, <1>3 DEF UpdaterTypes

(* Every step keeps the types.                                             *)
LEMMA StepTypes == IInv /\ DataTypes /\ UpdaterTypes /\ [Next]_vars => DataTypes' /\ UpdaterTypes'
<1>1. SUFFICES ASSUME CInv, UInv, DataTypes, UpdaterTypes, [Next]_vars
               PROVE  DataTypes' /\ UpdaterTypes'
  BY DEF IInv
<1>2. ASSUME NEW b \in exec, Launch(b), Beside  PROVE DataTypes' /\ UpdaterTypes'
  BY <1>1, <1>2, DataLaunch, BesideStep
<1>3. CASE ConfigNext /\ Beside
  BY <1>1, <1>3, DataStep, BesideStep
<1>4. CASE Updates \/ Install
  <2>1. UNCHANGED <<memory, file, recorded>>
    BY <1>4
    DEF Updates, CheckForUpdates, MakeStaging, Unarchive, MoveOld, MoveNew, RollBack,
        RemoveBackup, RemoveStaging, Install, ConfigKept, configVars, configFiles
  <2>2. DataTypes'
    BY <1>1, <2>1 DEF DataTypes
  <2>3. QED
    BY <1>1, <1>4, <2>2, UpdaterStep, InstallStep
<1>5. CASE UNCHANGED vars
  BY <1>1, <1>5 DEF vars, configVars, updateVars, DataTypes, UpdaterTypes, Staged
<1>6. QED
  BY <1>1, <1>2, <1>3, <1>4, <1>5 DEF Next

(* They hold of a first start, and of what an old release left.            *)
LEMMA InitTypes == Init => DataTypes /\ UpdaterTypes
<1>1. SUFFICES ASSUME Init  PROVE DataTypes /\ UpdaterTypes
  OBVIOUS
<1>2. \A n \in OldReleases : Release(n) \in TypeConfig
  BY Numbers, ReleaseAssumption
<1>3. DataTypes
  BY <1>1, <1>2, DefaultTypes DEF Init, ConfigInit, DataTypes, Files, Counts
<1>4. UpdaterTypes
  BY <1>1 DEF Init, ConfigInit, UpdaterTypes
<1>5. QED
  BY <1>3, <1>4

(* Every variable has its type: a configuration stays one through every    *)
(* migration, save and change, whichever releases and builds it comes      *)
(* through; and what the updater is about to move in is staged.            *)
THEOREM TypeCorrect == Spec => []TypeOK
<1>1. IInv /\ DataTypes /\ UpdaterTypes => TypeOK
  <2>1. SUFFICES ASSUME CInv, UInv, DataTypes, UpdaterTypes  PROVE TypeOK
    BY DEF IInv
  <2>2. \A f \in Counts : f \in {Missing, Torn} \/ (f.state = "whole" /\ f.data \in Nat)
    BY Contents DEF Counts
  <2>3. \A f \in {last, applied, recorded} : f \in {Missing, Torn} \/ (f.state = "whole" /\ f.data \in Nat)
    BY <2>1, <2>2 DEF CInv, ControlOK, DataTypes
  <2>4. file \in {Missing, Torn} \/ (file.state = "whole" /\ file.data \in TypeConfig)
    BY <2>1, Contents DEF DataTypes, Files
  <2>5. exec \subseteq Builds /\ Cardinality(exec) <= 1
    <3>1. CASE exec = {}
      BY <3>1, FS_EmptySet
    <3>2. ASSUME NEW b \in Builds, exec = {b}  PROVE exec \subseteq Builds /\ Cardinality(exec) <= 1
      BY <3>2, FS_Singleton
    <3>3. QED
      BY <2>1, <3>1, <3>2 DEF UpdaterTypes
  <2>6. /\ run \in {"down", "legacy", "migrate", "up"} /\ version \in Builds /\ firstLaunch \in BOOLEAN
        /\ memory \in TypeConfig /\ pos \in Nat /\ counted \in Nat /\ settled \subseteq Nat
    BY <2>1 DEF CInv, ControlOK, DataTypes
  <2>7. /\ backups \subseteq Builds /\ target \in Builds
        /\ staging \subseteq [build : Builds, whole : BOOLEAN]
        /\ updater \in {"idle", "verified", "staging", "staged", "moved", "rollback", "installed",
                        "failed", "finished", "done"}
        /\ path \in {"executable", "backup"}
        /\ updater = "staging" => Staged(FALSE) \in staging
        /\ updater \in {"staged", "moved", "rollback"} => Staged(TRUE) \in staging
    BY <2>1 DEF UInv, BuildsOK, UpdaterTypes
  <2>8. QED
    BY <2>3, <2>4, <2>5, <2>6, <2>7, Zenon DEF TypeOK
<1>2. QED
  BY <1>1, InitTypes, StepTypes, Invariant, PTL DEF Spec

=============================================================================
