-------------------------------- MODULE Config --------------------------------
(***************************************************************************)
(* The configuration (internal/config): the copy in memory and the file it *)
(* is saved to, in place, by every update; the first launch; the legacy    *)
(* migrations with their last_migration file and the counted migrations    *)
(* with their applied_migrations file; and launches of builds that know a  *)
(* different number of migrations.  Any file operation may fail, and the   *)
(* process may die between two of them or halfway through a write.         *)
(***************************************************************************)
EXTENDS Naturals, Sequences, FiniteSets, SequencesExt

CONSTANTS
  Builds,      \* the builds of the app; build b has the migrations 1..b
  OldReleases, \* numbers of legacy migrations that older releases had
  MaxFaults,   \* bound on failing or interrupted operations and returns to old releases
  MaxEdits     \* bound on the user's changes

ASSUME ConfigAssumption ==
  Builds \subseteq Nat /\ Builds # {} /\ MaxFaults \in Nat /\ MaxEdits \in Nat

VARIABLES
  run,         \* where the process is in its start, "up", or "down"
  version,     \* config.Version: the build that runs
  firstLaunch, \* Config.firstLaunch
  memory,      \* the Config of the process
  pos,         \* the migration that runs next
  recorded,    \* the content of applied_migrations that this launch read
  file,        \* config.json
  last,        \* last_migration
  applied,     \* applied_migrations
  counted,     \* history: 1 + the largest count applied_migrations held, or 0; when
               \* that could not be read any more, 1 + what was written in its place
  settled,     \* history: migrations that ran or that their rules count as applied
  faults, edits

configFiles == <<file, last, applied>>
configVars == <<run, version, firstLaunch, memory, pos, recorded, file, last, applied, counted, settled, faults, edits>>

\* A file is missing, holds what one write left, or was emptied by a write that
\* did not finish.
Missing == [state |-> "missing"]
Torn == [state |-> "torn"]
Whole(x) == [state |-> "whole", data |-> x]

-----------------------------------------------------------------------------
(* The data that migrations and users change: the filter lists, of which   *)
(* one stands for each group that the same migrations treat alike, the     *)
(* update policy, the rules and the key storage.                           *)

\* Several locations of what is the same list over time: the AdGuard list and
\* its build, Zen's ads list and no-doomscroll's YouTube and Shorts lists.
Url == {"shortener", "easy", "easy/old", "base", "base/build", "polish", "zen/raw",
        "zen/ZenPrivacy", "zen/irbis", "yt/ZenPrivacy", "yt/irbis", "shorts/ZenPrivacy", "shorts/irbis"}
List(u, on) == [url |-> u, enabled |-> on, trusted |-> FALSE]
Has(c, u) == \E i \in DOMAIN c.lists : c.lists[i].url = u
Without(c, urls) ==
  LET kept[i \in 0 .. Len(c.lists)] ==
        IF i = 0 THEN <<>>
        ELSE IF c.lists[i].url \in urls THEN kept[i - 1] ELSE Append(kept[i - 1], c.lists[i])
  IN  kept[Len(c.lists)]
EachList(c, F(_)) == [c EXCEPT !.lists = [i \in DOMAIN c.lists |-> F(c.lists[i])]]
Moved(c, to) ==
  EachList(c, LAMBDA l : IF l.url \in DOMAIN to THEN [l EXCEPT !.url = to[l.url]] ELSE l)
EnabledOf(c, urls, default) ==
  IF \E l \in ToSet(c.lists) : l.url \in urls
    THEN c.lists[CHOOSE i \in DOMAIN c.lists : /\ c.lists[i].url \in urls
                   /\ \A j \in i + 1 .. Len(c.lists) : c.lists[j].url \notin urls].enabled
    ELSE default

\* The first of the lists with this URL.
First(c, u) == CHOOSE i \in DOMAIN c.lists : c.lists[i].url = u /\ \A j \in 1 .. i - 1 : c.lists[j].url # u
ToggleFilterList(c, u, on) ==
  IF Has(c, u) THEN [c EXCEPT !.lists[First(c, u)].enabled = on] ELSE c
AddFilterList(c, l) == [c EXCEPT !.lists = Append(@, l)]

\* default-config.json of this build.
Default ==
  [lists |-> <<List("zen/irbis", TRUE), List("easy", TRUE),
               [List("base/build", TRUE) EXCEPT !.trusted = TRUE], List("shortener", TRUE),
               List("yt/irbis", FALSE), List("shorts/irbis", FALSE)>>,
   policy |-> "automatic", rules |-> "none", storage |-> "disk"]

\* A configuration from before v0.3.0; its rules are in the field MyRules.
Ancient ==
  [lists |-> <<List("easy/old", TRUE), List("base", FALSE), List("polish", TRUE)>>,
   policy |-> "", rules |-> "none", storage |-> ""]

FilterList == [url : Url, enabled : BOOLEAN, trusted : BOOLEAN]
TypeConfig ==
  [lists : Seq(FilterList),
   policy : {"", "automatic", "prompt", "disabled"}, rules : {"none", "migrated", "new"},
   storage : {"", "disk", "hardware"}]

-----------------------------------------------------------------------------
(* The legacy migrations.  Each maps a configuration to the one it saves.  *)
Versions == <<"v0.3.0", "v0.6.0", "v0.7.0", "v0.9.0", "v0.10.0", "v0.13.0", "v0.16.0",
              "v0.18.0", "v0.19.0", "v0.21.0", "v0.22.0", "v0.26.1", "v0.27.0">>

\* AddFilterList refuses a URL that is there.
V030(c) == AddFilterList(c, List("shortener", TRUE))
V060(c) == ToggleFilterList(c, "base", TRUE)
V070(c) ==
  Moved(EachList(c, LAMBDA l : IF l.url = "base" THEN [l EXCEPT !.trusted = TRUE] ELSE l),
        [u \in {"easy/old"} |-> "easy"])
V090(c) == [c EXCEPT !.policy = "prompt"]
V0100(c) == AddFilterList(c, List("zen/raw", TRUE))
V0130(c) == IF c.policy = "prompt" THEN [c EXCEPT !.policy = "automatic"] ELSE c
V0160(c) == [c EXCEPT !.rules = "migrated"]
V0180(c) == AddFilterList(c, List("yt/ZenPrivacy", FALSE))

\* Zen's list first, at its new location; Shorts after YouTube, or last.
V0190(c) ==
  LET zen    == {"zen/raw", "zen/ZenPrivacy"}
      shorts == List("shorts/ZenPrivacy", EnabledOf(c, {"shorts/ZenPrivacy"}, FALSE))
      rest   == <<List("zen/ZenPrivacy", EnabledOf(c, zen, TRUE))>>
                  \o Without(c, zen \cup {"shorts/ZenPrivacy"})
      at     == IF Has([c EXCEPT !.lists = rest], "yt/ZenPrivacy")
                  THEN First([c EXCEPT !.lists = rest], "yt/ZenPrivacy") + 1 ELSE Len(rest) + 1
  IN  [c EXCEPT !.lists = InsertAt(rest, at, shorts)]
V0210(c) ==
  Moved(c, [u \in {"zen/ZenPrivacy", "yt/ZenPrivacy", "shorts/ZenPrivacy"} |->
              CASE u = "zen/ZenPrivacy" -> "zen/irbis" [] u = "yt/ZenPrivacy" -> "yt/irbis"
                [] OTHER -> "shorts/irbis"])
V0220(c) == [c EXCEPT !.lists = Without(c, {"polish"})]
V0261(c) == IF c.storage = "" THEN [c EXCEPT !.storage = "disk"] ELSE c

\* The source list becomes the build, or goes when the build is there already.
V0270(c) ==
  IF Has(c, "base/build") THEN [c EXCEPT !.lists = Without(c, {"base"})]
  ELSE IF ~Has(c, "base") THEN c
  ELSE LET moved == [c EXCEPT !.lists[First(c, "base")].url = "base/build"]
       IN  [c EXCEPT !.lists = Without(moved, {"base"})]

\* A migration whose list is there fails, and saves nothing.
Fails(v, c) ==
  \/ v = "v0.3.0" /\ Has(c, "shortener")
  \/ v = "v0.10.0" /\ Has(c, "zen/raw")
  \/ v = "v0.18.0" /\ Has(c, "yt/ZenPrivacy")
Migrated(v, c) ==
  CASE v = "v0.3.0" -> V030(c) [] v = "v0.6.0" -> V060(c) [] v = "v0.7.0" -> V070(c)
    [] v = "v0.9.0" -> V090(c) [] v = "v0.10.0" -> V0100(c) [] v = "v0.13.0" -> V0130(c)
    [] v = "v0.16.0" -> V0160(c) [] v = "v0.18.0" -> V0180(c) [] v = "v0.19.0" -> V0190(c)
    [] v = "v0.21.0" -> V0210(c) [] v = "v0.22.0" -> V0220(c) [] v = "v0.26.1" -> V0261(c)
    [] v = "v0.27.0" -> V0270(c)

\* What a release that had the first n legacy migrations left behind.
Release(n) == FoldLeft(LAMBDA c, v : IF Fails(v, c) THEN c ELSE Migrated(v, c), Ancient, SubSeq(Versions, 1, n))

\* No release kept its rules where the new ones keep them.
ASSUME ReleaseAssumption ==
  /\ OldReleases \subseteq 0 .. Len(Versions)
  /\ \A n \in 0 .. Len(Versions) : Release(n) \in TypeConfig /\ Release(n).rules # "new"

-----------------------------------------------------------------------------
\* Started for the first time, or updated from a release with n legacy
\* migrations; the last of those kept no applied_migrations either.
ConfigInit ==
  /\ run = "down" /\ version \in Builds /\ firstLaunch = FALSE /\ memory = Default
  /\ pos = 0 /\ recorded = Missing /\ applied = Missing /\ counted = 0 /\ settled = {}
  /\ faults = 0 /\ edits = 0
  /\ \/ file = Missing /\ last = Missing
     \/ \E n \in OldReleases :
          file = Whole(Release(n)) /\ last = IF n = 0 THEN Missing ELSE Whole(n)

Fault == faults < MaxFaults /\ faults' = faults + 1
Down == run' = "down" /\ UNCHANGED <<version, firstLaunch, memory, pos, recorded>>

\* A write of x to the file f: done, failed, or cut short by the end of the
\* process.  Next states what the process does after the first two.
Write(f, x, Next) ==
  \/ f' = Whole(x) /\ UNCHANGED faults /\ Next
  \/ Fault /\ UNCHANGED f /\ Next
  \/ Fault /\ f' = Torn /\ Down

\* config.New, in a process of build b.  It exits when the file cannot be read
\* or parsed, or the default one not written.
Launch(b) ==
  /\ run = "down" /\ version' = b
  /\ \/ /\ file.state = "whole" /\ run' = "legacy" /\ memory' = file.data
        /\ firstLaunch' = FALSE /\ UNCHANGED <<file, faults>>
     \/ /\ file = Missing /\ file' = Whole(Default) /\ run' = "legacy" /\ memory' = Default
        /\ firstLaunch' = TRUE /\ UNCHANGED faults
     \/ file = Missing /\ Fault /\ file' = Torn /\ UNCHANGED <<run, memory, firstLaunch>>
  /\ pos' = 0 /\ UNCHANGED <<recorded, last, applied, counted, settled, edits>>

-----------------------------------------------------------------------------
LegacyFrom_wrong ==
  IF firstLaunch THEN Len(Versions) ELSE IF last.state # "whole" THEN 0 ELSE last.data

\* Where runLegacyMigrations starts.
LegacyFrom ==
  IF firstLaunch \/ applied # Missing THEN Len(Versions) ELSE IF last = Missing THEN 0 ELSE last.data

\* The file cannot be read or parsed: nothing runs and nothing is recorded.
StartLegacy ==
  /\ run = "legacy" /\ pos = 0
  /\ \/ /\ ~firstLaunch /\ applied = Missing /\ last # Missing
        /\ \/ last = Torn /\ UNCHANGED faults
           \/ Fault
        /\ run' = "migrate" /\ UNCHANGED pos
     \/ /\ last # Torn \/ firstLaunch \/ applied # Missing
        /\ pos' = LegacyFrom + 1 /\ UNCHANGED <<run, faults>>
  /\ UNCHANGED <<version, firstLaunch, memory, recorded, file, last, applied, counted, settled, edits>>

\* Whatever becomes of a migration, the next one follows.
LegacyMigration ==
  /\ run = "legacy" /\ pos \in 1 .. Len(Versions)
  /\ LET v == Versions[pos]
     IN  IF Fails(v, memory)
           THEN pos' = pos + 1 /\ UNCHANGED <<run, version, firstLaunch, memory, recorded, file, faults>>
           ELSE Write(file, Migrated(v, memory),
                      /\ memory' = Migrated(v, memory) /\ pos' = pos + 1
                      /\ UNCHANGED <<run, version, firstLaunch, recorded>>)
  /\ UNCHANGED <<last, applied, counted, settled, edits>>

RecordLegacy ==
  /\ run = "legacy" /\ pos > Len(Versions)
  /\ Write(last, Len(Versions),
           run' = "migrate" /\ pos' = 0 /\ UNCHANGED <<version, firstLaunch, memory, recorded>>)
  /\ UNCHANGED <<file, applied, counted, settled, edits>>

\* runMigrations up to its loop: where it starts, and what it counts as applied
\* without running it.
StartMigrations ==
  /\ run = "migrate" /\ pos = 0
  /\ \/ Fault /\ ~firstLaunch /\ applied # Missing /\ run' = "up" /\ UNCHANGED <<pos, recorded, settled>>
     \/ /\ UNCHANGED <<run, faults>>
        /\ recorded' = IF firstLaunch THEN Missing ELSE applied
        /\ LET all == firstLaunch \/ applied = Torn
           IN  /\ pos' = 1 + IF all THEN version ELSE IF applied = Missing THEN 0 ELSE applied.data
               /\ settled' = IF all THEN settled \cup 1 .. version ELSE settled
  /\ UNCHANGED <<version, firstLaunch, memory, file, last, applied, counted, edits>>

\* A migration is known by its number alone; it may fail, which changes nothing
\* for the count.
Migration ==
  /\ run = "migrate" /\ pos \in 1 .. version
  /\ pos' = pos + 1 /\ settled' = settled \cup {pos}
  /\ UNCHANGED <<run, version, firstLaunch, memory, recorded, file, last, applied, counted, faults, edits>>

CountOf_wrong == version

\* max(applied, len(migrations)), pos being one past whichever is larger.
CountOf == pos - 1

RecordMigrations ==
  /\ run = "migrate" /\ pos > version
  /\ IF recorded = Whole(CountOf)
       THEN /\ run' = "up" /\ UNCHANGED <<version, firstLaunch, memory, pos, recorded, applied, counted, faults>>
       ELSE /\ Write(applied, CountOf, run' = "up" /\ UNCHANGED <<version, firstLaunch, memory, pos, recorded>>)
            /\ counted' = IF applied' = Whole(CountOf) /\ (CountOf >= counted \/ recorded = Torn)
                           THEN CountOf + 1 ELSE counted
  /\ UNCHANGED <<file, last, settled, edits>>

-----------------------------------------------------------------------------
\* What the user's changes make of the configuration.  AddFilterList fails, and
\* saves nothing, for a URL that is there.
Edited(c) ==
  {[c EXCEPT !.rules = "new"]} \cup {[c EXCEPT !.policy = p] : p \in {"automatic", "disabled"}}
    \cup {[c EXCEPT !.lists = Without(c, {"zen/irbis"})]}
    \cup {AddFilterList(c, List(u, TRUE)) : u \in {v \in {"zen/irbis"} : ~Has(c, v)}}

Update ==
  /\ run = "up" /\ edits < MaxEdits /\ edits' = edits + 1
  /\ \E c \in Edited(memory) \ {memory} :
       Write(file, c, memory' = c /\ UNCHANGED <<run, version, firstLaunch, pos, recorded>>)
  /\ UNCHANGED <<last, applied, counted, settled>>

\* The process ends: at any time once it is up, or during the start, as a fault.
Crash ==
  /\ run # "down" /\ Down
  /\ IF run = "up" THEN UNCHANGED faults ELSE Fault
  /\ UNCHANGED <<configFiles, counted, settled, edits>>

\* Outside the program: the user removes the directory of a file that does not
\* parse, and a release from before applied_migrations runs and writes its own
\* number.
RemoveFiles ==
  /\ run = "down" /\ file = Torn
  /\ file' = Missing /\ last' = Missing /\ applied' = Missing /\ counted' = 0 /\ settled' = {}
  /\ UNCHANGED <<run, version, firstLaunch, memory, pos, recorded, faults, edits>>
RunOldRelease ==
  /\ run = "down" /\ file.state = "whole" /\ Fault
  /\ last' \in {Whole(n) : n \in OldReleases \ {0}}
  /\ UNCHANGED <<run, version, firstLaunch, memory, pos, recorded, file, applied, counted, settled, edits>>

Startup == StartLegacy \/ LegacyMigration \/ RecordLegacy \/ StartMigrations \/ Migration \/ RecordMigrations
ConfigNext == Startup \/ Update \/ Crash \/ RemoveFiles \/ RunOldRelease

-----------------------------------------------------------------------------
RecordedNeverRunsAgain ==
  [][/\ run = "migrate" /\ pos \in 1 .. version /\ pos' # pos => pos >= counted
     /\ run = "legacy" /\ pos \in 1 .. Len(Versions) /\ pos' # pos => applied = Missing]_configVars

CountedIsSettled == applied.state = "whole" => 1 .. applied.data \subseteq settled

\* A migration runs once.  What applied_migrations has counted never runs again,
\* whatever builds run in between, unless an interrupted write made the count
\* unreadable and a build that knows fewer migrations then wrote its own; once it
\* exists no legacy migration runs, whatever last_migration says; and nothing is
\* counted that did not run, unless the default configuration was written with it
\* or the count was unreadable: a count that cannot be read for a moment loses none
\* (runMigrations, runLegacyMigrations).
MigrationsRunOnce == RecordedNeverRunsAgain /\ []CountedIsSettled

\* Rules that the user saved are not replaced by a migration that runs late or
\* again, as long as only one thing goes wrong (v0.16.0).
SavedRulesSurvive ==
  [][faults' <= 1 /\ file.state = "whole" /\ file'.state = "whole" /\ file.data.rules = "new"
       => file'.data.rules = "new"]_configVars

-----------------------------------------------------------------------------
\* A claim that the code does not keep (README, section 5): the v0.19.0
\* migration says of itself that, run again over lists at their new
\* locations it leaves one of each.  v0.21.0 has moved them once more by then.
ZenListsAreUnique ==
  memory.lists = <<>> \/ \A i, j \in DOMAIN memory.lists :
    run = "up" /\ memory.lists[i].url = memory.lists[j].url => i = j
=============================================================================
