------------------------------ MODULE SelfUpdate ------------------------------
(***************************************************************************)
(* The self-updater (internal/selfupdate) and what it means for the next   *)
(* launch: the check under the update policy, the verified download, the   *)
(* staging directory next to the executable, the executable renamed away   *)
(* and the new one renamed in, the roll-back, and the removal of the       *)
(* backup.  It runs in the process whose configuration is in Config.       *)
(***************************************************************************)
EXTENDS Config

VARIABLES
  exec,    \* the build at the executable's path, at most one
  backups, \* the builds under the name of a backup next to it
  staging, \* what is in staging directories: builds, unarchived or in part
  updater, \* where execUpdate is
  target,  \* the release it installs
  path     \* where: what getExecPath returned

updateVars == <<exec, backups, staging, updater, target, path>>
vars == <<configVars, updateVars>>

Staged(whole) == [build |-> target, whole |-> whole]

\* Every variable has its type, and what the updater is about to move in is staged.
TypeOK ==
  /\ run \in {"down", "legacy", "migrate", "up"} /\ version \in Builds /\ firstLaunch \in BOOLEAN
  /\ memory \in TypeConfig /\ pos \in Nat /\ counted \in Nat /\ settled \subseteq Nat
  /\ file \in {Missing, Torn} \/ (file.state = "whole" /\ file.data \in TypeConfig)
  /\ \A f \in {last, applied, recorded} : f \in {Missing, Torn} \/ (f.state = "whole" /\ f.data \in Nat)
  /\ exec \subseteq Builds /\ Cardinality(exec) <= 1 /\ backups \subseteq Builds
  /\ staging \subseteq [build : Builds, whole : BOOLEAN] /\ target \in Builds
  /\ updater \in {"idle", "verified", "staging", "staged", "moved", "rollback", "installed", "failed", "finished", "done"}
  /\ path \in {"executable", "backup"}
  /\ updater = "staging" => Staged(FALSE) \in staging
  /\ updater \in {"staged", "moved", "rollback"} => Staged(TRUE) \in staging

Init ==
  /\ ConfigInit
  /\ exec = {version} /\ backups = {} /\ staging = {} /\ updater = "idle" /\ target = version
  /\ path = "executable"

Updating(u) == run = "up" /\ updater = u
At(u) == updater' = u

\* execUpdate up to the verified download: what fails, or is not newer, leaves
\* things as they are until the next check.
CheckForUpdates ==
  /\ Updating("idle") /\ memory.policy = "automatic"
  /\ target' \in {b \in Builds : b > version} /\ At("verified")
  /\ UNCHANGED <<configVars, exec, backups, staging, path>>

MakeStaging_wrong ==
  /\ Updating("verified") /\ staging' = {} /\ At("staging") /\ path' = "executable"
  /\ UNCHANGED <<configVars, exec, backups, target>>

\* Stale staging directories go first, if they can be removed.  On Linux the
\* running file is found under the name it was renamed to.
MakeStaging ==
  /\ Updating("verified")
  /\ \/ staging' = {Staged(FALSE)} /\ At("staging") /\ UNCHANGED faults
     \/ staging # {} /\ Fault /\ staging' = staging \cup {Staged(FALSE)} /\ At("staging")
     \/ Fault /\ At("idle") /\ UNCHANGED staging
  /\ path' \in {"executable"} \cup (IF exec = {} THEN {"backup"} ELSE {})
  /\ UNCHANGED <<run, version, firstLaunch, memory, pos, recorded, configFiles, counted, settled, edits, exec, backups, target>>

\* Every other action of the updater leaves all of the configuration alone
\* but the count of faults.
ConfigKept ==
  UNCHANGED <<run, version, firstLaunch, memory, pos, recorded, configFiles, counted, settled, edits, target, path>>

Unarchive ==
  /\ Updating("staging")
  /\ \/ staging' = (staging \ {Staged(FALSE)}) \cup {Staged(TRUE)} /\ At("staged") /\ UNCHANGED faults
     \/ Fault /\ At("failed") /\ UNCHANGED staging
  /\ ConfigKept /\ UNCHANGED <<exec, backups>>

\* The backup of a backup is a backup.
MoveOld ==
  /\ Updating("staged")
  /\ \/ path = "backup" /\ At("moved") /\ UNCHANGED <<exec, backups, faults>>
     \/ /\ path = "executable" /\ exec # {} /\ At("moved")
        /\ backups' = backups \cup exec /\ exec' = {} /\ UNCHANGED faults
     \/ path = "executable" /\ exec = {} /\ At("failed") /\ UNCHANGED <<exec, backups, faults>>
     \/ Fault /\ At("failed") /\ UNCHANGED <<exec, backups>>
  /\ ConfigKept /\ UNCHANGED staging

MovedIn ==
  /\ At("installed") /\ staging' = staging \ {Staged(TRUE)} /\ UNCHANGED faults
  /\ IF path = "backup" THEN backups' = backups \cup {target} /\ UNCHANGED exec
                        ELSE exec' = {target} /\ UNCHANGED backups

MoveNew_wrong ==
  /\ Updating("moved")
  /\ \/ MovedIn
     \/ Fault /\ At("installed") /\ UNCHANGED <<exec, backups, staging>>
  /\ ConfigKept

MoveNew ==
  /\ Updating("moved")
  /\ \/ MovedIn
     \/ Fault /\ At("rollback") /\ UNCHANGED <<exec, backups, staging>>
  /\ ConfigKept

RollBack ==
  /\ Updating("rollback") /\ At("failed")
  /\ \/ /\ UNCHANGED faults
        /\ IF path = "backup" THEN UNCHANGED <<exec, backups>>
                              ELSE exec' = {version} /\ backups' = backups \ {version}
     \/ Fault /\ UNCHANGED <<exec, backups>>
  /\ ConfigKept /\ UNCHANGED staging

\* A backup that cannot be removed is moved to the temporary directory; that
\* may fail too.
RemoveBackup ==
  /\ Updating("installed") /\ At("finished")
  /\ \/ backups' = backups \ {version} /\ UNCHANGED faults
     \/ Fault /\ UNCHANGED backups
  /\ ConfigKept /\ UNCHANGED <<exec, staging>>

\* The deferred removal of the staging directory.  An update that was applied
\* ends the checks of this process.
RemoveStaging ==
  /\ Updating("failed") \/ Updating("finished")
  /\ At(IF updater = "failed" THEN "idle" ELSE "done")
  /\ \/ staging' = {} /\ UNCHANGED faults
     \/ staging # {} /\ Fault /\ UNCHANGED staging
  /\ ConfigKept /\ UNCHANGED <<exec, backups>>

Updates == CheckForUpdates \/ MakeStaging \/ Unarchive \/ MoveOld \/ MoveNew \/ RollBack \/ RemoveBackup \/ RemoveStaging

-----------------------------------------------------------------------------
\* Everything of the configuration goes on beside the updater, which ends with
\* the process; a launch runs the build that is in place.
Beside == /\ updater' = IF run' = "down" THEN "idle" ELSE updater
          /\ UNCHANGED <<exec, backups, staging, target, path>>

\* Outside the program: the user installs a build, or puts a backup back.
Install ==
  /\ run = "down"
  /\ \/ edits < MaxEdits /\ edits' = edits + 1 /\ \E b \in Builds : exec # {b} /\ exec' = {b}
     \/ exec = {} /\ (\E b \in backups : exec' = {b}) /\ UNCHANGED edits
  /\ UNCHANGED <<run, version, firstLaunch, memory, pos, recorded, configFiles, counted, settled, faults,
                 backups, staging, updater, target, path>>

Next ==
  \/ \E b \in exec : Launch(b) /\ Beside
  \/ ConfigNext /\ Beside
  \/ Updates \/ Install

Spec == Init /\ [][Next]_vars

\* Whatever fails and wherever the process dies, a whole build is left at the
\* executable's path or next to it as its backup (installExecutable).
SomethingToRun == exec \cup backups # {}
=============================================================================
