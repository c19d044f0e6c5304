------------------------------ MODULE CertStore ------------------------------
(***************************************************************************)
(* The root CA of internal/certstore, the record the config keeps of it    *)
(* and the operations of internal/app that create, switch and remove it.   *)
(*                                                                         *)
(* A CA is a number: its certificate and its key pair share it, so a       *)
(* certificate and a key match when they are the same number.  Every       *)
(* durable effect is a step of its own, because the process may crash      *)
(* between any two.  Steps that go wrong on their own (a crash, a save, a  *)
(* removal or a key store that fails) are counted in faults, at most       *)
(* MaxFaults in a behaviour; a password prompt the user declines is not a  *)
(* fault.  A second process started with --uninstall-ca is a restart       *)
(* followed by UninstallCA: the installer kills the app first.             *)
(***************************************************************************)
EXTENDS Naturals, FiniteSets

CONSTANTS
  Caller,     \* threads that enter the app: frontend calls and the tray
  MaxCAs,     \* bound: CAs that exist, or are trusted somewhere, at a time
  MaxFaults,  \* bound: faults in a behaviour
  None

Storage == {"disk", "hardware"}
Platform == {"darwin", "windows", "linux", "nixos"}
CA == 1 .. MaxCAs

ASSUME CertStoreAssumption ==
  /\ MaxCAs \in Nat \ {0} /\ MaxFaults \in Nat
  /\ None \notin Caller /\ None \notin Storage /\ None \notin CA

VARIABLES
  platform,   \* "nixos" stands for a Linux without a known trust store
  saved,      \* the CA record in config.json
  certFile,   \* rootCA.pem
  keys,       \* where each storage keeps a key: rootCA-key.pem, the key store
  sysTrust,   \* CAs in the system trust store
  nssTrust,   \* CAs in NSS databases
  conf,       \* the CA record in memory
  cert, key,  \* DiskCertStore.cert and DiskCertStore.key
  gen,        \* the generator of the running proxy: the CA and key it holds
  proxyOn, proxyMu, storeMu,
  pc,         \* where each caller is
  goal,       \* the storage a caller of SetCAKeyStorage asked for, or None
  faults

disk == <<saved, certFile, keys, sysTrust, nssTrust>>
memory == <<conf, cert, key>>
app == <<gen, proxyOn, proxyMu, goal>>
vars == <<platform, disk, memory, app, storeMu, pc, faults>>

\* Every variable has its type.
TypeOK ==
  /\ platform \in Platform
  /\ saved \in [installed : BOOLEAN, storage : Storage] /\ conf \in [installed : BOOLEAN, storage : Storage]
  /\ certFile \in CA \cup {None} /\ keys \in [Storage -> CA \cup {None}]
  /\ sysTrust \subseteq CA /\ nssTrust \subseteq CA
  /\ cert \in CA \cup {None}
  /\ key \in [ca : CA, storage : Storage] \cup {None}
  /\ gen \in [ca : CA, storage : Storage, open : BOOLEAN] \cup {None}
  /\ proxyOn \in BOOLEAN /\ {proxyMu, storeMu} \subseteq Caller \cup {None}
  /\ pc \in [Caller -> {"idle", "init", "wipe", "generate", "certify", "reload", "trust", "nss",
                         "record", "newGenerator", "uninstall", "untrust", "dropKey", "dropFolder",
                         "unrecord", "discard", "setStorage"}]
  /\ goal \in [Caller -> Storage \cup {None}]
  /\ faults \in 0 .. MaxFaults

Init ==
  /\ platform \in Platform
  /\ saved = [installed |-> FALSE, storage |-> "disk"] /\ conf = saved
  /\ certFile = None /\ keys = [s \in Storage |-> None]
  /\ sysTrust = {} /\ nssTrust = {}
  /\ cert = None /\ key = None
  /\ gen = None /\ proxyOn = FALSE /\ proxyMu = None /\ storeMu = None
  /\ pc = [c \in Caller |-> "idle"] /\ goal = [c \in Caller |-> None]
  /\ faults = 0

-----------------------------------------------------------------------------
Goto(c, l) == pc' = [pc EXCEPT ![c] = l]
Fault == faults < MaxFaults /\ faults' = faults + 1
NoFault == UNCHANGED faults
MayFail(ok) == IF ok THEN NoFault ELSE Fault

HasSystemTrust == platform # "nixos"
HasHardware == platform \in {"darwin", "windows"}

\* Linux has no hardware keys and ignores the setting.
Backend == IF HasHardware THEN conf.storage ELSE "disk"

\* The CAs nothing refers to: a new one is one of them.
Fresh == CA \ (sysTrust \cup nssTrust \cup {keys[s] : s \in Storage} \cup {certFile, cert})

\* Leave the critical sections and return to the caller's idle loop.
Return(c) ==
  /\ Goto(c, "idle")
  /\ storeMu' = IF storeMu = c THEN None ELSE storeMu
  /\ proxyMu' = IF proxyMu = c THEN None ELSE proxyMu
  /\ goal' = [goal EXCEPT ![c] = None]

\* config.update: the record changes in memory even when the save fails.
Update(rec, ok) ==
  /\ conf' = rec
  /\ saved' = IF ok THEN rec ELSE saved

\* loadCA: the certificate is replaced when it can be read, the key only
\* when it opens and matches.
LoadOk_wrong(opened) == opened /\ keys[Backend] = certFile

LoadOk(opened) == opened /\ certFile # None /\ keys[Backend] = certFile

LoadCA(opened) ==
  /\ MayFail(opened) /\ (~opened => Backend = "hardware")
  /\ cert' = IF certFile = None THEN cert ELSE certFile
  /\ key' = IF LoadOk(opened) THEN [ca |-> certFile, storage |-> Backend] ELSE None

-----------------------------------------------------------------------------
(* What the platform does.  An outcome says whether the call succeeded,    *)
(* whether it is a fault of the platform rather than a user's refusal, and *)
(* what it left behind.                                                    *)
Outcome(ok, fault, left) == [ok |-> ok, fault |-> fault, left |-> left]
Done(left) == Outcome(TRUE, FALSE, left)
Refused(left) == Outcome(FALSE, FALSE, left)
Broken(left) == Outcome(FALSE, TRUE, left)
Count(outcome) == MayFail(~outcome.fault)

\* The anchor file is written, then the trust store is rebuilt, each with a
\* password prompt.
InstallTrustLinux(trust, ca) == {Done(trust \cup {ca}), Refused(trust), Broken(trust \cup {ca})}
UninstallTrustLinux(trust, ca) == {Done(trust \ {ca}), Refused(trust), Broken(trust)}

\* The certificate is added, then its trust settings are exported, edited and
\* imported; it is deleted by hash.
InstallTrustDarwin(trust, ca) == {Done(trust \cup {ca}), Refused(trust), Broken(trust \cup {ca})}
UninstallTrustDarwin(trust, ca) == {Done(trust \ {ca}), Refused(trust)}

\* One call adds it; an enumeration deletes what has its serial number, and
\* may fail after it has.
InstallTrustWindows(trust, ca) == {Done(trust \cup {ca}), Refused(trust)}
UninstallTrustWindows(trust, ca) == {Done(trust \ {ca}), Refused(trust), Broken(trust \ {ca})}

InstallTrustOutcomes(trust, ca) ==
  CASE platform = "linux"   -> InstallTrustLinux(trust, ca)
    [] platform = "darwin"  -> InstallTrustDarwin(trust, ca)
    [] platform = "windows" -> InstallTrustWindows(trust, ca)
UninstallTrustOutcomes(trust, ca) ==
  CASE platform = "linux"   -> UninstallTrustLinux(trust, ca)
    [] platform = "darwin"  -> UninstallTrustDarwin(trust, ca)
    [] platform = "windows" -> UninstallTrustWindows(trust, ca)

\* certutil, database by database: one that takes the CA is enough; without
\* databases or certutil nothing happens.
InstallNSSOutcomes(trust, ca) == {Done(trust \cup {ca}), Refused(trust)}
RefreshNSSOutcomes(trust, ca) == {Done(trust \cup {ca}), Done(trust), Refused(trust)}
UninstallNSSOutcomes(trust, ca) == {Done(trust \ {ca}), Done(trust), Refused(trust)}

\* A new key replaces the one of the same name.  On macOS the old one is
\* deleted first, on Windows a key that was made but not exported is deleted:
\* either way a failure leaves the old key or none.
CreateKeyDarwin(old, new) == {Done(new), Broken(old), Broken(None)}
CreateKeyWindows(old, new) == {Done(new), Broken(old), Broken(None)}
GenerateDisk(old, new) == {Done(new), Broken(old), Broken(None)}
GenerateOutcomes(old, new) ==
  IF Backend = "disk" THEN GenerateDisk(old, new)
  ELSE IF platform = "darwin" THEN CreateKeyDarwin(old, new)
  ELSE CreateKeyWindows(old, new)

\* A key that is already gone is not an error.
RemoveOutcomes(old) == {Done(None)} \cup IF old = None THEN {} ELSE {Broken(old)}

-----------------------------------------------------------------------------
(* StartProxy, as far as the CA goes: DiskCertStore.Init holding proxyMu   *)
(* and the store's mutex, then NewCertGenerator.                           *)

StartProxy(c) ==
  /\ pc[c] = "idle" /\ proxyMu = None /\ ~proxyOn /\ Fresh # {}
  /\ proxyMu' = c /\ Goto(c, "init")
  /\ UNCHANGED <<platform, disk, memory, gen, proxyOn, goal, storeMu, faults>>

InitLoad(c) ==
  /\ pc[c] = "init" /\ storeMu = None
  /\ \E opened \in BOOLEAN :
       /\ LoadCA(opened)
       /\ IF conf.installed /\ ~LoadOk(opened)
            THEN Return(c) /\ UNCHANGED nssTrust
            ELSE /\ UNCHANGED <<proxyMu, goal>>
                 /\ Goto(c, IF conf.installed THEN "newGenerator"
                            ELSE IF LoadOk(opened) THEN "trust" ELSE "wipe")
                 /\ storeMu' = IF conf.installed THEN None ELSE c
                 /\ IF conf.installed /\ ~HasSystemTrust
                      THEN \E nss \in RefreshNSSOutcomes(nssTrust, certFile) : nssTrust' = nss.left
                      ELSE UNCHANGED nssTrust
  /\ UNCHANGED <<platform, saved, certFile, keys, sysTrust, conf, gen, proxyOn>>

\* os.RemoveAll of the folder may stop half way.
RemoveFolder(ok) ==
  IF ok THEN certFile' = None /\ keys' = [keys EXCEPT !["disk"] = None]
        ELSE /\ certFile' \in {certFile, None}
             /\ \E k \in {keys["disk"], None} : keys' = [keys EXCEPT !["disk"] = k]

Wipe(c) ==
  /\ pc[c] = "wipe"
  /\ \E ok \in BOOLEAN :
       /\ MayFail(ok) /\ RemoveFolder(ok)
       /\ IF ok THEN Goto(c, "generate") /\ UNCHANGED <<storeMu, proxyMu, goal>> ELSE Return(c)
  /\ UNCHANGED <<platform, saved, sysTrust, nssTrust, memory, gen, proxyOn>>

Generate(c) ==
  /\ pc[c] = "generate"
  /\ \E made \in GenerateOutcomes(keys[Backend], CHOOSE ca \in Fresh : TRUE) :
       /\ Count(made) /\ keys' = [keys EXCEPT ![Backend] = made.left]
       /\ IF made.ok THEN Goto(c, "certify") /\ UNCHANGED <<storeMu, proxyMu, goal>> ELSE Return(c)
  /\ UNCHANGED <<platform, saved, certFile, sysTrust, nssTrust, memory, gen, proxyOn>>

\* newCA signs the certificate with the new key and writes it.
Certify(c) ==
  /\ pc[c] = "certify"
  /\ \E ok \in BOOLEAN :
       /\ MayFail(ok)
       /\ certFile' = IF ok THEN keys[Backend] ELSE certFile
       /\ IF ok THEN Goto(c, "reload") /\ UNCHANGED <<storeMu, proxyMu, goal>> ELSE Return(c)
  /\ UNCHANGED <<platform, saved, keys, sysTrust, nssTrust, memory, gen, proxyOn>>

InitReload(c) ==
  /\ pc[c] = "reload"
  /\ \E opened \in BOOLEAN :
       /\ LoadCA(opened)
       /\ IF LoadOk(opened) THEN Goto(c, "trust") /\ UNCHANGED <<storeMu, proxyMu, goal>> ELSE Return(c)
  /\ UNCHANGED <<platform, disk, conf, gen, proxyOn>>

InstallTrust(c) ==
  /\ pc[c] = "trust"
  /\ IF ~HasSystemTrust
       THEN Goto(c, "nss") /\ NoFault /\ UNCHANGED <<sysTrust, storeMu, proxyMu, goal>>
       ELSE \E sys \in InstallTrustOutcomes(sysTrust, cert) :
              /\ Count(sys) /\ sysTrust' = sys.left
              /\ IF sys.ok THEN Goto(c, "nss") /\ UNCHANGED <<storeMu, proxyMu, goal>> ELSE Return(c)
  /\ UNCHANGED <<platform, saved, certFile, keys, nssTrust, memory, gen, proxyOn>>

\* installNSSFn: its failure is fatal only without a system trust store.
InstallNSS(c) ==
  /\ pc[c] = "nss" /\ NoFault
  /\ \E nss \in InstallNSSOutcomes(nssTrust, cert) :
       /\ nssTrust' = nss.left
       /\ IF nss.ok \/ HasSystemTrust
            THEN Goto(c, "record") /\ UNCHANGED <<storeMu, proxyMu, goal>> ELSE Return(c)
  /\ UNCHANGED <<platform, saved, certFile, keys, sysTrust, memory, gen, proxyOn>>

\* SetCAInstalled(true), whose error is ignored; Init returns.
Record(c) ==
  /\ pc[c] = "record"
  /\ \E ok \in BOOLEAN : MayFail(ok) /\ Update([conf EXCEPT !.installed = TRUE], ok)
  /\ storeMu' = None /\ Goto(c, "newGenerator")
  /\ UNCHANGED <<platform, certFile, keys, sysTrust, nssTrust, cert, key, app>>

\* NewCertGenerator(GetCA()), and the rest of StartProxy, which may fail.
NewGenerator(c) ==
  /\ pc[c] = "newGenerator" /\ storeMu = None
  /\ \E up \in BOOLEAN :
       /\ up => cert # None /\ key # None
       /\ proxyOn' = up
       /\ gen' = IF up THEN [ca |-> key.ca, storage |-> key.storage, open |-> TRUE] ELSE None
  /\ Return(c)
  /\ UNCHANGED <<platform, disk, memory, faults>>

StopProxy(c) ==
  /\ pc[c] = "idle" /\ proxyMu = None /\ proxyOn
  /\ proxyOn' = FALSE /\ gen' = None
  /\ UNCHANGED <<platform, disk, memory, proxyMu, goal, storeMu, pc, faults>>

-----------------------------------------------------------------------------
(* App.UninstallCA takes no lock of the app.  App.SetCAKeyStorage holds    *)
(* proxyMu, refuses while the proxy is on, removes the CA or its key and   *)
(* then records the storage of the next CA.                                *)

UninstallCA(c) ==
  /\ pc[c] = "idle" /\ Goto(c, "uninstall")
  /\ UNCHANGED <<platform, disk, memory, app, storeMu, faults>>

SetCAKeyStorage_running(c, storage) ==
  /\ pc[c] = "idle" /\ proxyMu = None
  /\ storage = "hardware" => HasHardware
  /\ proxyMu' = c /\ goal' = [goal EXCEPT ![c] = storage]
  /\ Goto(c, IF conf.installed THEN "uninstall" ELSE "discard")
  /\ UNCHANGED <<platform, disk, memory, gen, proxyOn, storeMu, faults>>

SetCAKeyStorage_unremoved(c, storage) ==
  /\ pc[c] = "idle" /\ proxyMu = None /\ ~proxyOn
  /\ storage = "hardware" => HasHardware
  /\ proxyMu' = c /\ goal' = [goal EXCEPT ![c] = storage]
  /\ Goto(c, "discard")
  /\ UNCHANGED <<platform, disk, memory, gen, proxyOn, storeMu, faults>>

SetCAKeyStorage(c, storage) ==
  /\ pc[c] = "idle" /\ proxyMu = None /\ ~proxyOn
  /\ storage = "hardware" => HasHardware
  /\ proxyMu' = c /\ goal' = [goal EXCEPT ![c] = storage]
  /\ Goto(c, IF conf.installed THEN "uninstall" ELSE "discard")
  /\ UNCHANGED <<platform, disk, memory, gen, proxyOn, storeMu, faults>>

UninstallLoad(c) ==
  /\ pc[c] = "uninstall" /\ storeMu = None
  /\ LET found == IF cert = None THEN certFile ELSE cert
     IN IF conf.installed /\ found # None
          THEN cert' = found /\ storeMu' = c /\ Goto(c, "untrust") /\ UNCHANGED <<proxyMu, goal>>
          ELSE Return(c) /\ UNCHANGED cert
  /\ UNCHANGED <<platform, disk, conf, key, gen, proxyOn, faults>>

UntrustThen(c, going) ==
  /\ pc[c] = "untrust"
  /\ \E sys \in IF HasSystemTrust THEN UninstallTrustOutcomes(sysTrust, cert) ELSE {Done(sysTrust)} :
       /\ Count(sys) /\ sysTrust' = sys.left
       /\ IF sys.ok \in going
            THEN /\ Goto(c, "dropKey") /\ UNCHANGED <<storeMu, proxyMu, goal>>
                 /\ \E nss \in UninstallNSSOutcomes(nssTrust, cert) : nssTrust' = nss.left
            ELSE Return(c) /\ UNCHANGED nssTrust
  /\ UNCHANGED <<platform, saved, certFile, keys, memory, gen, proxyOn>>

Untrust_wrong(c) == UntrustThen(c, BOOLEAN)

\* uninstallTrustFn, whose failure ends the call, then uninstallNSSFn, whose
\* failure is logged.
Untrust(c) == UntrustThen(c, {TRUE})

\* closeKey also closes the handle a running generator signs with.
CloseKey ==
  /\ key' = None
  /\ gen' = IF gen # None THEN [gen EXCEPT !.open = key = None \/ key.storage = "disk"] ELSE None

RemoveKey == \E gone \in RemoveOutcomes(keys[Backend]) :
  Count(gone) /\ keys' = [keys EXCEPT ![Backend] = gone.left]

DropKey(c) ==
  /\ pc[c] = "dropKey"
  /\ CloseKey /\ RemoveKey
  /\ Goto(c, "dropFolder")
  /\ UNCHANGED <<platform, saved, certFile, sysTrust, nssTrust, conf, cert, proxyOn, proxyMu, goal, storeMu>>

DropFolder(c) ==
  /\ pc[c] = "dropFolder"
  /\ \E ok \in BOOLEAN :
       /\ MayFail(ok) /\ RemoveFolder(ok)
       /\ IF ok THEN Goto(c, "unrecord") /\ UNCHANGED <<storeMu, proxyMu, goal>> ELSE Return(c)
  /\ UNCHANGED <<platform, saved, sysTrust, nssTrust, memory, gen, proxyOn>>

\* SetCAInstalled(false), whose error is ignored.
Unrecord(c) ==
  /\ pc[c] = "unrecord"
  /\ cert' = None
  /\ \E ok \in BOOLEAN : MayFail(ok) /\ Update([conf EXCEPT !.installed = FALSE], ok)
  /\ IF goal[c] = None THEN Return(c)
     ELSE storeMu' = None /\ Goto(c, "setStorage") /\ UNCHANGED <<proxyMu, goal>>
  /\ UNCHANGED <<platform, certFile, keys, sysTrust, nssTrust, key, gen, proxyOn>>

\* DiscardKey: an error is logged by SetCAKeyStorage, which goes on.
DiscardKey(c) ==
  /\ pc[c] = "discard" /\ storeMu = None
  /\ IF conf.installed THEN NoFault /\ UNCHANGED <<keys, key, gen>>
     ELSE CloseKey /\ RemoveKey
  /\ Goto(c, "setStorage")
  /\ UNCHANGED <<platform, saved, certFile, sysTrust, nssTrust, conf, cert, proxyOn, proxyMu, goal, storeMu>>

SetStorage(c) ==
  /\ pc[c] = "setStorage"
  /\ \E ok \in BOOLEAN : MayFail(ok) /\ Update([conf EXCEPT !.storage = goal[c]], ok)
  /\ Return(c)
  /\ UNCHANGED <<platform, certFile, keys, sysTrust, nssTrust, cert, key, gen, proxyOn>>

-----------------------------------------------------------------------------
\* A new process starts from what is on disk.
NewProcess ==
  /\ conf' = saved /\ cert' = None /\ key' = None
  /\ gen' = None /\ proxyOn' = FALSE /\ proxyMu' = None /\ storeMu' = None
  /\ pc' = [c \in Caller |-> "idle"] /\ goal' = [c \in Caller |-> None]
  /\ UNCHANGED <<platform, disk>>

Relaunch == ~proxyOn /\ (\A c \in Caller : pc[c] = "idle") /\ NoFault /\ NewProcess
Crash == Fault /\ NewProcess

Next ==
  \/ \E c \in Caller :
       \/ StartProxy(c) \/ InitLoad(c) \/ Wipe(c) \/ Generate(c) \/ Certify(c) \/ InitReload(c)
       \/ InstallTrust(c) \/ InstallNSS(c) \/ Record(c) \/ NewGenerator(c) \/ StopProxy(c)
       \/ UninstallCA(c) \/ UninstallLoad(c) \/ Untrust(c) \/ DropKey(c) \/ DropFolder(c) \/ Unrecord(c)
       \/ (\E s \in Storage : SetCAKeyStorage(c, s)) \/ DiscardKey(c) \/ SetStorage(c)
  \/ Relaunch \/ Crash

Spec == Init /\ [][Next]_vars

-----------------------------------------------------------------------------
AtRest == storeMu = None /\ proxyMu = None

KeyStorageMatchesCA ==
  \A rec \in {conf, saved} : AtRest /\ rec.installed /\ certFile # None =>
    \A s \in Storage \ {rec.storage} : keys[s] # certFile

LeftoverKeyIsUntrusted ==
  AtRest /\ conf.installed => \A s \in Storage : keys[s] \in sysTrust => keys[s] = certFile

\* The record says where the installed CA's key is: while a CA is recorded as
\* installed and its certificate is there, no other storage holds its key, in
\* memory and, for the next process, on disk (config.go:124, SetKeyStorage).  A
\* key left behind by a removal that failed, or by an install that never
\* finished, is harmless: once another CA is installed, no key of a CA that the
\* system still trusts is left (UninstallCA, DiscardKey, Init).
KeysMatchCA == KeyStorageMatchesCA /\ LeftoverKeyIsUntrusted

\* Only UninstallCA can take the CA away from a running proxy: a switch of the
\* key storage never removes the trust in, or closes the key of, the CA the
\* proxy signs with (the lock and the check of SetCAKeyStorage).
SwitchSparesRunningProxy ==
  [][\A c \in Caller : goal[c] # None /\ pc[c] # pc'[c] /\ pc'[c] # "idle" => gen' = gen /\ gen = None]_vars

\* A CA is recorded as not installed only when the system no longer trusts it,
\* however the calls interleave and whatever step failed (UninstallCA).
UninstalledIsUntrusted ==
  [][saved.installed /\ ~saved'.installed /\ cert # None => cert \notin sysTrust']_vars

\* Violated: "a half-deleted CA can always be cleaned up" (keybackend.go:104).
\* A CA that is recorded as installed is known to the store, or its
\* certificate is still there for UninstallCA to load.
HalfDeletedCanBeCleanedUp ==
  AtRest /\ conf.installed => cert # None \/ certFile # None
=============================================================================
