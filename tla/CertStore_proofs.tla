--------------------------- MODULE CertStore_proofs ---------------------------
(***************************************************************************)
(* The safety properties of CertStore for any number of callers and of     *)
(* CAs and every platform: the types and the switch of the key storage     *)
(* with any number of faults, what becomes of keys and trust with at most  *)
(* one.                                                                    *)
(***************************************************************************)
EXTENDS CertStore, TLAPS

-----------------------------------------------------------------------------
(* The locks                                                               *)

Installing == {"wipe", "generate", "certify", "reload", "trust", "nss", "record"}
Starting == Installing \cup {"init", "newGenerator"}
Removing == {"untrust", "dropKey", "dropFolder", "unrecord"}
Switching == {"discard", "setStorage"}

(* A caller holds the store's mutex in DiskCertStore's critical sections   *)
(* and proxyMu in the app's: there it starts the proxy or switches the     *)
(* storage.                                                                *)
LockInv(c) ==
  /\ pc[c] \in Starting \cup Switching => proxyMu = c
  /\ pc[c] \in Starting => goal[c] = None
  /\ goal[c] # None => proxyMu = c /\ pc[c] \in {"uninstall"} \cup Removing \cup Switching
  /\ pc[c] \in Switching => goal[c] # None
  /\ goal[c] = "hardware" => HasHardware
  /\ pc[c] \in Installing \cup Removing <=> storeMu = c

ProxyInv ==
  /\ proxyMu # None => ~proxyOn
  /\ gen # None => proxyOn

(* Where the caller is that holds the store's mutex, or proxyMu.           *)
InStore == IF storeMu = None THEN "free" ELSE pc[storeMu]
InProxy == IF proxyMu = None THEN "free" ELSE pc[proxyMu]

-----------------------------------------------------------------------------
(* What holds whatever goes wrong                                          *)

RecordInv ==
  /\ InStore \in Installing => ~conf.installed
  /\ InStore \in Removing => conf.installed
  /\ InProxy \in Switching => ~conf.installed
  /\ ~HasHardware => conf.storage = "disk" /\ saved.storage = "disk"

(* The certificate at hand is the file's, until its folder is removed.     *)
CertInv ==
  /\ InStore \in {"trust", "nss", "record"} =>
       cert # None /\ cert = certFile /\ keys[conf.storage] = certFile
  /\ InStore \in Removing => cert # None
  /\ InStore \in {"generate", "certify", "unrecord"} => certFile = None
  /\ conf.installed /\ cert # None /\ certFile # None => cert = certFile

TrustInv ==
  /\ InStore \in {"dropKey", "dropFolder", "unrecord"} => cert \notin sysTrust
  /\ ~HasSystemTrust => sysTrust = {}

(* There is a new CA to make for who may have to.  No two storages hold    *)
(* the same key.                                                           *)
FreshInv == InProxy \in {"init", "wipe", "generate"} => Fresh # {}
KeysDiffer == keys["disk"] = keys["hardware"] => keys["disk"] = None

AnyFaults == RecordInv /\ CertInv /\ TrustInv /\ FreshInv /\ KeysDiffer

-----------------------------------------------------------------------------
(* What holds with at most one fault                                       *)

Spent == faults = MaxFaults
Other == IF conf.storage = "disk" THEN "hardware" ELSE "disk"
Trusting == InStore \in {"nss", "record"}
NoKeyTrusted == \A s \in Storage : keys[s] \notin sysTrust
NoCertTrusted == cert \notin sysTrust /\ certFile \notin sysTrust

(* The two records differ only after a save that failed: one that would    *)
(* say installed is then the older one, and of the same storage.           *)
SavedInv ==
  /\ ~Spent => saved = conf
  /\ saved.installed => conf = saved \/ (~conf.installed /\ conf.storage = saved.storage)
  /\ conf.storage # saved.storage => ~conf.installed

(* A trusted key is that of the certificate, in the storage of the record. *)
(* None is trusted while a CA is made or the storage is about to change.   *)
KeyMatches(s) == keys[s] \in sysTrust => keys[s] = certFile
OtherKey ==
  /\ keys[Other] \notin sysTrust
  /\ (conf.installed \/ saved.installed) /\ certFile # None => keys[Other] # certFile
NoKeyYet ==
  InStore \in {"wipe", "generate", "certify"} \/ InProxy = "setStorage" => NoKeyTrusted

KeyInv == (\A s \in Storage : KeyMatches(s)) /\ OtherKey /\ NoKeyYet

(* Trust comes before the record of it, and goes before it.                *)
OrderInv ==
  /\ ~Spent /\ ~conf.installed => NoKeyTrusted \/ Trusting
  /\ conf.storage # saved.storage => NoKeyTrusted \/ Trusting
  /\ saved.installed /\ ~conf.installed => NoCertTrusted \/ Trusting

OneFault == SavedInv /\ KeyInv /\ OrderInv

BInv == TypeOK /\ (\A c \in Caller : LockInv(c)) /\ ProxyInv /\ AnyFaults
IInv == BInv /\ (MaxFaults <= 1 => OneFault)

-----------------------------------------------------------------------------
(* What callers do to the locks                                            *)

CallerStep(c) ==
  \/ StartProxy(c) \/ InitLoad(c) \/ Wipe(c) \/ Generate(c) \/ Certify(c) \/ InitReload(c)
  \/ InstallTrust(c) \/ InstallNSS(c) \/ Record(c) \/ NewGenerator(c) \/ StopProxy(c)
  \/ UninstallCA(c) \/ UninstallLoad(c) \/ Untrust(c) \/ DropKey(c) \/ DropFolder(c)
  \/ Unrecord(c) \/ (\E s \in Storage : SetCAKeyStorage(c, s)) \/ DiscardKey(c)
  \/ SetStorage(c)

Place == {"idle", "uninstall"} \cup Starting \cup Removing \cup Switching

LockTypes ==
  /\ pc \in [Caller -> Place]
  /\ goal \in [Caller -> Storage \cup {None}]
  /\ proxyMu \in Caller \cup {None} /\ storeMu \in Caller \cup {None}
  /\ proxyOn \in BOOLEAN

Locks == LockTypes /\ (\A c \in Caller : LockInv(c)) /\ ProxyInv

(* A caller's step, as the locks see it: it takes a lock that is free or   *)
(* gives back its own, and sets its own goal.                              *)
Pass(c, l) ==
  /\ pc' = [pc EXCEPT ![c] = l]
  /\ \/ UNCHANGED storeMu
     \/ storeMu \in {None, c} /\ storeMu' \in {None, c}
  /\ \/ UNCHANGED proxyMu
     \/ proxyMu \in {None, c} /\ proxyMu' \in {None, c}
  /\ UNCHANGED goal \/ \E g \in Storage \cup {None} : goal' = [goal EXCEPT ![c] = g]

(* It leaves the caller in order, and the proxy.                           *)
InOrder(c) ==
  /\ \E l \in Place : Pass(c, l)
  /\ LockInv(c)' /\ ProxyInv'
  /\ proxyOn' \in BOOLEAN
  /\ UNCHANGED platform

(* The places are told apart by the sets they are in.                      *)
LEMMA Places ==
  /\ None \notin Caller /\ None \notin Storage
  /\ Starting \cup Removing \cup Switching \subseteq Place
  /\ "idle" \in Place /\ "uninstall" \in Place
BY CertStoreAssumption DEF Place

(* The types of the locks.                                                 *)
LEMMA LockFacts ==
  ASSUME Locks
  PROVE  /\ pc \in [Caller -> Place] /\ goal \in [Caller -> Storage \cup {None}]
         /\ proxyMu \in Caller \cup {None} /\ storeMu \in Caller \cup {None}
         /\ \A c \in Caller : LockInv(c)
BY DEF Locks, LockTypes

(* Going on inside the critical sections a caller is in keeps its locks.   *)
LEMMA GoesOn ==
  ASSUME Locks, NEW c \in Caller, NEW l \in Place, Goto(c, l),
         UNCHANGED <<storeMu, proxyMu, goal, proxyOn, platform>>,
         gen' # None => gen # None,
         \/ pc[c] \in Installing /\ l \in Installing
         \/ pc[c] \in Removing /\ l \in Removing
         \/ pc[c] = "discard" /\ l = "setStorage"
  PROVE  InOrder(c)
<1>1. Pass(c, l) /\ pc'[c] = l
  BY DEF Pass, Goto, Locks, LockTypes
<1>2. LockInv(c) /\ goal' = goal
  BY DEF Locks
<1>3. LockInv(c)'
  BY <1>1, <1>2 DEF LockInv, Starting, Installing, Removing, Switching, HasHardware
<1>4. QED
  BY <1>1, <1>3 DEF InOrder, Locks, LockTypes, ProxyInv

(* Leaving gives back the locks that were held and forgets the goal.       *)
LEMMA Leaves ==
  ASSUME Locks, NEW c \in Caller, Return(c),
         UNCHANGED <<proxyOn, platform>>, gen' # None => gen # None
  PROVE  InOrder(c)
<1>1. pc'[c] = "idle" /\ goal'[c] = None /\ storeMu' # c /\ proxyMu' # c
  BY Places DEF Return, Goto, Locks, LockTypes
<1>2. LockInv(c)'
  BY <1>1, Places DEF LockInv, Starting, Installing, Removing, Switching, Storage
<1>3. Pass(c, "idle")
  BY DEF Return, Goto, Pass
<1>4. ProxyInv' /\ proxyOn' \in BOOLEAN
  BY DEF Return, Locks, LockTypes, ProxyInv
<1>5. QED
  BY <1>2, <1>3, <1>4, Places DEF InOrder

(* The actions in their order.                                             *)
LEMMA StartInOrder ==
  ASSUME Locks, NEW c \in Caller,
         StartProxy(c) \/ InitLoad(c) \/ Record(c) \/ NewGenerator(c) \/ StopProxy(c)
  PROVE  InOrder(c)
<1> USE Places DEF Starting, Installing, Removing, Switching
<1>1. LockInv(c) /\ LockTypes /\ ProxyInv
  BY DEF Locks
<1>2. CASE StartProxy(c)
  <2>1. Pass(c, "init") /\ pc'[c] = "init" /\ goal' = goal
    BY <1>1, <1>2 DEF StartProxy, Goto, Pass, LockTypes, app
  <2>2. LockInv(c)'
    BY <1>1, <1>2, <2>1 DEF StartProxy, LockInv, HasHardware
  <2>3. QED
    BY <1>1, <1>2, <2>1, <2>2 DEF StartProxy, InOrder, ProxyInv, LockTypes
<1>3. CASE InitLoad(c)
  <2>1. UNCHANGED <<gen, proxyOn, platform>> /\ pc[c] = "init" /\ storeMu = None
    BY <1>3 DEF InitLoad
  <2>2. CASE Return(c)
    BY <2>1, <2>2, Leaves
  <2>3. CASE ~Return(c)
    <3>1. PICK l \in {"newGenerator", "trust", "wipe"} :
            /\ Goto(c, l)
            /\ UNCHANGED <<proxyMu, goal>>
            /\ storeMu' = IF l = "newGenerator" THEN None ELSE c
      <4>1. PICK opened \in BOOLEAN :
              /\ UNCHANGED <<proxyMu, goal>>
              /\ Goto(c, IF conf.installed THEN "newGenerator"
                         ELSE IF LoadOk(opened) THEN "trust" ELSE "wipe")
              /\ storeMu' = IF conf.installed THEN None ELSE c
        BY <1>3, <2>3 DEF InitLoad
      <4>2. CASE conf.installed
        BY <1>3, <4>1, <4>2 DEF InitLoad
      <4>3. CASE ~conf.installed
        BY <4>1, <4>3
      <4>4. QED
        BY <4>2, <4>3
    <3>2. Pass(c, l) /\ pc'[c] = l /\ goal' = goal
      BY <1>1, <2>1, <3>1 DEF Goto, Pass, LockTypes
    <3>3. LockInv(c)'
      BY <1>1, <2>1, <3>1, <3>2 DEF LockInv, HasHardware
    <3>4. QED
      BY <1>1, <2>1, <3>1, <3>2, <3>3 DEF InOrder, ProxyInv, LockTypes
  <2>4. QED
    BY <2>2, <2>3
<1>4. CASE Record(c)
  <2>1. Pass(c, "newGenerator") /\ pc'[c] = "newGenerator" /\ goal' = goal
    BY <1>1, <1>4 DEF Record, Goto, Pass, LockTypes, LockInv, app
  <2>2. LockInv(c)'
    BY <1>1, <1>4, <2>1 DEF Record, LockInv, HasHardware, app
  <2>3. QED
    BY <1>1, <1>4, <2>1, <2>2 DEF Record, InOrder, ProxyInv, LockTypes, app
<1>5. CASE NewGenerator(c)
  <2>1. pc'[c] = "idle" /\ goal'[c] = None /\ storeMu' # c /\ proxyMu' = None
    BY <1>1, <1>5 DEF NewGenerator, Return, Goto, LockTypes, LockInv
  <2>2. Pass(c, "idle") /\ UNCHANGED platform
    BY <1>5 DEF NewGenerator, Return, Goto, Pass
  <2>3. LockInv(c)'
    BY <2>1 DEF LockInv, Storage
  <2>4. ProxyInv' /\ proxyOn' \in BOOLEAN
    BY <1>5, <2>1 DEF NewGenerator, ProxyInv
  <2>5. QED
    BY <2>2, <2>3, <2>4 DEF InOrder
<1>6. CASE StopProxy(c)
  <2>1. Pass(c, "idle") /\ UNCHANGED <<pc, goal, storeMu, proxyMu, platform>>
    BY <1>1, <1>6 DEF StopProxy, Pass, LockTypes
  <2>2. LockInv(c)'
    BY <1>1, <2>1 DEF LockInv, HasHardware
  <2>3. QED
    BY <1>1, <1>6, <2>1, <2>2 DEF StopProxy, InOrder, ProxyInv
<1>7. QED
  BY <1>2, <1>3, <1>4, <1>5, <1>6

(* The steps of Init that create a CA run under the store's mutex and      *)
(* leave the locks in order.                                               *)
LEMMA InstallInOrder ==
  ASSUME Locks, NEW c \in Caller,
         \/ Wipe(c) \/ Generate(c) \/ Certify(c) \/ InitReload(c)
         \/ InstallTrust(c) \/ InstallNSS(c)
  PROVE  InOrder(c)
<1>1. UNCHANGED <<gen, proxyOn, platform>>
  BY DEF Wipe, Generate, Certify, InitReload, InstallTrust, InstallNSS
<1>2. CASE Return(c)
  BY <1>1, <1>2, Leaves
<1>3. CASE ~Return(c)
  <2>1. UNCHANGED <<storeMu, proxyMu, goal>>
    BY <1>3 DEF Wipe, Generate, Certify, InitReload, InstallTrust, InstallNSS
  <2>2. pc[c] \in Installing /\ \E l \in Installing : Goto(c, l)
    BY <1>3 DEF Wipe, Generate, Certify, InitReload, InstallTrust, InstallNSS, Installing
  <2>3. QED
    BY <1>1, <2>1, <2>2, GoesOn, Places DEF Starting
<1>4. QED
  BY <1>2, <1>3

(* So do those of UninstallCA, which also take the mutex and give it back. *)
LEMMA RemoveInOrder ==
  ASSUME Locks, NEW c \in Caller,
         \/ UninstallCA(c) \/ UninstallLoad(c) \/ Untrust(c) \/ DropKey(c) \/ DropFolder(c)
         \/ Unrecord(c)
  PROVE  InOrder(c)
<1> USE Places DEF Starting, Installing, Removing, Switching
<1>1. LockInv(c) /\ LockTypes /\ ProxyInv
  BY DEF Locks
<1>2. CASE UninstallCA(c)
  <2>1. /\ Pass(c, "uninstall") /\ pc'[c] = "uninstall" /\ goal[c] = None
        /\ UNCHANGED <<goal, storeMu, proxyMu, proxyOn, gen, platform>>
    BY <1>1, <1>2 DEF UninstallCA, Goto, Pass, LockTypes, LockInv, app
  <2>2. LockInv(c)'
    BY <1>1, <1>2, <2>1 DEF UninstallCA, LockInv, HasHardware
  <2>3. QED
    BY <1>1, <2>1, <2>2 DEF InOrder, ProxyInv, LockTypes
<1>3. CASE UninstallLoad(c)
  <2>1. UNCHANGED <<gen, proxyOn, platform>> /\ pc[c] = "uninstall" /\ storeMu = None
    BY <1>3 DEF UninstallLoad
  <2>2. CASE Return(c)
    BY <2>1, <2>2, Leaves
  <2>3. CASE ~Return(c)
    <3>1. Goto(c, "untrust") /\ storeMu' = c /\ UNCHANGED <<proxyMu, goal>>
      BY <1>3, <2>3 DEF UninstallLoad
    <3>2. Pass(c, "untrust") /\ pc'[c] = "untrust" /\ goal' = goal
      BY <1>1, <2>1, <3>1 DEF Goto, Pass, LockTypes
    <3>3. LockInv(c)'
      BY <1>1, <2>1, <3>1, <3>2 DEF LockInv, HasHardware
    <3>4. QED
      BY <1>1, <2>1, <3>1, <3>2, <3>3 DEF InOrder, ProxyInv, LockTypes
  <2>4. QED
    BY <2>2, <2>3
<1>4. CASE Untrust(c) \/ DropFolder(c)
  <2>1. UNCHANGED <<gen, proxyOn, platform>>
    BY <1>4 DEF Untrust, UntrustThen, DropFolder
  <2>2. CASE Return(c)
    BY <2>1, <2>2, Leaves
  <2>3. CASE ~Return(c)
    <3>1. UNCHANGED <<storeMu, proxyMu, goal>> /\ pc[c] \in Removing
      BY <1>4, <2>3 DEF Untrust, UntrustThen, DropFolder
    <3>2. \E l \in {"dropKey", "unrecord"} : Goto(c, l)
      BY <1>4, <2>3 DEF Untrust, UntrustThen, DropFolder
    <3>3. QED
      BY <2>1, <3>1, <3>2, GoesOn
  <2>4. QED
    BY <2>2, <2>3
<1>5. CASE DropKey(c)
  <2>1. /\ UNCHANGED <<storeMu, proxyMu, goal, proxyOn, platform>>
        /\ pc[c] = "dropKey" /\ Goto(c, "dropFolder")
        /\ gen' # None => gen # None
    BY <1>5 DEF DropKey, CloseKey
  <2>2. QED
    BY <2>1, GoesOn
<1>6. CASE Unrecord(c)
  <2>1. UNCHANGED <<gen, proxyOn, platform>> /\ pc[c] = "unrecord"
    BY <1>6 DEF Unrecord
  <2>2. CASE goal[c] = None
    BY <1>6, <2>1, <2>2, Leaves DEF Unrecord
  <2>3. CASE goal[c] # None
    <3>1. storeMu' = None /\ Goto(c, "setStorage") /\ UNCHANGED <<proxyMu, goal>>
      BY <1>6, <2>3 DEF Unrecord
    <3>2. Pass(c, "setStorage") /\ pc'[c] = "setStorage" /\ goal' = goal
      BY <1>1, <2>1, <3>1 DEF Goto, Pass, LockTypes, LockInv
    <3>3. LockInv(c)'
      BY <1>1, <2>1, <2>3, <3>1, <3>2 DEF LockInv, HasHardware
    <3>4. QED
      BY <1>1, <2>1, <3>1, <3>2, <3>3 DEF InOrder, ProxyInv, LockTypes
  <2>4. QED
    BY <2>2, <2>3
<1>7. QED
  BY <1>2, <1>3, <1>4, <1>5, <1>6

(* A switch of the key storage holds proxyMu throughout.                   *)
LEMMA SwitchInOrder ==
  ASSUME Locks, NEW c \in Caller,
         (\E s \in Storage : SetCAKeyStorage(c, s)) \/ DiscardKey(c) \/ SetStorage(c)
  PROVE  InOrder(c)
<1> USE Places
<1>1. LockInv(c) /\ LockTypes /\ ProxyInv
  BY DEF Locks
<1>2. ASSUME NEW s \in Storage, SetCAKeyStorage(c, s)  PROVE InOrder(c)
  <2>1. PICK l \in {"uninstall", "discard"} : Goto(c, l)
    BY <1>2 DEF SetCAKeyStorage
  <2>2. /\ Pass(c, l) /\ pc'[c] = l /\ goal'[c] = s /\ proxyMu' = c
        /\ UNCHANGED <<storeMu, proxyOn, gen, platform>>
    BY <1>1, <1>2, <2>1 DEF SetCAKeyStorage, Goto, Pass, LockTypes
  <2>3. LockInv(c)'
    BY <1>1, <1>2, <2>2
    DEF SetCAKeyStorage, LockInv, HasHardware, Starting, Installing, Removing, Switching
  <2>4. QED
    BY <1>1, <1>2, <2>2, <2>3
    DEF SetCAKeyStorage, InOrder, ProxyInv, LockTypes, Switching
<1>3. CASE DiscardKey(c)
  <2>1. /\ UNCHANGED <<storeMu, proxyMu, goal, proxyOn, platform>>
        /\ pc[c] = "discard" /\ Goto(c, "setStorage")
        /\ gen' # None => gen # None
    BY <1>3 DEF DiscardKey, CloseKey
  <2>2. QED
    BY <2>1, GoesOn DEF Switching
<1>4. CASE SetStorage(c)
  BY <1>4, Leaves DEF SetStorage
<1>5. QED
  BY <1>2, <1>3, <1>4

(* Every caller's step leaves the locks in order, the other callers' too.  *)
LEMMA LocksStep ==
  ASSUME Locks, NEW c \in Caller, CallerStep(c)
  PROVE  Locks' /\ InOrder(c)
<1>1. InOrder(c)
  BY StartInOrder, InstallInOrder, RemoveInOrder, SwitchInOrder DEF CallerStep
<1>2. PICK l \in Place : Pass(c, l)
  BY <1>1 DEF InOrder
<1>3. LockTypes'
  BY <1>1, <1>2 DEF Locks, LockTypes, Pass, InOrder
<1>4. ASSUME NEW d \in Caller, d # c  PROVE LockInv(d)'
  <2>1. pc'[d] = pc[d] /\ goal'[d] = goal[d]
    BY <1>2, <1>4 DEF Pass, Locks, LockTypes
  <2>2. (storeMu' = d <=> storeMu = d) /\ (proxyMu' = d <=> proxyMu = d)
    BY <1>2, <1>4, Places DEF Pass
  <2>3. LockInv(d) /\ UNCHANGED platform
    BY <1>1 DEF Locks, InOrder
  <2>4. QED
    BY <2>1, <2>2, <2>3 DEF LockInv, HasHardware
<1>5. QED
  BY <1>1, <1>3, <1>4 DEF Locks, InOrder

-----------------------------------------------------------------------------
(* Where a step happens                                                    *)

(* In the terms of the invariants: where the caller that acts is, and      *)
(* where those who hold the mutexes are then.                              *)
Where(c) ==
  /\ pc[c] \in Installing \cup Removing => InStore = pc[c]
  /\ pc[c] \in Starting \cup Switching => InProxy = pc[c]
  /\ InStore \in Installing => InProxy = InStore
  /\ pc[c] \in Installing \cup Removing \/ pc'[c] \notin Installing \cup Removing
       \/ InStore = "free"
  /\ InStore' = IF pc'[c] \in Installing \cup Removing THEN pc'[c]
                ELSE IF pc[c] \in Installing \cup Removing THEN "free" ELSE InStore
  /\ \/ pc'[c] \in Starting \cup Switching /\ InProxy' = pc'[c]
     \/ InProxy' \notin Starting \cup Switching
     \/ InProxy' = InProxy /\ pc[c] \notin Starting \cup Switching
  /\ pc[c] \in Starting \cup Switching \/ pc'[c] \notin Starting \cup Switching
       \/ InProxy \notin Starting \cup Switching

(* It follows from the locks.                                              *)
LEMMA WhereStep ==
  ASSUME Locks, NEW c \in Caller, CallerStep(c)
  PROVE  Where(c)
<1>1. PICK l \in Place : Pass(c, l)
  BY LocksStep DEF InOrder
<1>2. Locks' /\ LockInv(c) /\ LockInv(c)' /\ LockTypes /\ LockTypes' /\ pc'[c] = l
  BY <1>1, LocksStep DEF Locks, Pass, LockTypes
<1>3. \A d \in Caller : d # c => pc'[d] = pc[d]
  BY <1>1, <1>2 DEF Pass, LockTypes
<1>4. None # c
  BY Places
<1>5. InStore' = IF l \in Installing \cup Removing THEN l
                 ELSE IF pc[c] \in Installing \cup Removing THEN "free" ELSE InStore
  <2>1. CASE storeMu' = c
    BY <1>2, <1>4, <2>1 DEF InStore, LockInv
  <2>2. CASE storeMu' # c /\ storeMu = c
    BY <1>1, <1>2, <1>4, <2>2 DEF InStore, LockInv, Pass
  <2>3. CASE storeMu' # c /\ storeMu # c
    BY <1>1, <1>2, <1>3, <1>4, <2>3 DEF InStore, LockInv, Pass, LockTypes
  <2>4. QED
    BY <2>1, <2>2, <2>3
<1>6. /\ pc[c] \in Installing \cup Removing => InStore = pc[c]
      /\ pc[c] \in Starting \cup Switching => InProxy = pc[c]
  BY <1>2, <1>4 DEF InStore, InProxy, LockInv
<1>7. pc[c] \in Installing \cup Removing \/ l \notin Installing \cup Removing
        \/ InStore = "free"
  BY <1>1, <1>2 DEF InStore, LockInv, Pass
<1>8. \/ l \in Starting \cup Switching /\ InProxy' = l
      \/ InProxy' \notin Starting \cup Switching
      \/ InProxy' = InProxy /\ pc[c] \notin Starting \cup Switching
  <2>1. CASE proxyMu' = c
    BY <1>2, <1>4, <2>1 DEF InProxy
  <2>2. CASE proxyMu' = None
    BY <2>2 DEF InProxy, Starting, Installing, Switching
  <2>3. CASE proxyMu' # c /\ proxyMu' # None
    <3>1. proxyMu' = proxyMu /\ proxyMu \in Caller
      BY <1>1, <1>2, <2>3 DEF Pass, LockTypes
    <3>2. InProxy' = InProxy /\ pc[c] \notin Starting \cup Switching
      BY <1>2, <1>3, <2>3, <3>1 DEF InProxy, LockInv
    <3>3. QED
      BY <3>2
  <2>4. QED
    BY <2>1, <2>2, <2>3
<1>9. pc[c] \in Starting \cup Switching \/ l \notin Starting \cup Switching
       \/ InProxy \notin Starting \cup Switching
  <2>1. SUFFICES ASSUME l \in Starting \cup Switching, pc[c] \notin Starting \cup Switching
                 PROVE  InProxy \notin Starting \cup Switching
    OBVIOUS
  <2>2. proxyMu \in {None, c}
    BY <1>1, <1>2, <2>1 DEF Pass, LockInv
  <2>3. QED
    BY <1>4, <2>1, <2>2 DEF InProxy, Starting, Installing, Switching
<1>10. InStore \in Installing => InProxy = InStore
  BY <1>2, Places DEF Locks, LockTypes, LockInv, InStore, InProxy, Starting, Installing
<1>11. QED
  BY <1>2, <1>5, <1>6, <1>7, <1>8, <1>9, <1>10 DEF Where

-----------------------------------------------------------------------------
(* What a step does to certificate, keys, trust and records                *)

DataTypes ==
  /\ platform \in Platform
  /\ saved \in [installed : BOOLEAN, storage : Storage]
  /\ conf \in [installed : BOOLEAN, storage : Storage]
  /\ certFile \in CA \cup {None} /\ keys \in [Storage -> CA \cup {None}]
  /\ sysTrust \subseteq CA /\ nssTrust \subseteq CA
  /\ cert \in CA \cup {None}
  /\ faults \in 0 .. MaxFaults

Data == DataTypes /\ AnyFaults
Kept == AnyFaults' /\ (OneFault /\ MaxFaults <= 1 => OneFault')

(* None is no CA, there are two storages, and the backend of the keys is   *)
(* the recorded one, for without hardware keys none is ever recorded.      *)
LEMMA DataFacts ==
  ASSUME Data
  PROVE  /\ DataTypes /\ RecordInv /\ CertInv /\ TrustInv /\ FreshInv /\ KeysDiffer
         /\ None \notin CA /\ None \notin sysTrust /\ MaxFaults \in Nat
         /\ Storage = {"disk", "hardware"}
         /\ conf.storage \in Storage /\ saved.storage \in Storage
         /\ conf.installed \in BOOLEAN /\ saved.installed \in BOOLEAN
         /\ Backend = conf.storage
         /\ \/ conf.storage = "disk" /\ Other = "hardware"
            \/ conf.storage = "hardware" /\ Other = "disk"
BY CertStoreAssumption
DEF Data, DataTypes, AnyFaults, RecordInv, Backend, Storage, HasHardware, Other

(* Where nothing is added, a CA that was free stays so.                    *)
LEMMA FreshGrows ==
  ASSUME Data, sysTrust' \subseteq sysTrust, nssTrust' \subseteq nssTrust,
         \A s \in Storage : keys'[s] \in {keys[s], None},
         certFile' \in {certFile, None}, cert' \in {cert, certFile, None}
  PROVE  Fresh \subseteq Fresh'
<1>1. None \notin CA
  BY DataFacts
<1>2. QED
  BY <1>1 DEF Fresh

(* A fault is paid for: with at most one there was none before.            *)
LEMMA FaultSpends ==
  ASSUME Data
  PROVE  /\ NoFault => (Spent' <=> Spent)
         /\ Fault => ~Spent
         /\ MaxFaults <= 1 /\ Fault => Spent'
BY DataFacts DEF NoFault, Fault, Spent, DataTypes

(* What the platform can do to keys and trust.                             *)
LEMMA RemoveOutcome ==
  ASSUME NEW old, NEW o \in RemoveOutcomes(old)
  PROVE  (o.left = None /\ ~o.fault) \/ (o.left = old /\ o.fault)
BY DEF RemoveOutcomes, Done, Broken, Outcome

(* Installing trust adds the CA or nothing, and nothing when it is refused *)
(* without a fault.                                                        *)
LEMMA InstallOutcome ==
  ASSUME platform \in Platform, HasSystemTrust, NEW trust, NEW ca,
         NEW o \in InstallTrustOutcomes(trust, ca)
  PROVE  /\ o.left \in {trust, trust \cup {ca}}
         /\ o.ok \/ o.fault \/ o.left = trust
BY DEF Platform, HasSystemTrust, InstallTrustOutcomes, InstallTrustLinux,
       InstallTrustDarwin, InstallTrustWindows, Done, Refused, Broken, Outcome

(* Removing trust removes at most the CA, and surely does when it reports  *)
(* success.                                                                *)
LEMMA UninstallOutcome ==
  ASSUME platform \in Platform, HasSystemTrust, NEW trust, NEW ca,
         NEW o \in UninstallTrustOutcomes(trust, ca)
  PROVE  /\ o.left \in {trust, trust \ {ca}}
         /\ o.ok = TRUE => o.left = trust \ {ca}
BY DEF Platform, HasSystemTrust, UninstallTrustOutcomes, UninstallTrustLinux,
       UninstallTrustDarwin, UninstallTrustWindows, Done, Refused, Broken, Outcome

(* An NSS database loses at most the CA.                                   *)
LEMMA NSSOutcome ==
  ASSUME NEW trust, NEW ca, NEW o \in UninstallNSSOutcomes(trust, ca)
  PROVE  o.left \in {trust, trust \ {ca}}
BY DEF UninstallNSSOutcomes, Done, Refused, Outcome

(* Creating a key leaves the old one, the new one or none.                 *)
LEMMA GenerateOutcome ==
  ASSUME NEW old, NEW new, NEW o \in GenerateOutcomes(old, new)
  PROVE  o.left \in {old, new, None}
BY DEF GenerateOutcomes, GenerateDisk, CreateKeyDarwin, CreateKeyWindows, Done, Broken,
       Outcome

(* A CA that is free is none that anything refers to.                      *)
LEMMA FreshFacts ==
  ASSUME Data, NEW ca \in Fresh
  PROVE  /\ ca # None /\ ca \notin sysTrust /\ ca # certFile /\ ca # cert
         /\ keys["disk"] # ca /\ keys["hardware"] # ca
BY DataFacts DEF Fresh

(* The keys are the one in use and the other.                              *)
LEMMA TwoKeys ==
  ASSUME Data
  PROVE  NoKeyTrusted <=> keys[conf.storage] \notin sysTrust /\ keys[Other] \notin sysTrust
BY DataFacts DEF NoKeyTrusted

(* DiskCertStore.Init loads the CA and decides how to go on.               *)
LEMMA InitLoadKeeps ==
  ASSUME Data, Locks, NEW c \in Caller, Where(c), InitLoad(c)
  PROVE  Kept
<1>1. /\ pc[c] = "init" /\ pc'[c] \in {"idle", "newGenerator", "trust", "wipe"}
      /\ InStore = "free"
      /\ UNCHANGED <<platform, saved, conf, certFile, keys, sysTrust>>
      /\ cert' = IF certFile = None THEN cert ELSE certFile
      /\ Fault \/ NoFault
      /\ pc'[c] = "trust" => ~conf.installed /\ certFile # None /\ keys[conf.storage] = certFile
      /\ pc'[c] = "wipe" => ~conf.installed /\ nssTrust' = nssTrust
      /\ pc'[c] = "wipe" /\ ~Fault => NoFault /\ (certFile = None \/ keys[conf.storage] # certFile)
  BY DataFacts, LockFacts DEF InitLoad, InStore, LoadCA, LoadOk, MayFail, Return, Goto
<1>2. pc[c] = "init" /\ pc'[c] \in {"idle", "newGenerator", "trust", "wipe"}
  BY <1>1
<1>3. /\ pc'[c] # "idle" /\ pc'[c] # "newGenerator" => InStore = "free"
      /\ InStore' = IF pc'[c] \in Installing \cup Removing THEN pc'[c] ELSE InStore
      /\ InProxy = "init"
      /\ InProxy' = pc'[c] \/ InProxy' \notin Starting \cup Switching
  BY <1>2 DEF Where, Starting, Installing, Removing, Switching
<1>4. Other' = Other
  BY <1>1, DataFacts DEF Other, DataTypes
<1>5. RecordInv'
  BY <1>1, <1>3, DataFacts DEF RecordInv, HasHardware, Installing, Removing, Switching
<1>6. CertInv'
  BY <1>1, <1>3 DEF CertInv, Removing
<1>7. TrustInv'
  BY <1>1, <1>3, DataFacts DEF TrustInv, HasSystemTrust
<1>8. FreshInv'
  BY <1>1, <1>3, DataFacts, FreshGrows DEF FreshInv, Starting, Installing
<1>9. KeysDiffer'
  BY <1>1, DataFacts DEF KeysDiffer
<1>10. ASSUME OneFault, MaxFaults <= 1  PROVE SavedInv'
  BY <1>1, <1>10, FaultSpends DEF SavedInv, OneFault
<1>11. ASSUME OneFault, MaxFaults <= 1, NEW s \in Storage  PROVE KeyMatches(s)'
  BY <1>1, <1>11 DEF KeyMatches, OneFault, KeyInv
<1>12. ASSUME OneFault, MaxFaults <= 1  PROVE OtherKey'
  BY <1>1, <1>4, <1>12 DEF OtherKey, OneFault, KeyInv
<1>13. ASSUME OneFault, MaxFaults <= 1  PROVE NoKeyYet'
  <2>1. CASE InStore' = "wipe"
    <3>1. keys[conf.storage] \notin sysTrust /\ keys[Other] \notin sysTrust
      BY <1>1, <1>3, <1>13, <2>1, DataFacts, TwoKeys, FaultSpends
      DEF OneFault, KeyInv, KeyMatches, OtherKey, OrderInv, Trusting
    <3>2. NoKeyTrusted'
      BY <1>1, <3>1, TwoKeys DEF NoKeyTrusted
    <3>3. QED
      BY <3>2 DEF NoKeyYet
  <2>2. CASE InStore' # "wipe"
    BY <1>1, <1>3, <2>2 DEF NoKeyYet, Switching
  <2>3. QED
    BY <2>1, <2>2
<1>14. ASSUME OneFault, MaxFaults <= 1  PROVE OrderInv'
  BY <1>1, <1>14, FaultSpends
  DEF OrderInv, NoKeyTrusted, NoCertTrusted, Trusting, OneFault
<1>15. QED
  BY <1>5, <1>6, <1>7, <1>8, <1>9, <1>10, <1>11, <1>12, <1>13, <1>14
  DEF Kept, AnyFaults, OneFault, KeyInv

(* The folder is removed before a CA is made.                              *)
LEMMA WipeKeeps ==
  ASSUME Data, Locks, NEW c \in Caller, Where(c), Wipe(c)
  PROVE  Kept
<1>1. /\ pc[c] = "wipe" /\ pc'[c] \in {"idle", "generate"}
      /\ UNCHANGED <<platform, saved, conf, cert, sysTrust, nssTrust>>
      /\ keys'["hardware"] = keys["hardware"]
      /\ keys'["disk"] \in {keys["disk"], None} /\ certFile' \in {certFile, None}
      /\ Fault \/ (NoFault /\ pc'[c] = "generate")
      /\ pc'[c] = "generate" => certFile' = None
  BY DataFacts, LockFacts
  DEF Wipe, RemoveFolder, memory, MayFail, Return, Goto, DataTypes
<1>2. pc[c] = "wipe" /\ pc'[c] \in {"idle", "generate"}
  BY <1>1
<1>3. /\ InStore = "wipe"
      /\ InStore' = IF pc'[c] \in Installing \cup Removing THEN pc'[c] ELSE "free"
      /\ InProxy = "wipe"
      /\ InProxy' = pc'[c] \/ InProxy' \notin Starting \cup Switching
  BY <1>2 DEF Where, Starting, Installing, Removing, Switching
<1>4. Other' = Other
  BY <1>1, DataFacts DEF Other, DataTypes
<1>5. RecordInv'
  BY <1>1, <1>3, DataFacts DEF RecordInv, HasHardware, Installing, Removing
<1>6. CertInv'
  BY <1>1, <1>3, DataFacts DEF CertInv, Removing
<1>7. TrustInv'
  BY <1>1, <1>3, DataFacts DEF TrustInv, HasSystemTrust
<1>8. FreshInv'
  BY <1>1, <1>3, DataFacts, FreshGrows DEF FreshInv
<1>9. KeysDiffer'
  BY <1>1, DataFacts DEF KeysDiffer
<1>10. ASSUME OneFault, MaxFaults <= 1  PROVE SavedInv'
  BY <1>1, <1>10, FaultSpends DEF SavedInv, OneFault
<1>11. ASSUME OneFault, MaxFaults <= 1, NEW s \in Storage  PROVE KeyMatches(s)'
  BY <1>1, <1>3, <1>11, DataFacts DEF KeyMatches, OneFault, KeyInv, NoKeyYet, NoKeyTrusted
<1>12. ASSUME OneFault, MaxFaults <= 1  PROVE OtherKey'
  BY <1>1, <1>4, <1>12, DataFacts DEF OtherKey, OneFault, KeyInv
<1>13. ASSUME OneFault, MaxFaults <= 1  PROVE NoKeyYet'
  BY <1>1, <1>3, <1>13, DataFacts DEF NoKeyYet, NoKeyTrusted, OneFault, KeyInv
<1>14. ASSUME OneFault, MaxFaults <= 1  PROVE OrderInv'
  BY <1>1, <1>3, <1>14, DataFacts, FaultSpends
  DEF OrderInv, NoKeyTrusted, NoCertTrusted, Trusting, OneFault
<1>15. QED
  BY <1>5, <1>6, <1>7, <1>8, <1>9, <1>10, <1>11, <1>12, <1>13, <1>14
  DEF Kept, AnyFaults, OneFault, KeyInv

(* The key is made.                                                        *)
LEMMA GenerateKeeps ==
  ASSUME Data, Locks, NEW c \in Caller, Where(c), Generate(c)
  PROVE  Kept
<1>1. /\ pc[c] = "generate" /\ pc'[c] \in {"idle", "certify"}
      /\ UNCHANGED <<platform, saved, conf, cert, certFile, sysTrust, nssTrust>>
      /\ keys'[Other] = keys[Other] /\ keys'[conf.storage] \in {keys[conf.storage], None} \cup Fresh
      /\ Fault \/ NoFault
  <2> DEFINE new == CHOOSE ca \in Fresh : TRUE
  <2>1. new \in Fresh
    BY DataFacts DEF Where, Starting, Installing, Generate, FreshInv
  <2>2. PICK o \in GenerateOutcomes(keys[conf.storage], new) :
          /\ Count(o) /\ keys' = [keys EXCEPT ![conf.storage] = o.left]
          /\ Goto(c, "certify") \/ Return(c)
    BY DataFacts DEF Generate
  <2>3. o.left \in {keys[conf.storage], None} \cup Fresh
    BY <2>1, <2>2, GenerateOutcome
  <2>4. pc'[c] \in {"idle", "certify"} /\ (Fault \/ NoFault)
    BY <2>2, LockFacts DEF Count, MayFail, Goto, Return
  <2>5. QED
    BY <2>2, <2>3, <2>4, DataFacts DEF Generate, DataTypes, memory
<1>2. pc[c] = "generate" /\ pc'[c] \in {"idle", "certify"}
  BY <1>1
<1>3. /\ InStore = "generate"
      /\ InStore' = IF pc'[c] \in Installing \cup Removing THEN pc'[c] ELSE "free"
      /\ InProxy = "generate"
      /\ InProxy' = pc'[c] \/ InProxy' \notin Starting \cup Switching
  BY <1>2 DEF Where, Starting, Installing, Removing, Switching
<1>4. Other' = Other
  BY <1>1, DataFacts DEF Other, DataTypes
<1>5. RecordInv'
  BY <1>1, <1>3, DataFacts DEF RecordInv, HasHardware, Installing, Removing
<1>6. CertInv'
  BY <1>1, <1>3, DataFacts DEF CertInv, Removing
<1>7. TrustInv'
  BY <1>1, <1>3, DataFacts DEF TrustInv, HasSystemTrust
<1>8. FreshInv'
  BY <1>1, <1>3 DEF FreshInv, Starting, Installing
<1>9. KeysDiffer'
  BY <1>1, DataFacts, FreshFacts DEF KeysDiffer
<1>10. ASSUME OneFault, MaxFaults <= 1  PROVE SavedInv'
  BY <1>1, <1>10, FaultSpends DEF SavedInv, OneFault
<1>11. ASSUME OneFault, MaxFaults <= 1, NEW s \in Storage  PROVE KeyMatches(s)'
  BY <1>1, <1>11, DataFacts, FreshFacts DEF KeyMatches, OneFault, KeyInv
<1>12. ASSUME OneFault, MaxFaults <= 1  PROVE OtherKey'
  BY <1>1, <1>4, <1>12 DEF OtherKey, OneFault, KeyInv
<1>13. ASSUME OneFault, MaxFaults <= 1  PROVE NoKeyYet'
  BY <1>1, <1>3, <1>13, DataFacts, FreshFacts DEF NoKeyYet, NoKeyTrusted, OneFault, KeyInv
<1>14. ASSUME OneFault, MaxFaults <= 1  PROVE OrderInv'
  BY <1>1, <1>3, <1>14, DataFacts, FaultSpends, FreshFacts
  DEF OrderInv, NoKeyTrusted, NoCertTrusted, Trusting, OneFault
<1>15. QED
  BY <1>5, <1>6, <1>7, <1>8, <1>9, <1>10, <1>11, <1>12, <1>13, <1>14
  DEF Kept, AnyFaults, OneFault, KeyInv

(* Its certificate is written.                                             *)
LEMMA CertifyKeeps ==
  ASSUME Data, Locks, NEW c \in Caller, Where(c), Certify(c)
  PROVE  Kept
<1>1. /\ pc[c] = "certify" /\ pc'[c] \in {"idle", "reload"}
      /\ UNCHANGED <<platform, saved, conf, cert, keys, sysTrust, nssTrust>>
      /\ certFile' \in {certFile, keys[conf.storage]}
      /\ Fault \/ NoFault
  BY DataFacts, LockFacts DEF Certify, memory, MayFail, Return, Goto
<1>2. pc[c] = "certify" /\ pc'[c] \in {"idle", "reload"}
  BY <1>1
<1>3. /\ InStore = "certify"
      /\ InStore' = IF pc'[c] \in Installing \cup Removing THEN pc'[c] ELSE "free"
      /\ InProxy = "certify"
      /\ InProxy' = pc'[c] \/ InProxy' \notin Starting \cup Switching
  BY <1>2 DEF Where, Starting, Installing, Removing, Switching
<1>4. Other' = Other
  BY <1>1, DataFacts DEF Other, DataTypes
<1>5. RecordInv'
  BY <1>1, <1>3, DataFacts DEF RecordInv, HasHardware, Installing, Removing
<1>6. CertInv'
  BY <1>1, <1>3, DataFacts DEF CertInv, Installing, Removing, RecordInv
<1>7. TrustInv'
  BY <1>1, <1>3, DataFacts DEF TrustInv, HasSystemTrust
<1>8. FreshInv'
  BY <1>1, <1>3 DEF FreshInv, Starting, Installing
<1>9. KeysDiffer'
  BY <1>1, DataFacts DEF KeysDiffer
<1>10. ASSUME OneFault, MaxFaults <= 1  PROVE SavedInv'
  BY <1>1, <1>10, FaultSpends DEF SavedInv, OneFault
<1>11. ASSUME OneFault, MaxFaults <= 1, NEW s \in Storage  PROVE KeyMatches(s)'
  BY <1>1, <1>11, DataFacts DEF KeyMatches, OneFault, KeyInv, OtherKey
<1>12. ASSUME OneFault, MaxFaults <= 1  PROVE OtherKey'
  BY <1>1, <1>4, <1>12, DataFacts DEF OtherKey, OneFault, KeyInv, KeysDiffer
<1>13. ASSUME OneFault, MaxFaults <= 1  PROVE NoKeyYet'
  BY <1>1, <1>3, <1>13 DEF NoKeyYet, NoKeyTrusted, OneFault, KeyInv
<1>14. ASSUME OneFault, MaxFaults <= 1  PROVE OrderInv'
  BY <1>1, <1>3, <1>14, DataFacts
  DEF OrderInv, NoKeyTrusted, NoCertTrusted, Trusting, OneFault, KeyInv, NoKeyYet
<1>15. QED
  BY <1>5, <1>6, <1>7, <1>8, <1>9, <1>10, <1>11, <1>12, <1>13, <1>14
  DEF Kept, AnyFaults, OneFault, KeyInv

(* The new CA is loaded.                                                   *)
LEMMA InitReloadKeeps ==
  ASSUME Data, Locks, NEW c \in Caller, Where(c), InitReload(c)
  PROVE  Kept
<1>1. /\ pc[c] = "reload" /\ pc'[c] \in {"idle", "trust"}
      /\ UNCHANGED <<platform, saved, conf, certFile, keys, sysTrust, nssTrust>>
      /\ cert' = IF certFile = None THEN cert ELSE certFile
      /\ pc'[c] = "trust" => certFile # None /\ keys[conf.storage] = certFile
      /\ Fault \/ NoFault
  BY DataFacts, LockFacts DEF InitReload, LoadCA, LoadOk, MayFail, Return, Goto, disk
<1>2. pc[c] = "reload" /\ pc'[c] \in {"idle", "trust"}
  BY <1>1
<1>3. /\ InStore = "reload"
      /\ InStore' = IF pc'[c] \in Installing \cup Removing THEN pc'[c] ELSE "free"
      /\ InProxy = "reload"
      /\ InProxy' = pc'[c] \/ InProxy' \notin Starting \cup Switching
  BY <1>2 DEF Where, Starting, Installing, Removing, Switching
<1>4. Other' = Other
  BY <1>1, DataFacts DEF Other, DataTypes
<1>5. RecordInv'
  BY <1>1, <1>3, DataFacts DEF RecordInv, HasHardware, Installing, Removing
<1>6. CertInv'
  BY <1>1, <1>3 DEF CertInv, Removing
<1>7. TrustInv'
  BY <1>1, <1>3, DataFacts DEF TrustInv, HasSystemTrust
<1>8. FreshInv'
  BY <1>1, <1>3 DEF FreshInv, Starting, Installing
<1>9. KeysDiffer'
  BY <1>1, DataFacts DEF KeysDiffer
<1>10. ASSUME OneFault, MaxFaults <= 1  PROVE SavedInv'
  BY <1>1, <1>10, FaultSpends DEF SavedInv, OneFault
<1>11. ASSUME OneFault, MaxFaults <= 1, NEW s \in Storage  PROVE KeyMatches(s)'
  BY <1>1, <1>11 DEF KeyMatches, OneFault, KeyInv
<1>12. ASSUME OneFault, MaxFaults <= 1  PROVE OtherKey'
  BY <1>1, <1>4, <1>12 DEF OtherKey, OneFault, KeyInv
<1>13. ASSUME OneFault, MaxFaults <= 1  PROVE NoKeyYet'
  BY <1>1, <1>3 DEF NoKeyYet, Switching
<1>14. ASSUME OneFault, MaxFaults <= 1  PROVE OrderInv'
  BY <1>1, <1>3, <1>14, FaultSpends
  DEF OrderInv, NoKeyTrusted, NoCertTrusted, Trusting, OneFault
<1>15. QED
  BY <1>5, <1>6, <1>7, <1>8, <1>9, <1>10, <1>11, <1>12, <1>13, <1>14
  DEF Kept, AnyFaults, OneFault, KeyInv

(* The CA becomes trusted; a refusal leaves nothing behind.                *)
LEMMA InstallTrustKeeps ==
  ASSUME Data, Locks, NEW c \in Caller, Where(c), InstallTrust(c)
  PROVE  Kept
<1>1. /\ pc[c] = "trust" /\ pc'[c] \in {"idle", "nss"}
      /\ UNCHANGED <<platform, saved, conf, cert, certFile, keys, nssTrust>>
      /\ sysTrust' \in {sysTrust, sysTrust \cup {cert}}
      /\ ~HasSystemTrust => sysTrust' = sysTrust
      /\ Fault \/ (NoFault /\ (pc'[c] = "nss" \/ sysTrust' = sysTrust))
  BY DataFacts, LockFacts, InstallOutcome
  DEF InstallTrust, Count, MayFail, memory, Return, Goto, DataTypes
<1>2. pc[c] = "trust" /\ pc'[c] \in {"idle", "nss"}
  BY <1>1
<1>3. /\ InStore = "trust"
      /\ InStore' = IF pc'[c] \in Installing \cup Removing THEN pc'[c] ELSE "free"
      /\ InProxy = "trust"
      /\ InProxy' = pc'[c] \/ InProxy' \notin Starting \cup Switching
  BY <1>2 DEF Where, Starting, Installing, Removing, Switching
<1>4. Other' = Other
  BY <1>1, DataFacts DEF Other, DataTypes
<1>5. RecordInv'
  BY <1>1, <1>3, DataFacts DEF RecordInv, HasHardware, Installing, Removing
<1>6. CertInv'
  BY <1>1, <1>3, DataFacts DEF CertInv
<1>7. TrustInv'
  BY <1>1, <1>3, DataFacts DEF TrustInv, HasSystemTrust
<1>8. FreshInv'
  BY <1>1, <1>3 DEF FreshInv, Starting, Installing
<1>9. KeysDiffer'
  BY <1>1, DataFacts DEF KeysDiffer
<1>10. ASSUME OneFault, MaxFaults <= 1  PROVE SavedInv'
  BY <1>1, <1>10, FaultSpends DEF SavedInv, OneFault
<1>11. ASSUME OneFault, MaxFaults <= 1, NEW s \in Storage  PROVE KeyMatches(s)'
  BY <1>1, <1>3, <1>11, DataFacts DEF KeyMatches, OneFault, KeyInv, CertInv
<1>12. ASSUME OneFault, MaxFaults <= 1  PROVE OtherKey'
  BY <1>1, <1>3, <1>4, <1>12, DataFacts
  DEF OtherKey, OneFault, KeyInv, CertInv, KeysDiffer
<1>13. ASSUME OneFault, MaxFaults <= 1  PROVE NoKeyYet'
  BY <1>1, <1>3 DEF NoKeyYet, Switching
<1>14. ASSUME OneFault, MaxFaults <= 1  PROVE OrderInv'
  BY <1>1, <1>3, <1>14, FaultSpends
  DEF OrderInv, NoKeyTrusted, NoCertTrusted, Trusting, Installing, OneFault, SavedInv
<1>15. QED
  BY <1>5, <1>6, <1>7, <1>8, <1>9, <1>10, <1>11, <1>12, <1>13, <1>14
  DEF Kept, AnyFaults, OneFault, KeyInv

(* NSS is told; that matters only without a system trust store.            *)
LEMMA InstallNSSKeeps ==
  ASSUME Data, Locks, NEW c \in Caller, Where(c), InstallNSS(c)
  PROVE  Kept
<1>1. /\ pc[c] = "nss" /\ pc'[c] \in {"idle", "record"}
      /\ UNCHANGED <<platform, saved, conf, cert, certFile, keys, sysTrust>>
      /\ NoFault
      /\ pc'[c] = "idle" => ~HasSystemTrust
  BY DataFacts, LockFacts DEF InstallNSS, memory, Return, Goto, DataTypes
<1>2. pc[c] = "nss" /\ pc'[c] \in {"idle", "record"}
  BY <1>1
<1>3. /\ InStore = "nss"
      /\ InStore' = IF pc'[c] \in Installing \cup Removing THEN pc'[c] ELSE "free"
      /\ InProxy = "nss"
      /\ InProxy' = pc'[c] \/ InProxy' \notin Starting \cup Switching
  BY <1>2 DEF Where, Starting, Installing, Removing, Switching
<1>4. Other' = Other
  BY <1>1, DataFacts DEF Other, DataTypes
<1>5. RecordInv'
  BY <1>1, <1>3, DataFacts DEF RecordInv, HasHardware, Installing, Removing
<1>6. CertInv'
  BY <1>1, <1>3, DataFacts DEF CertInv
<1>7. TrustInv'
  BY <1>1, <1>3, DataFacts DEF TrustInv, HasSystemTrust
<1>8. FreshInv'
  BY <1>1, <1>3 DEF FreshInv, Starting, Installing
<1>9. KeysDiffer'
  BY <1>1, DataFacts DEF KeysDiffer
<1>10. ASSUME OneFault, MaxFaults <= 1  PROVE SavedInv'
  BY <1>1, <1>10, FaultSpends DEF SavedInv, OneFault
<1>11. ASSUME OneFault, MaxFaults <= 1, NEW s \in Storage  PROVE KeyMatches(s)'
  BY <1>1, <1>11 DEF KeyMatches, OneFault, KeyInv
<1>12. ASSUME OneFault, MaxFaults <= 1  PROVE OtherKey'
  BY <1>1, <1>4, <1>12 DEF OtherKey, OneFault, KeyInv
<1>13. ASSUME OneFault, MaxFaults <= 1  PROVE NoKeyYet'
  BY <1>1, <1>3 DEF NoKeyYet, Switching
<1>14. ASSUME OneFault, MaxFaults <= 1  PROVE OrderInv'
  BY <1>1, <1>3, DataFacts
  DEF OrderInv, NoKeyTrusted, NoCertTrusted, Trusting, Installing, TrustInv
<1>15. QED
  BY <1>5, <1>6, <1>7, <1>8, <1>9, <1>10, <1>11, <1>12, <1>13, <1>14
  DEF Kept, AnyFaults, OneFault, KeyInv

(* The CA is recorded as installed.                                        *)
LEMMA RecordKeeps ==
  ASSUME Data, Locks, NEW c \in Caller, Where(c), Record(c)
  PROVE  Kept
<1>1. /\ pc[c] = "record" /\ pc'[c] = "newGenerator"
      /\ UNCHANGED <<platform, cert, certFile, keys, sysTrust, nssTrust>>
      /\ conf' = [conf EXCEPT !.installed = TRUE]
      /\ (saved' = conf' /\ NoFault) \/ (saved' = saved /\ Fault)
  BY DataFacts, LockFacts DEF Record, Update, MayFail, Goto
<1>2. pc[c] = "record" /\ pc'[c] \in {"newGenerator"}
  BY <1>1
<1>3. /\ InStore = "record"
      /\ InStore' = IF pc'[c] \in Installing \cup Removing THEN pc'[c] ELSE "free"
      /\ InProxy = "record"
      /\ InProxy' = pc'[c] \/ InProxy' \notin Starting \cup Switching
  BY <1>2 DEF Where, Starting, Installing, Removing, Switching
<1>4. Other' = Other
  BY <1>1, DataFacts DEF Other, DataTypes
<1>5. RecordInv'
  BY <1>1, <1>3, DataFacts DEF RecordInv, HasHardware, Installing, Switching, DataTypes
<1>6. CertInv'
  BY <1>1, <1>3, DataFacts DEF CertInv
<1>7. TrustInv'
  BY <1>1, <1>3, DataFacts DEF TrustInv, HasSystemTrust
<1>8. FreshInv'
  BY <1>1, <1>3 DEF FreshInv, Starting, Installing
<1>9. KeysDiffer'
  BY <1>1, DataFacts DEF KeysDiffer
<1>10. ASSUME OneFault, MaxFaults <= 1  PROVE SavedInv'
  BY <1>1, <1>10, DataFacts, FaultSpends DEF SavedInv, OneFault, DataTypes
<1>11. ASSUME OneFault, MaxFaults <= 1, NEW s \in Storage  PROVE KeyMatches(s)'
  BY <1>1, <1>11 DEF KeyMatches, OneFault, KeyInv
<1>12. ASSUME OneFault, MaxFaults <= 1  PROVE OtherKey'
  BY <1>1, <1>3, <1>4, <1>12, DataFacts
  DEF OtherKey, OneFault, KeyInv, CertInv, KeysDiffer
<1>13. ASSUME OneFault, MaxFaults <= 1  PROVE NoKeyYet'
  BY <1>1, <1>3 DEF NoKeyYet, Switching
<1>14. ASSUME OneFault, MaxFaults <= 1  PROVE OrderInv'
  BY <1>1, <1>14, DataFacts, FaultSpends DEF OrderInv, OneFault, SavedInv, DataTypes
<1>15. QED
  BY <1>5, <1>6, <1>7, <1>8, <1>9, <1>10, <1>11, <1>12, <1>13, <1>14
  DEF Kept, AnyFaults, OneFault, KeyInv

(* UninstallCA finds the CA.                                               *)
LEMMA UninstallLoadKeeps ==
  ASSUME Data, Locks, NEW c \in Caller, Where(c), UninstallLoad(c)
  PROVE  Kept
<1>1. /\ pc[c] = "uninstall" /\ pc'[c] \in {"idle", "untrust"}
      /\ InStore = "free"
      /\ UNCHANGED <<platform, saved, conf, certFile, keys, sysTrust, nssTrust>>
      /\ cert' \in {cert, certFile}
      /\ cert # None => cert' = cert
      /\ NoFault
      /\ pc'[c] = "untrust" => conf.installed /\ cert' # None
  BY LockFacts DEF UninstallLoad, InStore, disk, NoFault, Return, Goto
<1>2. pc[c] = "uninstall" /\ pc'[c] \in {"idle", "untrust"}
  BY <1>1
<1>3. /\ pc'[c] # "idle" => InStore = "free"
      /\ InStore' = IF pc'[c] \in Installing \cup Removing THEN pc'[c] ELSE InStore
      /\ InProxy' = InProxy \/ InProxy' \notin Starting \cup Switching
  BY <1>2 DEF Where, Starting, Installing, Removing, Switching
<1>4. Other' = Other
  BY <1>1, DataFacts DEF Other, DataTypes
<1>5. RecordInv'
  BY <1>1, <1>3, DataFacts DEF RecordInv, HasHardware, Installing, Removing
<1>6. CertInv'
  BY <1>1, <1>3, DataFacts DEF CertInv, Removing
<1>7. TrustInv'
  BY <1>1, <1>3, DataFacts DEF TrustInv, HasSystemTrust
<1>8. FreshInv'
  BY <1>1, <1>3, DataFacts, FreshGrows DEF FreshInv, Starting, Installing
<1>9. KeysDiffer'
  BY <1>1, DataFacts DEF KeysDiffer
<1>10. ASSUME OneFault, MaxFaults <= 1  PROVE SavedInv'
  BY <1>1, <1>10, FaultSpends DEF SavedInv, OneFault
<1>11. ASSUME OneFault, MaxFaults <= 1, NEW s \in Storage  PROVE KeyMatches(s)'
  BY <1>1, <1>11 DEF KeyMatches, OneFault, KeyInv
<1>12. ASSUME OneFault, MaxFaults <= 1  PROVE OtherKey'
  BY <1>1, <1>4, <1>12 DEF OtherKey, OneFault, KeyInv
<1>13. ASSUME OneFault, MaxFaults <= 1  PROVE NoKeyYet'
  BY <1>1, <1>3, <1>13 DEF NoKeyYet, NoKeyTrusted, Switching, OneFault, KeyInv
<1>14. ASSUME OneFault, MaxFaults <= 1  PROVE OrderInv'
  BY <1>1, <1>14, FaultSpends
  DEF OrderInv, NoKeyTrusted, NoCertTrusted, Trusting, OneFault
<1>15. QED
  BY <1>5, <1>6, <1>7, <1>8, <1>9, <1>10, <1>11, <1>12, <1>13, <1>14
  DEF Kept, AnyFaults, OneFault, KeyInv

(* The trust goes first.                                                   *)
LEMMA UntrustKeeps ==
  ASSUME Data, Locks, NEW c \in Caller, Where(c), Untrust(c)
  PROVE  Kept
<1>1. /\ pc[c] = "untrust" /\ pc'[c] \in {"idle", "dropKey"}
      /\ UNCHANGED <<platform, saved, conf, cert, certFile, keys>>
      /\ sysTrust' \subseteq sysTrust /\ nssTrust' \subseteq nssTrust
      /\ pc'[c] = "dropKey" => cert \notin sysTrust'
      /\ Fault \/ NoFault
  <2>1. PICK sys \in IF HasSystemTrust THEN UninstallTrustOutcomes(sysTrust, cert)
                  ELSE {Done(sysTrust)} :
          /\ Count(sys) /\ sysTrust' = sys.left
          /\ \/ /\ sys.ok = TRUE /\ Goto(c, "dropKey")
                /\ \E nss \in UninstallNSSOutcomes(nssTrust, cert) : nssTrust' = nss.left
             \/ Return(c) /\ UNCHANGED nssTrust
    BY DEF Untrust, UntrustThen
  <2>2. sysTrust' \subseteq sysTrust /\ (sys.ok = TRUE => cert \notin sysTrust')
    <3>1. CASE HasSystemTrust
      <4>1. platform \in Platform /\ sys \in UninstallTrustOutcomes(sysTrust, cert)
        BY <2>1, <3>1, DataFacts DEF DataTypes
      <4>2. /\ sys.left \in {sysTrust, sysTrust \ {cert}}
            /\ sys.ok = TRUE => sys.left = sysTrust \ {cert}
        BY <3>1, <4>1, UninstallOutcome
      <4>3. QED
        BY <2>1, <4>2
    <3>2. CASE ~HasSystemTrust
      BY <2>1, <3>2, DataFacts DEF TrustInv, Done, Outcome
    <3>3. QED
      BY <3>1, <3>2
  <2>3. /\ nssTrust' \subseteq nssTrust
        /\ pc'[c] \in {"idle", "dropKey"} /\ (pc'[c] = "dropKey" => sys.ok = TRUE)
    BY <2>1, NSSOutcome, LockFacts DEF Goto, Return
  <2>4. Fault \/ NoFault
    BY <2>1 DEF Count, MayFail
  <2>5. QED
    BY <2>2, <2>3, <2>4 DEF Untrust, UntrustThen, memory
<1>2. pc[c] = "untrust" /\ pc'[c] \in {"idle", "dropKey"}
  BY <1>1
<1>3. /\ InStore = "untrust"
      /\ InStore' = IF pc'[c] \in Installing \cup Removing THEN pc'[c] ELSE "free"
      /\ InProxy' = InProxy \/ InProxy' \notin Starting \cup Switching
  BY <1>2 DEF Where, Starting, Installing, Removing, Switching
<1>4. Other' = Other
  BY <1>1, DataFacts DEF Other, DataTypes
<1>5. RecordInv'
  BY <1>1, <1>3, DataFacts DEF RecordInv, HasHardware, Installing, Removing
<1>6. CertInv'
  BY <1>1, <1>3, DataFacts DEF CertInv, Removing
<1>7. TrustInv'
  BY <1>1, <1>3, DataFacts DEF TrustInv, HasSystemTrust
<1>8. FreshInv'
  BY <1>1, <1>3, DataFacts, FreshGrows DEF FreshInv, Starting, Installing
<1>9. KeysDiffer'
  BY <1>1, DataFacts DEF KeysDiffer
<1>10. ASSUME OneFault, MaxFaults <= 1  PROVE SavedInv'
  BY <1>1, <1>10, FaultSpends DEF SavedInv, OneFault
<1>11. ASSUME OneFault, MaxFaults <= 1, NEW s \in Storage  PROVE KeyMatches(s)'
  BY <1>1, <1>11 DEF KeyMatches, OneFault, KeyInv
<1>12. ASSUME OneFault, MaxFaults <= 1  PROVE OtherKey'
  BY <1>1, <1>4, <1>12 DEF OtherKey, OneFault, KeyInv
<1>13. ASSUME OneFault, MaxFaults <= 1  PROVE NoKeyYet'
  BY <1>1, <1>3, <1>13 DEF NoKeyYet, NoKeyTrusted, Switching, OneFault, KeyInv
<1>14. ASSUME OneFault, MaxFaults <= 1  PROVE OrderInv'
  BY <1>1, <1>3, <1>14, FaultSpends
  DEF OrderInv, NoKeyTrusted, NoCertTrusted, Trusting, OneFault
<1>15. QED
  BY <1>5, <1>6, <1>7, <1>8, <1>9, <1>10, <1>11, <1>12, <1>13, <1>14
  DEF Kept, AnyFaults, OneFault, KeyInv

(* Then the key.                                                           *)
LEMMA DropKeyKeeps ==
  ASSUME Data, Locks, NEW c \in Caller, Where(c), DropKey(c)
  PROVE  Kept
<1>1. /\ pc[c] = "dropKey" /\ pc'[c] = "dropFolder"
      /\ UNCHANGED <<platform, saved, conf, cert, certFile, sysTrust, nssTrust>>
      /\ keys'[Other] = keys[Other] /\ keys'[conf.storage] \in {keys[conf.storage], None}
      /\ Fault \/ NoFault
  BY DataFacts, LockFacts, RemoveOutcome DEF DropKey, RemoveKey, Count, MayFail, Goto
<1>2. pc[c] = "dropKey" /\ pc'[c] \in {"dropFolder"}
  BY <1>1
<1>3. /\ InStore = "dropKey"
      /\ InStore' = IF pc'[c] \in Installing \cup Removing THEN pc'[c] ELSE "free"
      /\ InProxy' = InProxy \/ InProxy' \notin Starting \cup Switching
  BY <1>2 DEF Where, Starting, Installing, Removing, Switching
<1>4. Other' = Other
  BY <1>1, DataFacts DEF Other, DataTypes
<1>5. RecordInv'
  BY <1>1, <1>3, DataFacts DEF RecordInv, HasHardware, Installing, Removing
<1>6. CertInv'
  BY <1>1, <1>3, DataFacts DEF CertInv, Removing
<1>7. TrustInv'
  BY <1>1, <1>3, DataFacts DEF TrustInv, HasSystemTrust
<1>8. FreshInv'
  BY <1>1, <1>3, DataFacts, FreshGrows DEF FreshInv, Starting, Installing
<1>9. KeysDiffer'
  BY <1>1, DataFacts DEF KeysDiffer
<1>10. ASSUME OneFault, MaxFaults <= 1  PROVE SavedInv'
  BY <1>1, <1>10, FaultSpends DEF SavedInv, OneFault
<1>11. ASSUME OneFault, MaxFaults <= 1, NEW s \in Storage  PROVE KeyMatches(s)'
  BY <1>1, <1>11, DataFacts DEF KeyMatches, OneFault, KeyInv
<1>12. ASSUME OneFault, MaxFaults <= 1  PROVE OtherKey'
  BY <1>1, <1>4, <1>12 DEF OtherKey, OneFault, KeyInv
<1>13. ASSUME OneFault, MaxFaults <= 1  PROVE NoKeyYet'
  BY <1>1, <1>3, <1>13, DataFacts DEF NoKeyYet, NoKeyTrusted, Switching, OneFault, KeyInv
<1>14. ASSUME OneFault, MaxFaults <= 1  PROVE OrderInv'
  BY <1>1, <1>3, <1>14, DataFacts, FaultSpends
  DEF OrderInv, NoKeyTrusted, NoCertTrusted, Trusting, OneFault
<1>15. QED
  BY <1>5, <1>6, <1>7, <1>8, <1>9, <1>10, <1>11, <1>12, <1>13, <1>14
  DEF Kept, AnyFaults, OneFault, KeyInv

(* Then the folder, with the certificate.                                  *)
LEMMA DropFolderKeeps ==
  ASSUME Data, Locks, NEW c \in Caller, Where(c), DropFolder(c)
  PROVE  Kept
<1>1. /\ pc[c] = "dropFolder" /\ pc'[c] \in {"idle", "unrecord"}
      /\ UNCHANGED <<platform, saved, conf, cert, sysTrust, nssTrust>>
      /\ keys'["hardware"] = keys["hardware"]
      /\ keys'["disk"] \in {keys["disk"], None} /\ certFile' \in {certFile, None}
      /\ Fault \/ NoFault
      /\ pc'[c] = "unrecord" => certFile' = None
  BY DataFacts, LockFacts
  DEF DropFolder, RemoveFolder, memory, MayFail, Return, Goto, DataTypes
<1>2. pc[c] = "dropFolder" /\ pc'[c] \in {"idle", "unrecord"}
  BY <1>1
<1>3. /\ InStore = "dropFolder"
      /\ InStore' = IF pc'[c] \in Installing \cup Removing THEN pc'[c] ELSE "free"
      /\ InProxy' = InProxy \/ InProxy' \notin Starting \cup Switching
  BY <1>2 DEF Where, Starting, Installing, Removing, Switching
<1>4. Other' = Other
  BY <1>1, DataFacts DEF Other, DataTypes
<1>5. RecordInv'
  BY <1>1, <1>3, DataFacts DEF RecordInv, HasHardware, Installing, Removing
<1>6. CertInv'
  BY <1>1, <1>3, DataFacts DEF CertInv, Removing
<1>7. TrustInv'
  BY <1>1, <1>3, DataFacts DEF TrustInv, HasSystemTrust
<1>8. FreshInv'
  BY <1>1, <1>3, DataFacts, FreshGrows DEF FreshInv, Starting, Installing
<1>9. KeysDiffer'
  BY <1>1, DataFacts DEF KeysDiffer
<1>10. ASSUME OneFault, MaxFaults <= 1  PROVE SavedInv'
  BY <1>1, <1>10, FaultSpends DEF SavedInv, OneFault
<1>11. ASSUME OneFault, MaxFaults <= 1, NEW s \in Storage  PROVE KeyMatches(s)'
  BY <1>1, <1>3, <1>11, DataFacts
  DEF KeyMatches, Removing, OneFault, KeyInv, CertInv, RecordInv, TrustInv
<1>12. ASSUME OneFault, MaxFaults <= 1  PROVE OtherKey'
  BY <1>1, <1>4, <1>12, DataFacts DEF OtherKey, OneFault, KeyInv
<1>13. ASSUME OneFault, MaxFaults <= 1  PROVE NoKeyYet'
  BY <1>1, <1>3, <1>13, DataFacts DEF NoKeyYet, NoKeyTrusted, Switching, OneFault, KeyInv
<1>14. ASSUME OneFault, MaxFaults <= 1  PROVE OrderInv'
  BY <1>1, <1>3, <1>14, DataFacts, FaultSpends
  DEF OrderInv, NoKeyTrusted, NoCertTrusted, Trusting, OneFault
<1>15. QED
  BY <1>5, <1>6, <1>7, <1>8, <1>9, <1>10, <1>11, <1>12, <1>13, <1>14
  DEF Kept, AnyFaults, OneFault, KeyInv

(* And the record of it.                                                   *)
LEMMA UnrecordKeeps ==
  ASSUME Data, Locks, NEW c \in Caller, Where(c), Unrecord(c)
  PROVE  Kept
<1>1. /\ pc[c] = "unrecord" /\ pc'[c] \in {"idle", "setStorage"}
      /\ UNCHANGED <<platform, certFile, keys, sysTrust, nssTrust>>
      /\ cert' = None
      /\ conf' = [conf EXCEPT !.installed = FALSE]
      /\ (saved' = conf' /\ NoFault) \/ (saved' = saved /\ Fault)
  BY DataFacts, LockFacts DEF Unrecord, Update, MayFail, Return, Goto
<1>2. pc[c] = "unrecord" /\ pc'[c] \in {"idle", "setStorage"}
  BY <1>1
<1>3. /\ InStore = "unrecord"
      /\ InStore' = IF pc'[c] \in Installing \cup Removing THEN pc'[c] ELSE "free"
      /\ \/ InProxy' = InProxy
         \/ InProxy' \notin Starting \cup Switching
         \/ InProxy' = "setStorage" /\ pc'[c] = "setStorage"
  BY <1>2 DEF Where, Starting, Installing, Removing, Switching
<1>4. Other' = Other
  BY <1>1, DataFacts DEF Other, DataTypes
<1>5. RecordInv'
  BY <1>1, <1>3, DataFacts DEF RecordInv, HasHardware, Removing, DataTypes
<1>6. CertInv'
  BY <1>1, <1>3 DEF CertInv, Removing
<1>7. TrustInv'
  BY <1>1, DataFacts DEF TrustInv, HasSystemTrust
<1>8. FreshInv'
  BY <1>1, <1>3, DataFacts, FreshGrows DEF FreshInv, Starting, Installing
<1>9. KeysDiffer'
  BY <1>1, DataFacts DEF KeysDiffer
<1>10. ASSUME OneFault, MaxFaults <= 1  PROVE SavedInv'
  BY <1>1, <1>10, FaultSpends DEF SavedInv, OneFault
<1>11. ASSUME OneFault, MaxFaults <= 1, NEW s \in Storage  PROVE KeyMatches(s)'
  BY <1>1, <1>11 DEF KeyMatches, OneFault, KeyInv
<1>12. ASSUME OneFault, MaxFaults <= 1  PROVE OtherKey'
  BY <1>1, <1>4, <1>12, DataFacts DEF OtherKey, OneFault, KeyInv, DataTypes
<1>13. ASSUME OneFault, MaxFaults <= 1  PROVE NoKeyYet'
  BY <1>1, <1>3, <1>13, DataFacts
  DEF NoKeyYet, NoKeyTrusted, OneFault, KeyInv, KeyMatches, CertInv
<1>14. ASSUME OneFault, MaxFaults <= 1  PROVE OrderInv'
  BY <1>1, <1>3, <1>14, DataFacts
  DEF OrderInv, NoKeyTrusted, NoCertTrusted, OneFault, KeyInv, KeyMatches, CertInv
<1>15. QED
  BY <1>5, <1>6, <1>7, <1>8, <1>9, <1>10, <1>11, <1>12, <1>13, <1>14
  DEF Kept, AnyFaults, OneFault, KeyInv

(* Without a CA on record only its key is left to remove.                  *)
LEMMA DiscardKeyKeeps ==
  ASSUME Data, Locks, NEW c \in Caller, Where(c), DiscardKey(c)
  PROVE  Kept
<1>1. /\ pc[c] = "discard" /\ pc'[c] = "setStorage"
      /\ InStore = "free"
      /\ UNCHANGED <<platform, saved, conf, cert, certFile, sysTrust, nssTrust>>
      /\ keys'[Other] = keys[Other] /\ keys'[conf.storage] \in {keys[conf.storage], None}
      /\ Fault \/ NoFault
      /\ ~conf.installed => Fault \/ keys'[conf.storage] = None
  BY DataFacts, LockFacts, RemoveOutcome
  DEF DiscardKey, RemoveKey, Count, MayFail, Goto, InStore, DataTypes
<1>2. pc[c] = "discard" /\ pc'[c] \in {"setStorage"}
  BY <1>1
<1>3. /\ InStore' = InStore
      /\ InProxy = "discard"
      /\ InProxy' = pc'[c] \/ InProxy' \notin Starting \cup Switching
  BY <1>2 DEF Where, Starting, Installing, Removing, Switching
<1>4. Other' = Other
  BY <1>1, DataFacts DEF Other, DataTypes
<1>5. RecordInv'
  BY <1>1, <1>3, DataFacts DEF RecordInv, HasHardware, Switching
<1>6. CertInv'
  BY <1>1, <1>3, DataFacts DEF CertInv
<1>7. TrustInv'
  BY <1>1, <1>3, DataFacts DEF TrustInv, HasSystemTrust
<1>8. FreshInv'
  BY <1>1, <1>3 DEF FreshInv, Starting, Installing
<1>9. KeysDiffer'
  BY <1>1, DataFacts DEF KeysDiffer
<1>10. ASSUME OneFault, MaxFaults <= 1  PROVE SavedInv'
  BY <1>1, <1>10, FaultSpends DEF SavedInv, OneFault
<1>11. ASSUME OneFault, MaxFaults <= 1, NEW s \in Storage  PROVE KeyMatches(s)'
  BY <1>1, <1>11, DataFacts DEF KeyMatches, OneFault, KeyInv
<1>12. ASSUME OneFault, MaxFaults <= 1  PROVE OtherKey'
  BY <1>1, <1>4, <1>12 DEF OtherKey, OneFault, KeyInv
<1>13. ASSUME OneFault, MaxFaults <= 1  PROVE NoKeyYet'
  <2>1. ~conf.installed /\ ~Trusting
    BY <1>1, <1>3, DataFacts DEF RecordInv, Switching, Trusting
  <2>2. keys'[conf.storage] \notin sysTrust /\ keys'[Other] \notin sysTrust
    BY <1>1, <1>13, <2>1, DataFacts, TwoKeys, FaultSpends DEF OneFault, KeyInv, OtherKey, OrderInv
  <2>3. NoKeyTrusted'
    BY <1>1, <2>2, DataFacts DEF NoKeyTrusted
  <2>4. QED
    BY <2>3 DEF NoKeyYet
<1>14. ASSUME OneFault, MaxFaults <= 1  PROVE OrderInv'
  BY <1>1, <1>14, DataFacts, FaultSpends
  DEF OrderInv, NoKeyTrusted, NoCertTrusted, Trusting, OneFault
<1>15. QED
  BY <1>5, <1>6, <1>7, <1>8, <1>9, <1>10, <1>11, <1>12, <1>13, <1>14
  DEF Kept, AnyFaults, OneFault, KeyInv

(* The new storage is recorded, of a CA that is not installed.             *)
LEMMA SetStorageKeeps ==
  ASSUME Data, Locks, NEW c \in Caller, Where(c), SetStorage(c)
  PROVE  Kept
<1>1. /\ pc[c] = "setStorage" /\ pc'[c] = "idle"
      /\ UNCHANGED <<platform, cert, certFile, keys, sysTrust, nssTrust>>
      /\ \E s \in Storage : conf' = [conf EXCEPT !.storage = s] /\ (s = "hardware" => HasHardware)
      /\ (saved' = conf' /\ NoFault) \/ (saved' = saved /\ Fault)
  BY LockFacts DEF SetStorage, Update, MayFail, Return, Goto, LockInv, Switching
<1>2. pc[c] = "setStorage" /\ pc'[c] \in {"idle"}
  BY <1>1
<1>3. /\ InStore' = InStore
      /\ InProxy = "setStorage"
      /\ InProxy' = pc'[c] \/ InProxy' \notin Starting \cup Switching
  BY <1>2 DEF Where, Starting, Installing, Removing, Switching
<1>4. /\ ~conf.installed /\ conf'.installed = FALSE /\ conf'.storage \in Storage
      /\ InStore \notin Installing \cup Removing
      /\ Other' \in Storage
  <2>1. ~conf.installed /\ InStore \notin Installing \cup Removing
    BY <1>3, DataFacts DEF RecordInv, Where, Starting, Installing, Removing, Switching
  <2>2. conf'.installed = conf.installed /\ conf'.storage \in Storage
    BY <1>1, DataFacts DEF DataTypes
  <2>3. QED
    BY <2>1, <2>2, DataFacts DEF Other
<1>5. RecordInv'
  BY <1>1, <1>2, <1>3, <1>4, DataFacts
  DEF RecordInv, HasHardware, Starting, Installing, Removing, Switching, DataTypes
<1>6. CertInv'
  BY <1>1, <1>2, <1>3, <1>4, DataFacts
  DEF CertInv, Starting, Installing, Removing, Switching
<1>7. TrustInv'
  BY <1>1, <1>2, <1>3, <1>4, DataFacts
  DEF TrustInv, HasSystemTrust, Starting, Installing, Removing, Switching
<1>8. FreshInv'
  BY <1>1, <1>2, <1>3, <1>4, DataFacts, FreshGrows
  DEF FreshInv, Starting, Installing, Removing, Switching, DataTypes
<1>9. KeysDiffer'
  BY <1>1, <1>2, <1>3, <1>4, DataFacts
  DEF KeysDiffer, Starting, Installing, Removing, Switching
<1>10. ASSUME OneFault, MaxFaults <= 1  PROVE SavedInv'
  BY <1>1, <1>2, <1>3, <1>4, <1>10, DataFacts, FaultSpends
  DEF SavedInv, Starting, Installing, Removing, Switching, OneFault, KeyInv,
      KeyMatches, OtherKey, NoKeyYet, OrderInv, DataTypes
<1>11. ASSUME OneFault, MaxFaults <= 1, NEW s \in Storage  PROVE KeyMatches(s)'
  BY <1>1, <1>2, <1>3, <1>4, <1>11, DataFacts, FaultSpends
  DEF KeyMatches, Starting, Installing, Removing, Switching, OneFault, KeyInv,
      SavedInv, OtherKey, NoKeyYet, OrderInv
<1>12. ASSUME OneFault, MaxFaults <= 1  PROVE OtherKey'
  BY <1>1, <1>2, <1>3, <1>4, <1>12, DataFacts, FaultSpends
  DEF OtherKey, Starting, Installing, Removing, Switching, OneFault, KeyInv,
      SavedInv, KeyMatches, NoKeyYet, OrderInv, NoKeyTrusted, DataTypes
<1>13. ASSUME OneFault, MaxFaults <= 1  PROVE NoKeyYet'
  BY <1>1, <1>2, <1>3, <1>4, <1>13, DataFacts, FaultSpends
  DEF NoKeyYet, NoKeyTrusted, Starting, Installing, Removing, Switching, OneFault,
      KeyInv, SavedInv, KeyMatches, OtherKey, OrderInv
<1>14. ASSUME OneFault, MaxFaults <= 1  PROVE OrderInv'
  BY <1>1, <1>2, <1>3, <1>4, <1>14, DataFacts, FaultSpends
  DEF OrderInv, NoKeyTrusted, NoCertTrusted, Trusting, Starting, Installing,
      Removing, Switching, OneFault, KeyInv, SavedInv, KeyMatches, OtherKey,
      NoKeyYet, DataTypes
<1>15. QED
  BY <1>5, <1>6, <1>7, <1>8, <1>9, <1>10, <1>11, <1>12, <1>13, <1>14
  DEF Kept, AnyFaults, OneFault, KeyInv

(* What the other calls do happens in memory: a start finds a CA to make,  *)
(* and the storage is switched at once only without a CA on record.        *)
LEMMA QuietKeeps ==
  ASSUME Data, Locks, NEW c \in Caller, Where(c),
         \/ StartProxy(c) \/ NewGenerator(c) \/ StopProxy(c) \/ UninstallCA(c)
         \/ \E s \in Storage : SetCAKeyStorage(c, s)
  PROVE  Kept
<1>1. /\ UNCHANGED <<platform, disk, memory, faults>>
      /\ pc[c] \in {"idle", "newGenerator"}
      /\ pc'[c] \in {"idle", "init", "uninstall", "discard"}
      /\ pc'[c] = "init" => Fresh # {}
      /\ pc'[c] = "discard" => ~conf.installed
  BY LockFacts
  DEF StartProxy, NewGenerator, StopProxy, UninstallCA, SetCAKeyStorage, Return, Goto
<1>2. UNCHANGED <<platform, saved, conf, certFile, keys, cert, sysTrust, nssTrust>>
  BY <1>1 DEF disk, memory
<1>3. /\ InStore' = InStore
      /\ InProxy' \in {InProxy, "init", "discard"} \/ InProxy' \notin Starting \cup Switching
      /\ InProxy' = "init" => pc'[c] = "init" \/ InProxy = "init"
      /\ InProxy' = "discard" => pc'[c] = "discard" \/ InProxy = "discard"
  BY <1>1 DEF Where, Starting, Installing, Removing, Switching
<1>4. NoFault /\ Other' = Other /\ Fresh' = Fresh
  BY <1>1, <1>2 DEF NoFault, Other, Fresh
<1>5. AnyFaults'
  <2>1. RecordInv'
    BY <1>1, <1>2, <1>3, DataFacts DEF RecordInv, HasHardware, Starting, Installing, Switching
  <2>2. CertInv' /\ TrustInv' /\ KeysDiffer'
    BY <1>2, <1>3, DataFacts DEF CertInv, TrustInv, KeysDiffer, HasSystemTrust
  <2>3. FreshInv'
    BY <1>1, <1>3, <1>4, DataFacts DEF FreshInv, Starting, Installing
  <2>4. QED
    BY <2>1, <2>2, <2>3 DEF AnyFaults
<1>6. ASSUME OneFault  PROVE OneFault'
  <2>1. SavedInv' /\ OrderInv'
    BY <1>2, <1>3, <1>4, <1>6
    DEF OneFault, SavedInv, OrderInv, Spent, NoFault, NoKeyTrusted, NoCertTrusted, Trusting
  <2>2. KeyInv'
    BY <1>2, <1>3, <1>4, <1>6
    DEF OneFault, KeyInv, KeyMatches, OtherKey, NoKeyYet, NoKeyTrusted, Switching
  <2>3. QED
    BY <2>1, <2>2 DEF OneFault
<1>7. QED
  BY <1>5, <1>6 DEF Kept

(* A new process starts from the record on disk.  After a quit nobody was  *)
(* on the way, and a crash was the one fault: either way the two records   *)
(* agreed, or the one in memory was of a CA that is not trusted.           *)
LEMMA RestartKeeps ==
  ASSUME Data, Locks, Relaunch \/ Crash
  PROVE  Kept
<1>1. /\ UNCHANGED <<platform, saved, certFile, keys, sysTrust, nssTrust>>
      /\ conf' = saved /\ cert' = None
      /\ storeMu' = None /\ proxyMu' = None
  BY DEF Relaunch, Crash, NewProcess, disk
<1>2. InStore' = "free" /\ InProxy' = "free"
  BY <1>1 DEF InStore, InProxy
<1>3. Fault \/ (NoFault /\ ~Trusting)
  <2>1. CASE Relaunch
    BY <2>1, Places, LockFacts DEF Relaunch, Trusting, InStore
  <2>2. CASE Crash
    BY <2>2 DEF Crash
  <2>3. QED
    BY <2>1, <2>2
<1>4. AnyFaults'
  <2>1. RecordInv'
    BY <1>1, <1>2, DataFacts DEF RecordInv, HasHardware, Installing, Removing, Switching
  <2>2. CertInv' /\ TrustInv' /\ FreshInv' /\ KeysDiffer'
    BY <1>1, <1>2, DataFacts
    DEF CertInv, TrustInv, FreshInv, KeysDiffer, HasSystemTrust, Removing
  <2>3. QED
    BY <2>1, <2>2 DEF AnyFaults
<1>5. ASSUME OneFault, MaxFaults <= 1  PROVE OneFault'
  <2>1. \/ saved = conf
        \/ NoFault /\ ~Trusting
    BY <1>3, <1>5, DataFacts, FaultSpends DEF OneFault, SavedInv
  <2>2. SavedInv'
    BY <1>1 DEF SavedInv
  <2>3. OtherKey'
    <3>1. CASE saved.storage = conf.storage
      <4>1. Other' = Other
        BY <1>1, <3>1 DEF Other
      <4>2. QED
        BY <1>1, <1>5, <3>1, <4>1 DEF OneFault, KeyInv, OtherKey
    <3>2. CASE saved.storage # conf.storage
      <4>1. NoKeyTrusted /\ ~saved.installed
        BY <1>5, <2>1, <3>2 DEF OneFault, SavedInv, OrderInv
      <4>2. Other' \in Storage
        BY DEF Other, Storage
      <4>3. QED
        BY <1>1, <4>1, <4>2 DEF OtherKey, NoKeyTrusted
    <3>3. QED
      BY <3>1, <3>2
  <2>4. (\A s \in Storage : KeyMatches(s)') /\ NoKeyYet'
    BY <1>1, <1>2, <1>5 DEF OneFault, KeyInv, KeyMatches, NoKeyYet
  <2>5. OrderInv'
    <3>1. ~Spent' /\ ~conf'.installed => NoKeyTrusted'
      BY <1>1, <1>3, <1>5, DataFacts, FaultSpends DEF OneFault, SavedInv, OrderInv, NoKeyTrusted
    <3>2. QED
      BY <1>1, <3>1 DEF OrderInv
  <2>6. QED
    BY <2>2, <2>3, <2>4, <2>5 DEF OneFault, KeyInv
<1>6. QED
  BY <1>4, <1>5 DEF Kept

(* Every caller's step.                                                    *)
LEMMA DataStep ==
  ASSUME Data, Locks, NEW c \in Caller, CallerStep(c)
  PROVE  Kept
<1>1. Where(c)
  BY WhereStep
<1>2. CASE StartProxy(c) \/ NewGenerator(c) \/ StopProxy(c) \/ UninstallCA(c)
             \/ \E s \in Storage : SetCAKeyStorage(c, s)
  BY <1>1, <1>2, QuietKeeps
<1>3. CASE InitLoad(c) \/ Wipe(c) \/ Generate(c) \/ Certify(c) \/ InitReload(c)
  BY <1>1, <1>3, InitLoadKeeps, WipeKeeps, GenerateKeeps, CertifyKeeps, InitReloadKeeps
<1>4. CASE InstallTrust(c) \/ InstallNSS(c) \/ Record(c)
  BY <1>1, <1>4, InstallTrustKeeps, InstallNSSKeeps, RecordKeeps
<1>5. CASE \/ UninstallLoad(c) \/ Untrust(c) \/ DropKey(c) \/ DropFolder(c) \/ Unrecord(c)
  BY <1>1, <1>5, UninstallLoadKeeps, UntrustKeeps, DropKeyKeeps, DropFolderKeeps,
     UnrecordKeeps
<1>6. CASE DiscardKey(c) \/ SetStorage(c)
  BY <1>1, <1>6, DiscardKeyKeeps, SetStorageKeeps
<1>7. QED
  BY <1>2, <1>3, <1>4, <1>5, <1>6 DEF CallerStep

-----------------------------------------------------------------------------
(* Types                                                                   *)

HandleTypes ==
  /\ key \in [ca : CA, storage : Storage] \cup {None}
  /\ gen \in [ca : CA, storage : Storage, open : BOOLEAN] \cup {None}

Types == DataTypes /\ HandleTypes

(* TypeOK is those of the data, of the handles and of the locks.           *)
LEMMA TypesSplit == TypeOK <=> Types /\ LockTypes
BY DEF TypeOK, Types, DataTypes, HandleTypes, LockTypes, Place, Starting, Installing,
       Removing, Switching

(* A fault is counted, or nothing went wrong.                              *)
LEMMA FaultTypes ==
  ASSUME DataTypes, Fault \/ NoFault
  PROVE  faults' \in 0 .. MaxFaults
BY CertStoreAssumption DEF DataTypes, Fault, NoFault

(* What the steps have in common: the helpers keep the types.              *)
LEMMA HelperTypes ==
  ASSUME Types
  PROVE  /\ \A ok \in BOOLEAN : MayFail(ok) => Fault \/ NoFault
         /\ \A ok \in BOOLEAN : RemoveFolder(ok) =>
              certFile' \in CA \cup {None} /\ keys' \in [Storage -> CA \cup {None}]
         /\ \A opened \in BOOLEAN : LoadCA(opened) =>
              /\ cert' \in CA \cup {None} /\ (Fault \/ NoFault)
              /\ key' \in [ca : CA, storage : Storage] \cup {None}
         /\ RemoveKey => keys' \in [Storage -> CA \cup {None}] /\ (Fault \/ NoFault)
         /\ CloseKey => HandleTypes'
<1>1. /\ certFile \in CA \cup {None} /\ keys \in [Storage -> CA \cup {None}]
      /\ cert \in CA \cup {None} /\ Backend \in Storage /\ "disk" \in Storage
  BY DEF Types, DataTypes, Backend, Storage
<1>2. \A ok \in BOOLEAN : MayFail(ok) => Fault \/ NoFault
  BY DEF MayFail
<1>3. ASSUME NEW ok \in BOOLEAN, RemoveFolder(ok)
      PROVE  certFile' \in CA \cup {None} /\ keys' \in [Storage -> CA \cup {None}]
  BY <1>1, <1>3 DEF RemoveFolder
<1>4. ASSUME NEW opened \in BOOLEAN, LoadCA(opened)
      PROVE  /\ cert' \in CA \cup {None} /\ (Fault \/ NoFault)
             /\ key' \in [ca : CA, storage : Storage] \cup {None}
  BY <1>1, <1>2, <1>4 DEF LoadCA, LoadOk
<1>5. ASSUME RemoveKey
      PROVE  keys' \in [Storage -> CA \cup {None}] /\ (Fault \/ NoFault)
  <2>1. PICK gone \in RemoveOutcomes(keys[Backend]) :
          Count(gone) /\ keys' = [keys EXCEPT ![Backend] = gone.left]
    BY <1>5 DEF RemoveKey
  <2>2. gone.left \in CA \cup {None}
    BY <1>1, RemoveOutcome
  <2>3. QED
    BY <1>1, <2>1, <2>2 DEF Count, MayFail
<1>6. ASSUME CloseKey  PROVE HandleTypes'
  BY <1>6 DEF CloseKey, Types, HandleTypes
<1>7. QED
  BY <1>2, <1>3, <1>4, <1>5, <1>6

(* A start keeps the types: what it trusts and certifies is a CA.          *)
LEMMA InstallTypes ==
  ASSUME Types, Data, Locks, NEW c \in Caller, Where(c),
         \/ InitLoad(c) \/ Wipe(c) \/ Generate(c) \/ Certify(c) \/ InitReload(c)
         \/ InstallTrust(c) \/ InstallNSS(c) \/ Record(c)
  PROVE  Types'
<1>1. DataTypes /\ HandleTypes /\ Backend \in Storage
  BY DataFacts DEF Types
<1>2. CASE InitLoad(c)
  <2>1. PICK opened \in BOOLEAN :
          /\ LoadCA(opened)
          /\ \/ UNCHANGED nssTrust
             \/ certFile # None
                /\ \E nss \in RefreshNSSOutcomes(nssTrust, certFile) : nssTrust' = nss.left
    BY <1>2 DEF InitLoad, LoadOk
  <2>2. nssTrust' \subseteq CA
    BY <1>1, <2>1 DEF RefreshNSSOutcomes, Done, Refused, Outcome, DataTypes
  <2>3. QED
    BY <1>1, <1>2, <2>1, <2>2, HelperTypes, FaultTypes
    DEF InitLoad, Types, DataTypes, HandleTypes
<1>3. CASE Wipe(c)
  BY <1>1, <1>3, HelperTypes, FaultTypes DEF Wipe, Types, DataTypes, HandleTypes, memory
<1>4. CASE Generate(c)
  <2>1. (CHOOSE ca \in Fresh : TRUE) \in CA
    BY <1>4, DataFacts
    DEF Where, Starting, Installing, Generate, FreshInv, Fresh
  <2>2. PICK o \in GenerateOutcomes(keys[Backend], CHOOSE ca \in Fresh : TRUE) :
          Count(o) /\ keys' = [keys EXCEPT ![Backend] = o.left]
    BY <1>4 DEF Generate
  <2>3. o.left \in CA \cup {None}
    BY <1>1, <2>1, GenerateOutcome DEF DataTypes
  <2>4. QED
    BY <1>1, <1>4, <2>2, <2>3, FaultTypes
    DEF Generate, Count, MayFail, Types, DataTypes, HandleTypes, memory
<1>5. CASE Certify(c)
  BY <1>1, <1>5, HelperTypes, FaultTypes DEF Certify, Types, DataTypes, HandleTypes, memory
<1>6. CASE InitReload(c)
  BY <1>1, <1>6, HelperTypes, FaultTypes DEF InitReload, Types, DataTypes, HandleTypes, disk
<1>7. CASE InstallTrust(c) \/ InstallNSS(c)
  <2>1. cert \in CA
    BY <1>1, <1>7, DataFacts
    DEF InstallTrust, InstallNSS, Where, CertInv, Installing, DataTypes
  <2>2. CASE InstallTrust(c)
    <3>1. sysTrust' \in {sysTrust, sysTrust \cup {cert}} /\ (Fault \/ NoFault)
      BY <1>1, <2>2, InstallOutcome DEF InstallTrust, Count, MayFail, DataTypes
    <3>2. QED
      BY <1>1, <2>1, <2>2, <3>1, FaultTypes
      DEF InstallTrust, Types, DataTypes, HandleTypes, memory
  <2>3. CASE InstallNSS(c)
    <3>1. nssTrust' \in {nssTrust, nssTrust \cup {cert}}
      BY <2>3 DEF InstallNSS, InstallNSSOutcomes, Done, Refused, Outcome
    <3>2. QED
      BY <1>1, <2>1, <2>3, <3>1, FaultTypes
      DEF InstallNSS, Types, DataTypes, HandleTypes, memory
  <2>4. QED
    BY <1>7, <2>2, <2>3
<1>8. CASE Record(c)
  BY <1>1, <1>8, HelperTypes, FaultTypes
  DEF Record, Update, Types, DataTypes, HandleTypes, app
<1>9. QED
  BY <1>2, <1>3, <1>4, <1>5, <1>6, <1>7, <1>8

(* So does a removal.                                                      *)
LEMMA RemoveTypes ==
  ASSUME Types, Data, Locks, NEW c \in Caller, Where(c),
         \/ UninstallLoad(c) \/ Untrust(c) \/ DropKey(c) \/ DropFolder(c) \/ Unrecord(c)
         \/ DiscardKey(c) \/ SetStorage(c)
  PROVE  Types'
<1>1. DataTypes /\ HandleTypes /\ Backend \in Storage
  BY DataFacts DEF Types
<1>2. CASE UninstallLoad(c)
  BY <1>1, <1>2 DEF UninstallLoad, Types, DataTypes, HandleTypes, disk
<1>3. CASE Untrust(c)
  <2>1. PICK sys \in IF HasSystemTrust THEN UninstallTrustOutcomes(sysTrust, cert)
                  ELSE {Done(sysTrust)} :
          /\ Count(sys) /\ sysTrust' = sys.left
          /\ \/ \E nss \in UninstallNSSOutcomes(nssTrust, cert) : nssTrust' = nss.left
             \/ UNCHANGED nssTrust
    BY <1>3 DEF Untrust, UntrustThen
  <2>2. sys.left \in {sysTrust, sysTrust \ {cert}}
    <3>1. CASE HasSystemTrust
      BY <1>1, <3>1, UninstallOutcome DEF DataTypes
    <3>2. CASE ~HasSystemTrust
      BY <3>2 DEF Done, Outcome
    <3>3. QED
      BY <3>1, <3>2
  <2>3. nssTrust' \in {nssTrust, nssTrust \ {cert}}
    BY <2>1, NSSOutcome
  <2>4. faults' \in 0 .. MaxFaults
    BY <1>1, <2>1, FaultTypes DEF Count, MayFail
  <2>5. QED
    BY <1>1, <1>3, <2>1, <2>2, <2>3, <2>4
    DEF Untrust, UntrustThen, Types, DataTypes, HandleTypes, memory
<1>4. CASE DropKey(c)
  BY <1>1, <1>4, HelperTypes, FaultTypes DEF DropKey, Types, DataTypes
<1>5. CASE DropFolder(c)
  BY <1>1, <1>5, HelperTypes, FaultTypes
  DEF DropFolder, Types, DataTypes, HandleTypes, memory
<1>6. CASE Unrecord(c)
  BY <1>1, <1>6, HelperTypes, FaultTypes DEF Unrecord, Update, Types, DataTypes, HandleTypes
<1>7. CASE DiscardKey(c)
  <2>1. CASE conf.installed
    BY <1>1, <1>7, <2>1, FaultTypes DEF DiscardKey, Types, DataTypes, HandleTypes
  <2>2. CASE ~conf.installed
    BY <1>1, <1>7, <2>2, HelperTypes, FaultTypes DEF DiscardKey, Types, DataTypes
  <2>3. QED
    BY <2>1, <2>2
<1>8. CASE SetStorage(c)
  <2>1. goal[c] \in Storage
    BY <1>8, LockFacts DEF SetStorage, LockInv, Switching
  <2>2. QED
    BY <1>1, <1>8, <2>1, HelperTypes, FaultTypes
    DEF SetStorage, Update, Types, DataTypes, HandleTypes
<1>9. QED
  BY <1>2, <1>3, <1>4, <1>5, <1>6, <1>7, <1>8

(* And the rest.                                                           *)
LEMMA QuietTypes ==
  ASSUME Types, NEW c \in Caller,
         \/ StartProxy(c) \/ NewGenerator(c) \/ StopProxy(c) \/ UninstallCA(c)
         \/ \E s \in Storage : SetCAKeyStorage(c, s)
  PROVE  Types'
<1>1. DataTypes' /\ key' = key
  BY DEF StartProxy, NewGenerator, StopProxy, UninstallCA, SetCAKeyStorage, Types, DataTypes,
         disk, memory
<1>2. CASE NewGenerator(c)
  BY <1>1, <1>2 DEF NewGenerator, Types, HandleTypes
<1>3. CASE StopProxy(c)
  BY <1>1, <1>3 DEF StopProxy, Types, HandleTypes
<1>4. CASE ~NewGenerator(c) /\ ~StopProxy(c)
  BY <1>1, <1>4 DEF StartProxy, UninstallCA, SetCAKeyStorage, Types, HandleTypes, app
<1>5. QED
  BY <1>2, <1>3, <1>4

-----------------------------------------------------------------------------
(* The invariant                                                           *)

(* IInv in the terms of the lemmas.                                        *)
LEMMA InvSplit ==
  IInv <=> /\ Types /\ Locks /\ Data
           /\ OneFault \/ ~(MaxFaults <= 1)
BY TypesSplit DEF IInv, BInv, Types, Locks, Data

(* And of the next state.                                                  *)
LEMMA NextInv ==
  ASSUME Types', Locks', AnyFaults', OneFault' \/ ~(MaxFaults <= 1)
  PROVE  IInv'
<1>1. TypeOK'
  BY DEF TypeOK, Types, DataTypes, HandleTypes, Locks, LockTypes, Place, Starting,
         Installing, Removing, Switching
<1>2. QED
  BY <1>1 DEF IInv, BInv, Locks

(* Nothing is installed yet, trusted or under way.                         *)
LEMMA InitInv == Init => IInv
<1>1. SUFFICES ASSUME Init  PROVE IInv
  OBVIOUS
<1>2. Types /\ LockTypes
  <2>1. 0 \in 0 .. MaxFaults /\ "disk" \in Storage
    BY CertStoreAssumption DEF Storage
  <2>2. DataTypes
    BY <1>1, <2>1 DEF Init, DataTypes
  <2>3. HandleTypes /\ LockTypes
    BY <1>1, Places DEF Init, HandleTypes, LockTypes
  <2>4. QED
    BY <2>2, <2>3 DEF Types
<1>3. (\A c \in Caller : LockInv(c)) /\ ProxyInv
  BY <1>1, Places
  DEF Init, LockInv, ProxyInv, Starting, Installing, Removing, Switching, Storage
<1>4. InStore = "free" /\ InProxy = "free" /\ None \notin CA
  BY <1>1, CertStoreAssumption DEF Init, InStore, InProxy
<1>5. AnyFaults
  <2>1. RecordInv /\ FreshInv
    BY <1>1, <1>4 DEF Init, RecordInv, FreshInv, Installing, Removing, Switching
  <2>2. CertInv /\ TrustInv /\ KeysDiffer
    BY <1>1, <1>4 DEF Init, CertInv, TrustInv, KeysDiffer, Removing, Storage
  <2>3. QED
    BY <2>1, <2>2 DEF AnyFaults
<1>6. OneFault
  <2>1. NoKeyTrusted /\ NoCertTrusted
    BY <1>1 DEF Init, NoKeyTrusted, NoCertTrusted
  <2>2. SavedInv /\ OrderInv
    BY <1>1, <2>1 DEF Init, SavedInv, OrderInv
  <2>3. KeyInv
    BY <1>1 DEF Init, KeyInv, KeyMatches, OtherKey, NoKeyYet, NoKeyTrusted
  <2>4. QED
    BY <2>2, <2>3 DEF OneFault
<1>7. QED
  BY <1>2, <1>3, <1>5, <1>6, InvSplit DEF Types, Data, Locks

(* A new process has neither locks nor handles.                            *)
LEMMA RestartTypes ==
  ASSUME Types, Locks, Relaunch \/ Crash
  PROVE  Types' /\ Locks'
<1>1. NewProcess /\ (Fault \/ NoFault)
  BY DEF Relaunch, Crash
<1>2. faults' \in 0 .. MaxFaults
  BY <1>1, FaultTypes DEF Types
<1>3. Types'
  BY <1>1, <1>2 DEF NewProcess, Types, DataTypes, HandleTypes, disk
<1>4. LockTypes' /\ ProxyInv'
  BY <1>1, Places DEF NewProcess, LockTypes, ProxyInv
<1>5. ASSUME NEW c \in Caller  PROVE LockInv(c)'
  BY <1>1, Places
  DEF NewProcess, LockInv, Starting, Installing, Removing, Switching, Storage
<1>6. QED
  BY <1>3, <1>4, <1>5 DEF Locks

(* Every step keeps the invariant: the locks, then what holds whatever     *)
(* fails, then what holds with at most one fault.                          *)
LEMMA StepInv == IInv /\ [Next]_vars => IInv'
<1>1. SUFFICES ASSUME IInv, [Next]_vars  PROVE IInv'
  OBVIOUS
<1>2. Types /\ Locks /\ Data /\ (OneFault \/ ~(MaxFaults <= 1))
  BY <1>1, InvSplit
<1>3. CASE \E c \in Caller : CallerStep(c)
  <2>1. PICK c \in Caller : CallerStep(c)
    BY <1>3
  <2>2. Locks' /\ Kept /\ Where(c)
    BY <1>2, <2>1, LocksStep, DataStep, WhereStep
  <2>3. Types'
    BY <1>2, <2>1, <2>2, InstallTypes, RemoveTypes, QuietTypes DEF CallerStep
  <2>4. QED
    BY <1>2, <2>2, <2>3, NextInv DEF Kept
<1>4. CASE Relaunch \/ Crash
  BY <1>2, <1>4, RestartTypes, RestartKeeps, NextInv DEF Kept
<1>5. CASE UNCHANGED vars
  <2>1. Types' /\ Locks' /\ InStore' = InStore /\ InProxy' = InProxy
    BY <1>2, <1>5
    DEF vars, disk, memory, app, Types, DataTypes, HandleTypes, Locks, LockTypes, LockInv,
        ProxyInv, HasHardware, InStore, InProxy
  <2>2. AnyFaults'
    BY <1>2, <1>5, <2>1
    DEF vars, disk, memory, app, Data, AnyFaults, RecordInv, CertInv, TrustInv, FreshInv,
        KeysDiffer, HasHardware, HasSystemTrust, Fresh
  <2>3. OneFault => OneFault'
    BY <1>5, <2>1
    DEF vars, disk, memory, app, OneFault, SavedInv, KeyInv, KeyMatches, OtherKey, NoKeyYet,
        OrderInv, Spent, Other, Trusting, NoKeyTrusted, NoCertTrusted
  <2>4. QED
    BY <1>2, <2>1, <2>2, <2>3, NextInv
<1>6. QED
  BY <1>1, <1>3, <1>4, <1>5 DEF Next, CallerStep

(* The inductive invariant the other theorems follow from.                 *)
THEOREM Invariant == Spec => []IInv
BY InitInv, StepInv, PTL DEF Spec

-----------------------------------------------------------------------------
(* The theorems                                                            *)

(* Every variable has its type, whatever fails.                            *)
THEOREM TypeCorrect == Spec => []TypeOK
<1>1. IInv => TypeOK
  BY DEF IInv, BInv
<1>2. QED
  BY <1>1, Invariant, PTL

(* A switch of the key storage touches no running proxy, whatever fails:   *)
(* proxyMu is held from the check that the proxy is off to the end.        *)
THEOREM SwitchSparesProxy == Spec => SwitchSparesRunningProxy
<1>1. IInv /\ [Next]_vars =>
        [\A c \in Caller : goal[c] # None /\ pc[c] # pc'[c] /\ pc'[c] # "idle" =>
           gen' = gen /\ gen = None]_vars
  <2>1. SUFFICES ASSUME IInv, Next, NEW c \in Caller, goal[c] # None, pc[c] # pc'[c],
                        pc'[c] # "idle"
                 PROVE  gen' = gen /\ gen = None
    OBVIOUS
  <2>2. Locks /\ LockInv(c) /\ ProxyInv
    BY <2>1, InvSplit DEF Locks
  <2>3. gen = None /\ pc[c] \notin Starting
    BY <2>1, <2>2, Places DEF LockInv, ProxyInv
  <2>4. ~Relaunch /\ ~Crash
    BY <2>1 DEF Relaunch, Crash, NewProcess
  <2>5. PICK d \in Caller : CallerStep(d)
    BY <2>1, <2>4 DEF Next, CallerStep
  <2>6. d = c
    BY <2>1, <2>2, <2>5, LocksStep DEF InOrder, Pass, Locks, LockTypes
  <2>7. ~NewGenerator(c)
    BY <2>3 DEF NewGenerator, Starting
  <2>8. gen' = gen \/ CloseKey
    BY <2>3, <2>5, <2>6, <2>7
    DEF CallerStep, StartProxy, InitLoad, Wipe, Generate, Certify, InitReload, InstallTrust,
        InstallNSS, Record, StopProxy, UninstallCA, UninstallLoad, Untrust, UntrustThen,
        DropKey, DropFolder, Unrecord, SetCAKeyStorage, DiscardKey, SetStorage, app
  <2>9. QED
    BY <2>3, <2>8 DEF CloseKey
<1>2. QED
  BY <1>1, Invariant, PTL DEF Spec, SwitchSparesRunningProxy

UntrustedFirst == [][\A c \in Caller : Unrecord(c) => cert \notin sysTrust']_vars

(* UninstallCA forgets a CA only when the system no longer trusts it,      *)
(* whatever fails and however the calls interleave.                        *)
THEOREM TrustGoesFirst == Spec => UntrustedFirst
<1>1. IInv /\ [Next]_vars => [\A c \in Caller : Unrecord(c) => cert \notin sysTrust']_vars
  <2>1. SUFFICES ASSUME IInv, NEW c \in Caller, Unrecord(c)
                 PROVE  cert \notin sysTrust'
    OBVIOUS
  <2>2. Where(c) /\ TrustInv
    BY <2>1, InvSplit, DataFacts, WhereStep DEF CallerStep
  <2>3. QED
    BY <2>1, <2>2 DEF Unrecord, Where, Removing, TrustInv
<1>2. QED
  BY <1>1, Invariant, PTL DEF Spec, UntrustedFirst

(* With at most one fault, any step that takes the record of a CA back     *)
(* leaves it untrusted, the change of the key storage included.            *)
THEOREM UninstalledStaysUntrusted ==
  ASSUME MaxFaults <= 1
  PROVE  Spec => UninstalledIsUntrusted
<1>1. IInv /\ [Next]_vars =>
        [saved.installed /\ ~saved'.installed /\ cert # None => cert \notin sysTrust']_vars
  <2>1. SUFFICES ASSUME IInv, Next, saved.installed, ~saved'.installed
                 PROVE  cert \notin sysTrust'
    OBVIOUS
  <2>2. Locks /\ Data /\ OneFault
    BY <2>1, InvSplit
  <2>3. ~Relaunch /\ ~Crash
    BY <2>1 DEF Relaunch, Crash, NewProcess, disk
  <2>4. PICK c \in Caller : CallerStep(c)
    BY <2>1, <2>3 DEF Next, CallerStep
  <2>5. Where(c)
    BY <2>2, <2>4, WhereStep
  <2>6. Record(c) \/ Unrecord(c) \/ SetStorage(c)
    BY <2>1, <2>4
    DEF CallerStep, StartProxy, InitLoad, Wipe, Generate, Certify, InitReload, InstallTrust,
        InstallNSS, NewGenerator, StopProxy, UninstallCA, UninstallLoad, Untrust, UntrustThen,
        DropKey, DropFolder, SetCAKeyStorage, DiscardKey, disk
  <2>7. CASE Record(c)
    BY <2>1, <2>2, <2>7, DataFacts DEF Record, Update, DataTypes
  <2>8. CASE Unrecord(c)
    BY <2>2, <2>5, <2>8, DataFacts DEF Unrecord, Where, Removing, TrustInv
  <2>9. CASE SetStorage(c)
    <3>1. InProxy = "setStorage" /\ ~Trusting /\ ~conf.installed
      BY <2>2, <2>5, <2>9, DataFacts
      DEF SetStorage, Where, Switching, Installing, Trusting, RecordInv
    <3>2. QED
      BY <2>1, <2>2, <2>9, <3>1 DEF SetStorage, OneFault, OrderInv, NoCertTrusted
  <2>10. QED
    BY <2>6, <2>7, <2>8, <2>9
<1>2. QED
  BY <1>1, Invariant, PTL DEF Spec, UninstalledIsUntrusted

(* With at most one fault, the record says where the key of the installed  *)
(* CA is, in memory and on disk, and no key is left of a CA that is        *)
(* trusted but is not that one.                                            *)
THEOREM KeysStayMatched ==
  ASSUME MaxFaults <= 1
  PROVE  Spec => []KeysMatchCA
<1>1. IInv => KeysMatchCA
  <2>1. SUFFICES ASSUME IInv  PROVE KeysMatchCA
    OBVIOUS
  <2>2. Data /\ OneFault
    BY <2>1, InvSplit
  <2>3. ASSUME NEW rec \in {conf, saved}, rec.installed, certFile # None,
               NEW s \in Storage \ {rec.storage}
        PROVE  keys[s] # certFile
    <3>1. rec.storage = conf.storage
      BY <2>2, <2>3 DEF OneFault, SavedInv
    <3>2. s = Other
      BY <2>2, <2>3, <3>1, DataFacts
    <3>3. QED
      BY <2>2, <2>3, <3>2 DEF OneFault, KeyInv, OtherKey
  <2>4. QED
    BY <2>2, <2>3
    DEF KeysMatchCA, KeyStorageMatchesCA, LeftoverKeyIsUntrusted, OneFault, KeyInv, KeyMatches
<1>2. QED
  BY <1>1, Invariant, PTL

=============================================================================
