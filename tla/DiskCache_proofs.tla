--------------------------- MODULE DiskCache_proofs ---------------------------
(***************************************************************************)
(* The safety properties of DiskCache, for any set of goroutines and of    *)
(* lists, and any bounds on time and crashes.                              *)
(***************************************************************************)
EXTENDS DiskCache, TLAPS

-----------------------------------------------------------------------------
(* The inductive invariant                                                 *)

(* The parts of the type invariant: values and mutexes.                    *)
ValuesOK ==
  /\ content \in [Hash -> Time]
  /\ index \in [Hash -> Entry \cup {NoEntry}]
  /\ entries \in [Hash -> Entry \cup {NoEntry}]
  /\ seen \in [Thread -> Time]
  /\ snapshot \in [Thread -> [Hash -> Entry \cup {NoEntry}]]

ControlOK ==
  /\ proc \in {"up", "down", "starting"}
  /\ crashes \in 0..MaxCrashes
  /\ clock \in Time
  /\ flushErr \in BOOLEAN
  /\ pc \in [Thread -> Step]
  /\ hash \in [Thread -> Hash]
  /\ then \in [Thread -> {"idle", "load_open", "promote_unlock"}]

LocksOK ==
  /\ \A t \in Thread : promoteMu = t <=> InPromote(t)
  /\ \A t \in Thread : flushMu = t <=> pc[t] = "flush_rename"

(* Nothing is newer than the clock.                                        *)
BoundH(h) ==
  /\ content[h] <= clock
  /\ index[h].meta <= clock /\ index[h].lastAccess <= clock
  /\ entries[h].meta <= clock /\ entries[h].lastAccess <= clock

BoundT(t, h) ==
  /\ seen[t] <= clock
  /\ snapshot[t][h].meta <= clock /\ snapshot[t][h].lastAccess <= clock

BoundInv == \A h \in Hash : BoundH(h) /\ \A t \in Thread : BoundT(t, h)

(* A thread has in hand what its step needs, and only then.                *)
SeenInv ==
  \A t \in Thread :
    /\ pc[t] \in {"promote_record", "promote_unlock"} => seen[t] # 0
    /\ pc[t] \in {"idle", "promote_rename"} => seen[t] = 0
    /\ pc[t] \in {"flush", "flush_rename"} /\ then[t] = "idle" => seen[t] = 0
    /\ pc[t] \in {"flush", "flush_rename"} /\ then[t] = "promote_unlock" => seen[t] # 0
    /\ proc # "up" => pc[t] = "idle"

(* Metadata, wherever it is kept, is not newer than bytes on disk.         *)
MetaH(h) ==
  content[h] # 0 => index[h].meta <= content[h] /\ entries[h].meta <= content[h]

MetaT(t, h) ==
  content[h] # 0 => /\ snapshot[t][h].meta <= content[h]
                    /\ hash[t] = h => seen[t] <= content[h]

MetaInv == \A h \in Hash : MetaH(h) /\ \A t \in Thread : MetaT(t, h)

(* Until a promotion gives promoteMu back, the bytes under its name are    *)
(* its own, and from its record on so is the entry.                        *)
Recorded(t) ==
  \/ pc[t] = "promote_unlock"
  \/ pc[t] \in {"flush", "flush_rename"} /\ then[t] = "promote_unlock"

PromoteT(t) ==
  /\ pc[t] = "promote_record" => content[hash[t]] \in {0, seen[t]}
  /\ Recorded(t) => /\ content[hash[t]] \in {0, seen[t]}
                    /\ entries[hash[t]] = NoEntry \/ entries[hash[t]].meta = seen[t]

PromoteInv == \A t \in Thread : PromoteT(t)

(* Access times do not go back from the index to the snapshot that is      *)
(* about to replace it, nor from that to memory.                           *)
NotBefore(i, j) == \A h \in Hash : j[h] # NoEntry => i[h].lastAccess <= j[h].lastAccess

AccessT(t) ==
  pc[t] = "flush_rename" =>
    NotBefore(index, snapshot[t]) /\ NotBefore(snapshot[t], entries)

AccessInv == NotBefore(index, entries) /\ \A t \in Thread : AccessT(t)

(* A file without an entry is one whose promotion is about to record it;   *)
(* and a Load that found no file will not drop the entry of the one that   *)
(* appeared since.                                                         *)
Unrecorded(h) == \E u \in Thread : pc[u] = "promote_record" /\ hash[u] = h

FilesH(h) == proc # "down" /\ content[h] # 0 => entries[h] # NoEntry \/ Unrecorded(h)

FilesT(t) ==
  pc[t] = "load_drop" /\ content[hash[t]] # 0 =>
    /\ seen[t] < content[hash[t]]
    /\ Unrecorded(hash[t]) \/ entries[hash[t]].meta = content[hash[t]]

FilesInv == (\A h \in Hash : FilesH(h)) /\ \A t \in Thread : FilesT(t)

(* What memory has and the index has not is in the snapshot on its way, or *)
(* another flush is to come, or the last one failed.                       *)
Describes(i) ==
  \A h \in Hash : entries[h] # NoEntry => i[h] # NoEntry /\ i[h].meta = entries[h].meta
ToFlush == \E u \in Thread : pc[u] = "flush"

IndexT(t) == pc[t] = "flush_rename" => ToFlush \/ Describes(snapshot[t])

IndexNow ==
  proc = "up" /\ ~flushErr /\ (\A t \in Thread : pc[t] # "flush_rename") =>
    ToFlush \/ Describes(index)

IndexInv == IndexNow /\ \A t \in Thread : IndexT(t)

(* What a promotion is about to record is newer than every description of  *)
(* its list; and where the index describes a list as the entry does, so    *)
(* does the snapshot on its way.                                           *)
NewestT(t) ==
  pc[t] = "promote_record" =>
    /\ index[hash[t]].meta < seen[t] /\ entries[hash[t]].meta < seen[t]
    /\ \A u \in Thread : snapshot[u][hash[t]].meta < seen[t]

Durable(h) == entries[h] # NoEntry /\ index[h] # NoEntry /\ index[h].meta = entries[h].meta

SavedT(t) ==
  pc[t] = "flush_rename" =>
    \A h \in Hash : Durable(h) =>
      snapshot[t][h] # NoEntry /\ snapshot[t][h].meta = entries[h].meta

SavedInv == \A t \in Thread : NewestT(t) /\ SavedT(t)

-----------------------------------------------------------------------------
(* Entries                                                                 *)

(* What an entry is made of; NoEntry is none, and what the actions make of *)
(* an entry is one.                                                        *)
LEMMA Entries ==
  /\ NoEntry \notin Entry
  /\ NoEntry.meta = 0 /\ NoEntry.lastAccess = 0 /\ NoEntry.fresh = FALSE
  /\ \A e \in Entry : e.meta \in Time /\ e.lastAccess \in Time \ {0} /\ e.fresh \in BOOLEAN
BY DEF NoEntry, Entry

(* Expiry leaves everything else of an entry, and NoEntry as it is.        *)
LEMMA NoEntryExpires == [NoEntry EXCEPT !.fresh = FALSE] = NoEntry
<1>1. \A e \in [meta : {0}, fresh : {FALSE}, lastAccess : {0}] : [e EXCEPT !.fresh = FALSE] = e
  OBVIOUS
<1>2. NoEntry \in [meta : {0}, fresh : {FALSE}, lastAccess : {0}]
  BY DEF NoEntry
<1>3. QED
  BY <1>1, <1>2

(* Expiry makes no entry of none, and none of an entry.                   *)
LEMMA Expiry ==
  ASSUME NEW e \in Entry \cup {NoEntry}
  PROVE  /\ [e EXCEPT !.fresh = FALSE] \in Entry \cup {NoEntry}
         /\ [e EXCEPT !.fresh = FALSE] = NoEntry <=> e = NoEntry
         /\ [e EXCEPT !.fresh = FALSE].meta = e.meta
         /\ [e EXCEPT !.fresh = FALSE].lastAccess = e.lastAccess
<1>1. CASE e = NoEntry
  BY <1>1, NoEntryExpires
<1>2. CASE e \in Entry
  <2>1. /\ [e EXCEPT !.fresh = FALSE] \in Entry
        /\ [e EXCEPT !.fresh = FALSE].meta = e.meta
        /\ [e EXCEPT !.fresh = FALSE].lastAccess = e.lastAccess
    BY <1>2 DEF Entry
  <2>2. QED
    BY <1>2, <2>1, Entries
<1>3. QED
  BY <1>1, <1>2

(* An access gives an entry a new access time, a refresh also makes it     *)
(* fresh.                                                                  *)
LEMMA Accesses ==
  ASSUME NEW n \in Time \ {0}, NEW e \in Entry
  PROVE  /\ [e EXCEPT !.lastAccess = n] \in Entry
         /\ [e EXCEPT !.lastAccess = n].meta = e.meta
         /\ [e EXCEPT !.lastAccess = n].lastAccess = n
         /\ [[e EXCEPT !.lastAccess = n] EXCEPT !.fresh = TRUE] \in Entry
         /\ [[e EXCEPT !.lastAccess = n] EXCEPT !.fresh = TRUE].meta = e.meta
         /\ [[e EXCEPT !.lastAccess = n] EXCEPT !.fresh = TRUE].lastAccess = n
BY DEF Entry

(* A promotion makes an entry.                                             *)
LEMMA NewEntries ==
  \A m \in Time, n \in Time \ {0}, f \in BOOLEAN :
    [meta |-> m, fresh |-> f, lastAccess |-> n] \in Entry
BY DEF Entry

-----------------------------------------------------------------------------
(* What the actions do to the entries                                      *)

(* entries keeps its keys and its metadata; an access time moves to the    *)
(* clock or stays.                                                         *)
Touched ==
  /\ entries' \in [Hash -> Entry \cup {NoEntry}]
  /\ \A g \in Hash :
       /\ entries'[g] = NoEntry <=> entries[g] = NoEntry
       /\ entries'[g].meta = entries[g].meta
       /\ \/ entries'[g].lastAccess = entries[g].lastAccess
          \/ entries[g] # NoEntry /\ entries'[g].lastAccess = clock'

(* Load's lookup touches the entry it finds.                              *)
LEMMA LookupTouches ==
  ASSUME ValuesOK, ControlOK, NEW t \in Thread, NEW h \in Hash, LoadLookup(t, h)
  PROVE  Touched
<1>1. clock' \in Time \ {0} /\ entries[h] \in Entry
  BY MaxTimeAssumption DEF LoadLookup, Tick, ControlOK, ValuesOK, Time
<1>2. entries' = [entries EXCEPT ![h] = [entries[h] EXCEPT !.lastAccess = clock']]
  BY DEF LoadLookup, Accessed
<1> DEFINE e == [entries[h] EXCEPT !.lastAccess = clock']
<1>3. e \in Entry /\ e.meta = entries[h].meta /\ e.lastAccess = clock'
  BY <1>1, Accesses
<1>4. e # NoEntry /\ entries[h] # NoEntry
  BY <1>1, <1>3, Entries
<1> HIDE DEF e
<1>5. entries' = [entries EXCEPT ![h] = e]
  BY <1>2 DEF e
<1>6. QED
  BY <1>3, <1>4, <1>5 DEF Touched, ValuesOK

(* Refresh touches the entry it finds.                                    *)
LEMMA RefreshTouches ==
  ASSUME ValuesOK, ControlOK, NEW t \in Thread, NEW h \in Hash, Refresh(t, h)
  PROVE  Touched
<1>1. clock' \in Time \ {0} /\ entries[h] \in Entry
  BY MaxTimeAssumption DEF Refresh, Tick, ControlOK, ValuesOK, Time
<1>2. entries' = [entries EXCEPT ![h] = [[entries[h] EXCEPT !.lastAccess = clock']
                                            EXCEPT !.fresh = TRUE]]
  BY DEF Refresh, Accessed
<1> DEFINE e == [[entries[h] EXCEPT !.lastAccess = clock'] EXCEPT !.fresh = TRUE]
<1>3. e \in Entry /\ e.meta = entries[h].meta /\ e.lastAccess = clock'
  BY <1>1, Accesses
<1>4. e # NoEntry /\ entries[h] # NoEntry
  BY <1>1, <1>3, Entries
<1>5. entries' = [entries EXCEPT ![h] = e]
  BY <1>2
<1> HIDE DEF e
<1>6. QED
  BY <1>3, <1>4, <1>5 DEF Touched, ValuesOK

(* Expiry changes neither the keys nor the metadata nor the access times.  *)
Same(i, j) ==
  /\ j \in [Hash -> Entry \cup {NoEntry}]
  /\ \A g \in Hash : /\ j[g] = NoEntry <=> i[g] = NoEntry
                     /\ j[g].meta = i[g].meta /\ j[g].lastAccess = i[g].lastAccess

(* An index in which one entry expired is the same otherwise.             *)
LEMMA SameExpired ==
  ASSUME NEW i \in [Hash -> Entry \cup {NoEntry}], NEW h \in Hash
  PROVE  Same(i, [i EXCEPT ![h].fresh = FALSE])
<1> DEFINE e == [i[h] EXCEPT !.fresh = FALSE]
<1>1. /\ e \in Entry \cup {NoEntry} /\ (e = NoEntry <=> i[h] = NoEntry)
      /\ e.meta = i[h].meta /\ e.lastAccess = i[h].lastAccess
  BY Expiry
<1>2. [i EXCEPT ![h].fresh = FALSE] = [i EXCEPT ![h] = e]
  OBVIOUS
<1> HIDE DEF e
<1>3. QED
  BY <1>1, <1>2 DEF Same

(* Expire keeps the index, the entries and every snapshot otherwise.      *)
LEMMA ExpireKeeps ==
  ASSUME ValuesOK, NEW h \in Hash, Expire(h)
  PROVE  /\ Same(index, index') /\ Same(entries, entries')
         /\ snapshot' \in [Thread -> [Hash -> Entry \cup {NoEntry}]]
         /\ \A t \in Thread : Same(snapshot[t], snapshot'[t])
<1>1. Same(index, index') /\ Same(entries, entries')
  BY SameExpired DEF Expire, ValuesOK
<1>2. ASSUME NEW t \in Thread
      PROVE  snapshot'[t] = [snapshot[t] EXCEPT ![h].fresh = FALSE]
  BY DEF Expire
<1>3. ASSUME NEW t \in Thread  PROVE Same(snapshot[t], snapshot'[t])
  <2>1. snapshot[t] \in [Hash -> Entry \cup {NoEntry}]
    BY DEF ValuesOK
  <2>2. QED
    BY <1>2, <2>1, SameExpired
<1>4. \A t \in Thread : snapshot'[t] \in [Hash -> Entry \cup {NoEntry}]
  BY <1>3 DEF Same
<1>5. snapshot' = [t \in Thread |-> snapshot'[t]]
  BY DEF Expire
<1>6. QED
  BY <1>1, <1>3, <1>4, <1>5

(* A promotion replaces one entry.                                         *)
LEMMA RecordReplaces ==
  ASSUME ValuesOK, ControlOK, BoundInv, SeenInv, NEW t \in Thread, PromoteRecord(t)
  PROVE  /\ entries' \in [Hash -> Entry \cup {NoEntry}]
         /\ entries'[hash[t]] \in Entry /\ entries'[hash[t]] # NoEntry
         /\ entries'[hash[t]].meta = seen[t] /\ entries'[hash[t]].lastAccess = clock
         /\ \A g \in Hash : g # hash[t] => entries'[g] = entries[g]
<1> DEFINE e == [meta |-> seen[t], fresh |-> TRUE, lastAccess |-> clock]
<1>1. seen[t] \in Time /\ seen[t] # 0 /\ seen[t] <= clock /\ clock \in Time /\ hash[t] \in Hash
  BY DEF PromoteRecord, ValuesOK, ControlOK, BoundInv, BoundT, SeenInv
<1>2. clock \in Time \ {0}
  BY <1>1, MaxTimeAssumption DEF Time
<1>3. e \in Entry
  BY <1>1, <1>2, NewEntries
<1>4. e # NoEntry /\ e.meta = seen[t] /\ e.lastAccess = clock
  BY <1>3, Entries
<1>5. entries' = [entries EXCEPT ![hash[t]] = e]
  BY DEF PromoteRecord
<1> HIDE DEF e
<1>6. QED
  BY <1>1, <1>3, <1>4, <1>5 DEF ValuesOK

(* loadFromDisk takes each entry from the index or adopts the file without *)
(* one, and drops what is collected together with its file.                *)
LEMMA LoadReconciles ==
  ASSUME ValuesOK, ControlOK, BoundInv, LoadFromDisk
  PROVE  /\ entries' \in [Hash -> Entry \cup {NoEntry}]
         /\ content' \in [Hash -> Time]
         /\ \A h \in Hash :
              \/ entries'[h] = NoEntry /\ content'[h] = 0
              \/ /\ entries'[h] # NoEntry /\ content'[h] = content[h]
                 /\ \/ entries'[h] = index[h]
                    \/ entries'[h].meta = 0 /\ entries'[h].lastAccess = clock
<1> DEFINE adopted == [meta |-> 0, fresh |-> FALSE, lastAccess |-> clock]
<1>1. 0 \in Time /\ clock \in Time
  BY MaxTimeAssumption DEF ControlOK, Time
<1>2. clock # 0 => adopted \in Entry /\ adopted # NoEntry
  <2>1. clock # 0 => adopted \in Entry
    BY <1>1, NewEntries
  <2>2. QED
    BY <2>1, Entries
<1>3. adopted.meta = 0 /\ adopted.lastAccess = clock
  OBVIOUS
<1>4. NoIndex \in [Hash -> Entry \cup {NoEntry}] /\ \A h \in Hash : NoIndex[h] = NoEntry
  BY DEF NoIndex
<1>5. PICK base \in {index, NoIndex}, collected \in SUBSET Hash :
        /\ entries' = [h \in Hash |-> IF h \in collected THEN NoEntry ELSE Reconciled(base)[h]]
        /\ content' = [h \in Hash |-> IF h \in collected THEN 0 ELSE content[h]]
  BY DEF LoadFromDisk
<1>6. \A h \in Hash : Reconciled(base)[h] = IF content[h] = 0 THEN NoEntry
                                            ELSE IF base[h] # NoEntry THEN base[h]
                                            ELSE adopted
  BY DEF Reconciled
<1> HIDE DEF adopted
<1>7. \A h \in Hash : content[h] # 0 => clock # 0
  BY <1>1, MaxTimeAssumption DEF BoundInv, BoundH, ValuesOK, Time
<1>8. \A h \in Hash : Reconciled(base)[h] \in Entry \cup {NoEntry}
  BY <1>2, <1>4, <1>5, <1>6, <1>7 DEF ValuesOK
<1>9. entries' \in [Hash -> Entry \cup {NoEntry}] /\ content' \in [Hash -> Time]
  BY <1>1, <1>5, <1>8 DEF ValuesOK
<1>10. ASSUME NEW h \in Hash
       PROVE  \/ entries'[h] = NoEntry /\ content'[h] = 0
              \/ /\ entries'[h] # NoEntry /\ content'[h] = content[h]
                 /\ \/ entries'[h] = index[h]
                    \/ entries'[h].meta = 0 /\ entries'[h].lastAccess = clock
  <2>1. CASE h \in collected \/ content[h] = 0
    BY <1>5, <1>6, <2>1
  <2>2. CASE h \notin collected /\ content[h] # 0
    BY <1>2, <1>3, <1>4, <1>5, <1>6, <1>7, <2>2
  <2>3. QED
    BY <2>1, <2>2
<1>11. QED
  BY <1>9, <1>10

-----------------------------------------------------------------------------
(* The steps                                                               *)

(* A step keeps the types of the program counters.                         *)
LEMMA ControlStep ==
  ASSUME ControlOK, [Next]_vars
  PROVE  ControlOK'
<1> USE MaxTimeAssumption DEF ControlOK, Time, Step, disk, locals, Goto, Return,
    Calls, CallFlush, Tick
<1>1. ASSUME NEW t \in Thread, NEW h \in Hash, LoadLookup(t, h)  PROVE ControlOK'
  BY <1>1 DEF LoadLookup
<1>2. ASSUME NEW t \in Thread, NEW h \in Hash, PromoteLock(t, h)  PROVE ControlOK'
  BY <1>2 DEF PromoteLock
<1>3. ASSUME NEW t \in Thread, NEW h \in Hash, Refresh(t, h)  PROVE ControlOK'
  BY <1>3 DEF Refresh
<1>4. ASSUME NEW t \in Thread, FlushSnapshot(t)  PROVE ControlOK'
  BY <1>4 DEF FlushSnapshot
<1>5. ASSUME NEW t \in Thread, FlushRename(t)  PROVE ControlOK'
  BY <1>5 DEF FlushRename, FlushReturns
<1>6. ASSUME NEW t \in Thread, FlushFails(t)  PROVE ControlOK'
  BY <1>6 DEF FlushFails, FlushReturns
<1>7. ASSUME NEW t \in Thread, LoadOpen(t)  PROVE ControlOK'
  BY <1>7 DEF LoadOpen
<1>8. ASSUME NEW t \in Thread, LoadDrop(t)  PROVE ControlOK'
  BY <1>8 DEF LoadDrop
<1>9. ASSUME NEW t \in Thread, PromoteRename(t)  PROVE ControlOK'
  BY <1>9 DEF PromoteRename
<1>10. ASSUME NEW t \in Thread, PromoteRenameFails(t)  PROVE ControlOK'
  BY <1>10 DEF PromoteRenameFails
<1>11. ASSUME NEW t \in Thread, PromoteRecord(t)  PROVE ControlOK'
  BY <1>11 DEF PromoteRecord
<1>12. ASSUME NEW t \in Thread, PromoteUnlock(t)  PROVE ControlOK'
  BY <1>12 DEF PromoteUnlock
<1>13. ASSUME NEW h \in Hash, Expire(h)  PROVE ControlOK'
  BY <1>13 DEF Expire
<1>14. ASSUME NEW h \in Hash, Purge(h)  PROVE ControlOK'
  BY <1>14 DEF Purge
<1>15. ASSUME Crash  PROVE ControlOK'
  <2>1. crashes' \in 0..MaxCrashes
    BY <1>15 DEF Crash
  <2>2. pc' \in [Thread -> Step] /\ then' \in [Thread -> {"idle", "load_open", "promote_unlock"}]
    BY <1>15 DEF Crash
  <2>3. QED
    BY <1>15, <2>1, <2>2 DEF Crash
<1>16. ASSUME LoadFromDisk  PROVE ControlOK'
  BY <1>16 DEF LoadFromDisk
<1>17. ASSUME FirstFlush  PROVE ControlOK'
  BY <1>17 DEF FirstFlush
<1>18. ASSUME UNCHANGED vars  PROVE ControlOK'
  BY <1>18 DEF vars, disk, locals
<1>19. QED
  BY <1>1, <1>2, <1>3, <1>4, <1>5, <1>6, <1>7, <1>8, <1>9, <1>10, <1>11,
     <1>12, <1>13, <1>14, <1>15, <1>16, <1>17, <1>18
  DEF Next

(* Each mutex stays with the thread that is inside what it guards.         *)
LEMMA LocksStep ==
  ASSUME ControlOK, LocksOK, [Next]_vars
  PROVE  LocksOK'
<1> USE NoThreadAssumption DEF ControlOK, LocksOK, InPromote, Promoting, Step,
    disk, locals, Goto, Return, Calls, CallFlush
<1>1. ASSUME NEW t \in Thread, NEW h \in Hash, LoadLookup(t, h)  PROVE LocksOK'
  BY <1>1 DEF LoadLookup
<1>2. ASSUME NEW t \in Thread, NEW h \in Hash, PromoteLock(t, h)  PROVE LocksOK'
  BY <1>2 DEF PromoteLock
<1>3. ASSUME NEW t \in Thread, NEW h \in Hash, Refresh(t, h)  PROVE LocksOK'
  BY <1>3 DEF Refresh
<1>4. ASSUME NEW t \in Thread, FlushSnapshot(t)  PROVE LocksOK'
  BY <1>4 DEF FlushSnapshot
<1>5. ASSUME NEW t \in Thread, FlushRename(t)  PROVE LocksOK'
  BY <1>5 DEF FlushRename, FlushReturns
<1>6. ASSUME NEW t \in Thread, FlushFails(t)  PROVE LocksOK'
  BY <1>6 DEF FlushFails, FlushReturns
<1>7. ASSUME NEW t \in Thread, LoadOpen(t)  PROVE LocksOK'
  BY <1>7 DEF LoadOpen
<1>8. ASSUME NEW t \in Thread, LoadDrop(t)  PROVE LocksOK'
  BY <1>8 DEF LoadDrop
<1>9. ASSUME NEW t \in Thread, PromoteRename(t)  PROVE LocksOK'
  BY <1>9 DEF PromoteRename
<1>10. ASSUME NEW t \in Thread, PromoteRenameFails(t)  PROVE LocksOK'
  BY <1>10 DEF PromoteRenameFails
<1>11. ASSUME NEW t \in Thread, PromoteRecord(t)  PROVE LocksOK'
  BY <1>11 DEF PromoteRecord
<1>12. ASSUME NEW t \in Thread, PromoteUnlock(t)  PROVE LocksOK'
  BY <1>12 DEF PromoteUnlock
<1>13. ASSUME NEW h \in Hash, Expire(h)  PROVE LocksOK'
  BY <1>13 DEF Expire
<1>14. ASSUME NEW h \in Hash, Purge(h)  PROVE LocksOK'
  BY <1>14 DEF Purge
<1>15. ASSUME Crash  PROVE LocksOK'
  BY <1>15 DEF Crash
<1>16. ASSUME LoadFromDisk  PROVE LocksOK'
  BY <1>16 DEF LoadFromDisk
<1>17. ASSUME FirstFlush  PROVE LocksOK'
  BY <1>17 DEF FirstFlush
<1>18. ASSUME UNCHANGED vars  PROVE LocksOK'
  BY <1>18 DEF vars, disk, locals
<1>19. QED
  BY <1>1, <1>2, <1>3, <1>4, <1>5, <1>6, <1>7, <1>8, <1>9, <1>10, <1>11,
     <1>12, <1>13, <1>14, <1>15, <1>16, <1>17, <1>18
  DEF Next

(* A thread keeps what its step needs.                                     *)
LEMMA SeenStep ==
  ASSUME ControlOK, LocksOK, ValuesOK, SeenInv, BoundInv, [Next]_vars
  PROVE  SeenInv'
<1> USE DEF ControlOK, ValuesOK, SeenInv, BoundInv, BoundH, BoundT, Time, disk,
    locals, Goto, Return, Calls, CallFlush, Tick, LocksOK, InPromote, Promoting
<1>1. ASSUME NEW t \in Thread, NEW h \in Hash, LoadLookup(t, h)  PROVE SeenInv'
  BY <1>1 DEF LoadLookup
<1>2. ASSUME NEW t \in Thread, NEW h \in Hash, PromoteLock(t, h)  PROVE SeenInv'
  BY <1>2 DEF PromoteLock
<1>3. ASSUME NEW t \in Thread, NEW h \in Hash, Refresh(t, h)  PROVE SeenInv'
  BY <1>3 DEF Refresh
<1>4. ASSUME NEW t \in Thread, FlushSnapshot(t)  PROVE SeenInv'
  BY <1>4 DEF FlushSnapshot
<1>5. ASSUME NEW t \in Thread, FlushRename(t)  PROVE SeenInv'
  BY <1>5 DEF FlushRename, FlushReturns
<1>6. ASSUME NEW t \in Thread, FlushFails(t)  PROVE SeenInv'
  BY <1>6 DEF FlushFails, FlushReturns
<1>7. ASSUME NEW t \in Thread, LoadOpen(t)  PROVE SeenInv'
  BY <1>7 DEF LoadOpen
<1>8. ASSUME NEW t \in Thread, LoadDrop(t)  PROVE SeenInv'
  BY <1>8 DEF LoadDrop
<1>9. ASSUME NEW t \in Thread, PromoteRename(t)  PROVE SeenInv'
  BY <1>9 DEF PromoteRename
<1>10. ASSUME NEW t \in Thread, PromoteRenameFails(t)  PROVE SeenInv'
  BY <1>10 DEF PromoteRenameFails
<1>11. ASSUME NEW t \in Thread, PromoteRecord(t)  PROVE SeenInv'
  BY <1>11 DEF PromoteRecord
<1>12. ASSUME NEW t \in Thread, PromoteUnlock(t)  PROVE SeenInv'
  BY <1>12 DEF PromoteUnlock
<1>13. ASSUME NEW h \in Hash, Expire(h)  PROVE SeenInv'
  BY <1>13 DEF Expire
<1>14. ASSUME NEW h \in Hash, Purge(h)  PROVE SeenInv'
  BY <1>14 DEF Purge
<1>15. ASSUME Crash  PROVE SeenInv'
  BY <1>15 DEF Crash
<1>16. ASSUME LoadFromDisk  PROVE SeenInv'
  BY <1>16 DEF LoadFromDisk
<1>17. ASSUME FirstFlush  PROVE SeenInv'
  BY <1>17 DEF FirstFlush
<1>18. ASSUME UNCHANGED vars  PROVE SeenInv'
  BY <1>18 DEF vars, disk, locals
<1>19. QED
  BY <1>1, <1>2, <1>3, <1>4, <1>5, <1>6, <1>7, <1>8, <1>9, <1>10, <1>11,
     <1>12, <1>13, <1>14, <1>15, <1>16, <1>17, <1>18
  DEF Next

(* No index maps every list to no entry.                                   *)
LEMMA NoIndexOK ==
  /\ NoIndex \in [Hash -> Entry \cup {NoEntry}]
  /\ \A h \in Hash : NoIndex[h] = NoEntry /\ NoIndex[h].meta = 0 /\ NoIndex[h].lastAccess = 0
BY Entries DEF NoIndex

(* The times are numbers.                                                  *)
LEMMA Numbers ==
  ASSUME ValuesOK, ControlOK
  PROVE  /\ clock \in Nat
         /\ \A h \in Hash : /\ content[h] \in Nat
                          /\ index[h].meta \in Nat /\ index[h].lastAccess \in Nat
                          /\ entries[h].meta \in Nat /\ entries[h].lastAccess \in Nat
         /\ \A t \in Thread : /\ seen[t] \in Nat /\ hash[t] \in Hash
                            /\ \A h \in Hash : /\ snapshot[t][h].meta \in Nat
                                               /\ snapshot[t][h].lastAccess \in Nat
<1>1. Time \subseteq Nat /\ 0 \in Time
  BY MaxTimeAssumption DEF Time
<1>2. \A e \in Entry \cup {NoEntry} : e.meta \in Nat /\ e.lastAccess \in Nat
  BY <1>1, Entries
<1>3. QED
  BY <1>1, <1>2 DEF ValuesOK, ControlOK

(* A step keeps the types of the entries and the files.                    *)
LEMMA ValuesStep ==
  ASSUME ControlOK, ValuesOK, BoundInv, SeenInv, [Next]_vars
  PROVE  ValuesOK'
<1> USE MaxTimeAssumption DEF ValuesOK, ControlOK, Time, disk, locals, Goto,
    Return, Calls, CallFlush, Tick
<1>1. ASSUME NEW t \in Thread, NEW h \in Hash, LoadLookup(t, h)  PROVE ValuesOK'
  <2>1. Touched
    BY <1>1, LookupTouches
  <2>2. /\ \A u \in Thread : u # t => seen'[u] = seen[u] /\ hash'[u] = hash[u]
        /\ hash'[t] = h /\ seen'[t] \in {entries[h].meta, 0}
        /\ UNCHANGED <<content, index, snapshot>> /\ clock' = clock + 1
        /\ seen' \in [Thread -> Time]
    <3>1. entries[h].meta \in Time
      BY Entries, MaxTimeAssumption DEF ValuesOK, Time
    <3>2. QED
      BY <1>1, <3>1 DEF LoadLookup, Calls, Tick, disk, ValuesOK, ControlOK,
         SeenInv
  <2>3. QED
    BY <2>1, <2>2, Numbers DEF ValuesOK, Touched
<1>2. ASSUME NEW t \in Thread, NEW h \in Hash, PromoteLock(t, h)  PROVE ValuesOK'
  BY <1>2 DEF PromoteLock
<1>3. ASSUME NEW t \in Thread, NEW h \in Hash, Refresh(t, h)  PROVE ValuesOK'
  <2>1. Touched
    BY <1>3, RefreshTouches
  <2>2. /\ \A u \in Thread : u # t => seen'[u] = seen[u] /\ hash'[u] = hash[u]
        /\ hash'[t] = h /\ seen'[t] \in {entries[h].meta, 0}
        /\ UNCHANGED <<content, index, snapshot>> /\ clock' = clock + 1
        /\ seen' \in [Thread -> Time]
    <3>1. entries[h].meta \in Time
      BY Entries, MaxTimeAssumption DEF ValuesOK, Time
    <3>2. QED
      BY <1>3, <3>1 DEF Refresh, Calls, Tick, disk, ValuesOK, ControlOK, SeenInv
  <2>3. QED
    BY <2>1, <2>2, Numbers DEF ValuesOK, Touched
<1>4. ASSUME NEW t \in Thread, FlushSnapshot(t)  PROVE ValuesOK'
  BY <1>4 DEF FlushSnapshot
<1>5. ASSUME NEW t \in Thread, FlushRename(t)  PROVE ValuesOK'
  BY <1>5, NoIndexOK DEF FlushRename, FlushReturns
<1>6. ASSUME NEW t \in Thread, FlushFails(t)  PROVE ValuesOK'
  BY <1>6, NoIndexOK DEF FlushFails, FlushReturns
<1>7. ASSUME NEW t \in Thread, LoadOpen(t)  PROVE ValuesOK'
  BY <1>7 DEF LoadOpen
<1>8. ASSUME NEW t \in Thread, LoadDrop(t)  PROVE ValuesOK'
  BY <1>8 DEF LoadDrop
<1>9. ASSUME NEW t \in Thread, PromoteRename(t)  PROVE ValuesOK'
  BY <1>9 DEF PromoteRename
<1>10. ASSUME NEW t \in Thread, PromoteRenameFails(t)  PROVE ValuesOK'
  BY <1>10 DEF PromoteRenameFails
<1>11. ASSUME NEW t \in Thread, PromoteRecord(t)  PROVE ValuesOK'
  BY <1>11, RecordReplaces DEF PromoteRecord
<1>12. ASSUME NEW t \in Thread, PromoteUnlock(t)  PROVE ValuesOK'
  BY <1>12 DEF PromoteUnlock
<1>13. ASSUME NEW h \in Hash, Expire(h)  PROVE ValuesOK'
  BY <1>13, ExpireKeeps DEF Expire, Same
<1>14. ASSUME NEW h \in Hash, Purge(h)  PROVE ValuesOK'
  BY <1>14 DEF Purge
<1>15. ASSUME Crash  PROVE ValuesOK'
  BY <1>15, NoIndexOK DEF Crash
<1>16. ASSUME LoadFromDisk  PROVE ValuesOK'
  BY <1>16, LoadReconciles DEF LoadFromDisk
<1>17. ASSUME FirstFlush  PROVE ValuesOK'
  BY <1>17 DEF FirstFlush
<1>18. ASSUME UNCHANGED vars  PROVE ValuesOK'
  BY <1>18 DEF vars, disk, locals
<1>19. QED
  BY <1>1, <1>2, <1>3, <1>4, <1>5, <1>6, <1>7, <1>8, <1>9, <1>10, <1>11,
     <1>12, <1>13, <1>14, <1>15, <1>16, <1>17, <1>18
  DEF Next

(* A step keeps the clock ahead.                                           *)
LEMMA BoundStep ==
  ASSUME ControlOK, ValuesOK, BoundInv, SeenInv, [Next]_vars
  PROVE  BoundInv'
<1> USE Numbers DEF BoundInv, BoundH, BoundT, disk, locals, Goto, Return, Calls,
    CallFlush, Tick
<1>1. ASSUME NEW t \in Thread, NEW h \in Hash, LoadLookup(t, h)  PROVE BoundInv'
  <2>1. Touched
    BY <1>1, LookupTouches
  <2>2. /\ \A u \in Thread : u # t => seen'[u] = seen[u] /\ hash'[u] = hash[u]
        /\ hash'[t] = h /\ seen'[t] \in {entries[h].meta, 0}
        /\ UNCHANGED <<content, index, snapshot>> /\ clock' = clock + 1
        /\ seen' \in [Thread -> Time]
    <3>1. entries[h].meta \in Time
      BY Entries, MaxTimeAssumption DEF ValuesOK, Time
    <3>2. QED
      BY <1>1, <3>1 DEF LoadLookup, Calls, Tick, disk, ValuesOK, ControlOK,
         SeenInv
  <2>3. ASSUME NEW g \in Hash  PROVE BoundH(g)'
    BY <2>1, <2>2, Numbers DEF BoundInv, BoundH, BoundT, Touched
  <2>4. ASSUME NEW u \in Thread, NEW g \in Hash  PROVE BoundT(u, g)'
    <3>1. BoundT(u, g) /\ BoundH(h) /\ BoundH(g)
      BY DEF BoundInv
    <3>2. CASE u = t
      BY <2>2, <3>1, <3>2, Numbers DEF BoundH, BoundT
    <3>3. CASE u # t
      BY <2>2, <3>1, <3>3, Numbers DEF BoundH, BoundT
    <3>4. QED
      BY <3>2, <3>3
  <2>5. QED
    BY <2>3, <2>4 DEF BoundInv
<1>2. ASSUME NEW t \in Thread, NEW h \in Hash, PromoteLock(t, h)  PROVE BoundInv'
  BY <1>2 DEF PromoteLock
<1>3. ASSUME NEW t \in Thread, NEW h \in Hash, Refresh(t, h)  PROVE BoundInv'
  <2>1. Touched
    BY <1>3, RefreshTouches
  <2>2. /\ \A u \in Thread : u # t => seen'[u] = seen[u] /\ hash'[u] = hash[u]
        /\ hash'[t] = h /\ seen'[t] \in {entries[h].meta, 0}
        /\ UNCHANGED <<content, index, snapshot>> /\ clock' = clock + 1
        /\ seen' \in [Thread -> Time]
    <3>1. entries[h].meta \in Time
      BY Entries, MaxTimeAssumption DEF ValuesOK, Time
    <3>2. QED
      BY <1>3, <3>1 DEF Refresh, Calls, Tick, disk, ValuesOK, ControlOK, SeenInv
  <2>3. ASSUME NEW g \in Hash  PROVE BoundH(g)'
    BY <2>1, <2>2, Numbers DEF BoundInv, BoundH, BoundT, Touched
  <2>4. ASSUME NEW u \in Thread, NEW g \in Hash  PROVE BoundT(u, g)'
    <3>1. BoundT(u, g) /\ BoundH(h) /\ BoundH(g)
      BY DEF BoundInv
    <3>2. CASE u = t
      BY <2>2, <3>1, <3>2, Numbers DEF BoundH, BoundT
    <3>3. CASE u # t
      BY <2>2, <3>1, <3>3, Numbers DEF BoundH, BoundT
    <3>4. QED
      BY <3>2, <3>3
  <2>5. QED
    BY <2>3, <2>4 DEF BoundInv
<1>4. ASSUME NEW t \in Thread, FlushSnapshot(t)  PROVE BoundInv'
  BY <1>4 DEF FlushSnapshot
<1>5. ASSUME NEW t \in Thread, FlushRename(t)  PROVE BoundInv'
  BY <1>5, NoIndexOK DEF FlushRename, FlushReturns
<1>6. ASSUME NEW t \in Thread, FlushFails(t)  PROVE BoundInv'
  BY <1>6, NoIndexOK DEF FlushFails, FlushReturns
<1>7. ASSUME NEW t \in Thread, LoadOpen(t)  PROVE BoundInv'
  <2>1. /\ \A u \in Thread : seen'[u] \in {seen[u], 0}
        /\ UNCHANGED <<clock, content, index, entries, snapshot, hash>>
    BY <1>7 DEF LoadOpen, Return, disk, ValuesOK
  <2>2. ASSUME NEW g \in Hash  PROVE BoundH(g)'
    BY <2>1, Numbers DEF BoundInv, BoundH, BoundT
  <2>3. ASSUME NEW u \in Thread, NEW g \in Hash  PROVE BoundT(u, g)'
    BY <2>1, Numbers DEF BoundInv, BoundH, BoundT
  <2>4. QED
    BY <2>2, <2>3 DEF BoundInv
<1>8. ASSUME NEW t \in Thread, LoadDrop(t)  PROVE BoundInv'
  <2>1. /\ \A u \in Thread : seen'[u] \in {seen[u], 0}
        /\ \A g \in Hash : entries'[g] \in {entries[g], NoEntry}
        /\ UNCHANGED <<clock, content, index, snapshot, hash>>
        /\ NoEntry.meta = 0 /\ NoEntry.lastAccess = 0
    BY <1>8, Entries DEF LoadDrop, Return, disk, ValuesOK, ControlOK
  <2>2. ASSUME NEW g \in Hash  PROVE BoundH(g)'
    BY <2>1, Numbers DEF BoundInv, BoundH, BoundT
  <2>3. ASSUME NEW u \in Thread, NEW g \in Hash  PROVE BoundT(u, g)'
    BY <2>1, Numbers DEF BoundInv, BoundH, BoundT
  <2>4. QED
    BY <2>2, <2>3 DEF BoundInv
<1>9. ASSUME NEW t \in Thread, PromoteRename(t)  PROVE BoundInv'
  BY <1>9 DEF PromoteRename, ValuesOK, ControlOK
<1>10. ASSUME NEW t \in Thread, PromoteRenameFails(t)  PROVE BoundInv'
  BY <1>10 DEF PromoteRenameFails
<1>11. ASSUME NEW t \in Thread, PromoteRecord(t)  PROVE BoundInv'
  BY <1>11, RecordReplaces DEF PromoteRecord
<1>12. ASSUME NEW t \in Thread, PromoteUnlock(t)  PROVE BoundInv'
  BY <1>12 DEF PromoteUnlock
<1>13. ASSUME NEW h \in Hash, Expire(h)  PROVE BoundInv'
  BY <1>13, ExpireKeeps DEF Expire, Same
<1>14. ASSUME NEW h \in Hash, Purge(h)  PROVE BoundInv'
  BY <1>14 DEF Purge
<1>15. ASSUME Crash  PROVE BoundInv'
  BY <1>15, NoIndexOK DEF Crash
<1>16. ASSUME LoadFromDisk  PROVE BoundInv'
  <2>1. /\ \A g \in Hash : \/ entries'[g] = NoEntry /\ content'[g] = 0
                       \/ /\ content'[g] = content[g]
                          /\ \/ entries'[g] = index[g]
                             \/ entries'[g].meta = 0 /\ entries'[g].lastAccess = clock
        /\ UNCHANGED <<clock, index, snapshot, seen, hash>>
        /\ NoEntry.meta = 0 /\ NoEntry.lastAccess = 0
    BY <1>16, Entries, LoadReconciles DEF LoadFromDisk, locals
  <2>2. ASSUME NEW g \in Hash  PROVE BoundH(g)'
    BY <2>1, Numbers DEF BoundInv, BoundH, BoundT
  <2>3. ASSUME NEW u \in Thread, NEW g \in Hash  PROVE BoundT(u, g)'
    BY <2>1, Numbers DEF BoundInv, BoundH, BoundT
  <2>4. QED
    BY <2>2, <2>3 DEF BoundInv
<1>17. ASSUME FirstFlush  PROVE BoundInv'
  BY <1>17 DEF FirstFlush
<1>18. ASSUME UNCHANGED vars  PROVE BoundInv'
  BY <1>18 DEF vars, disk, locals
<1>19. QED
  BY <1>1, <1>2, <1>3, <1>4, <1>5, <1>6, <1>7, <1>8, <1>9, <1>10, <1>11,
     <1>12, <1>13, <1>14, <1>15, <1>16, <1>17, <1>18
  DEF Next

(* A step keeps the metadata no newer than the bytes.                      *)
LEMMA MetaStep ==
  ASSUME ControlOK, ValuesOK, BoundInv, SeenInv, MetaInv, [Next]_vars
  PROVE  MetaInv'
<1> USE Numbers DEF MetaInv, MetaH, MetaT, disk, locals, Goto, Return, Calls,
    CallFlush, Tick
<1>1. ASSUME NEW t \in Thread, NEW h \in Hash, LoadLookup(t, h)  PROVE MetaInv'
  <2>1. Touched
    BY <1>1, LookupTouches
  <2>2. /\ \A u \in Thread : u # t => seen'[u] = seen[u] /\ hash'[u] = hash[u]
        /\ hash'[t] = h /\ seen'[t] \in {entries[h].meta, 0}
        /\ UNCHANGED <<content, index, snapshot>> /\ clock' = clock + 1
        /\ seen' \in [Thread -> Time]
    <3>1. entries[h].meta \in Time
      BY Entries, MaxTimeAssumption DEF ValuesOK, Time
    <3>2. QED
      BY <1>1, <3>1 DEF LoadLookup, Calls, Tick, disk, ValuesOK, ControlOK,
         SeenInv
  <2>3. ASSUME NEW g \in Hash  PROVE MetaH(g)'
    BY <2>1, <2>2, Numbers DEF MetaInv, MetaH, MetaT, Touched
  <2>4. ASSUME NEW u \in Thread, NEW g \in Hash  PROVE MetaT(u, g)'
    <3>1. MetaT(u, g) /\ MetaH(h) /\ MetaH(g)
      BY DEF MetaInv
    <3>2. CASE u = t
      BY <2>2, <3>1, <3>2, Numbers DEF MetaH, MetaT
    <3>3. CASE u # t
      BY <2>2, <3>1, <3>3, Numbers DEF MetaH, MetaT
    <3>4. QED
      BY <3>2, <3>3
  <2>5. QED
    BY <2>3, <2>4 DEF MetaInv
<1>2. ASSUME NEW t \in Thread, NEW h \in Hash, PromoteLock(t, h)  PROVE MetaInv'
  BY <1>2 DEF PromoteLock, SeenInv
<1>3. ASSUME NEW t \in Thread, NEW h \in Hash, Refresh(t, h)  PROVE MetaInv'
  <2>1. Touched
    BY <1>3, RefreshTouches
  <2>2. /\ \A u \in Thread : u # t => seen'[u] = seen[u] /\ hash'[u] = hash[u]
        /\ hash'[t] = h /\ seen'[t] \in {entries[h].meta, 0}
        /\ UNCHANGED <<content, index, snapshot>> /\ clock' = clock + 1
        /\ seen' \in [Thread -> Time]
    <3>1. entries[h].meta \in Time
      BY Entries, MaxTimeAssumption DEF ValuesOK, Time
    <3>2. QED
      BY <1>3, <3>1 DEF Refresh, Calls, Tick, disk, ValuesOK, ControlOK, SeenInv
  <2>3. ASSUME NEW g \in Hash  PROVE MetaH(g)'
    BY <2>1, <2>2, Numbers DEF MetaInv, MetaH, MetaT, Touched
  <2>4. ASSUME NEW u \in Thread, NEW g \in Hash  PROVE MetaT(u, g)'
    <3>1. MetaT(u, g) /\ MetaH(h) /\ MetaH(g)
      BY DEF MetaInv
    <3>2. CASE u = t
      BY <2>2, <3>1, <3>2, Numbers DEF MetaH, MetaT
    <3>3. CASE u # t
      BY <2>2, <3>1, <3>3, Numbers DEF MetaH, MetaT
    <3>4. QED
      BY <3>2, <3>3
  <2>5. QED
    BY <2>3, <2>4 DEF MetaInv
<1>4. ASSUME NEW t \in Thread, FlushSnapshot(t)  PROVE MetaInv'
  BY <1>4 DEF FlushSnapshot
<1>5. ASSUME NEW t \in Thread, FlushRename(t)  PROVE MetaInv'
  BY <1>5, NoIndexOK DEF FlushRename, FlushReturns
<1>6. ASSUME NEW t \in Thread, FlushFails(t)  PROVE MetaInv'
  BY <1>6, NoIndexOK DEF FlushFails, FlushReturns
<1>7. ASSUME NEW t \in Thread, LoadOpen(t)  PROVE MetaInv'
  <2>1. /\ \A u \in Thread : seen'[u] \in {seen[u], 0}
        /\ UNCHANGED <<clock, content, index, entries, snapshot, hash>>
    BY <1>7 DEF LoadOpen, Return, disk, ValuesOK
  <2>2. ASSUME NEW g \in Hash  PROVE MetaH(g)'
    BY <2>1, Numbers DEF MetaInv, MetaH, MetaT
  <2>3. ASSUME NEW u \in Thread, NEW g \in Hash  PROVE MetaT(u, g)'
    BY <2>1, Numbers DEF MetaInv, MetaH, MetaT
  <2>4. QED
    BY <2>2, <2>3 DEF MetaInv
<1>8. ASSUME NEW t \in Thread, LoadDrop(t)  PROVE MetaInv'
  <2>1. /\ \A u \in Thread : seen'[u] \in {seen[u], 0}
        /\ \A g \in Hash : entries'[g] \in {entries[g], NoEntry}
        /\ UNCHANGED <<clock, content, index, snapshot, hash>>
        /\ NoEntry.meta = 0 /\ NoEntry.lastAccess = 0
    BY <1>8, Entries DEF LoadDrop, Return, disk, ValuesOK, ControlOK
  <2>2. ASSUME NEW g \in Hash  PROVE MetaH(g)'
    BY <2>1, Numbers DEF MetaInv, MetaH, MetaT
  <2>3. ASSUME NEW u \in Thread, NEW g \in Hash  PROVE MetaT(u, g)'
    BY <2>1, Numbers DEF MetaInv, MetaH, MetaT
  <2>4. QED
    BY <2>2, <2>3 DEF MetaInv
<1>9. ASSUME NEW t \in Thread, PromoteRename(t)  PROVE MetaInv'
  BY <1>9 DEF PromoteRename, BoundInv, BoundH, BoundT, ValuesOK, ControlOK
<1>10. ASSUME NEW t \in Thread, PromoteRenameFails(t)  PROVE MetaInv'
  BY <1>10 DEF PromoteRenameFails
<1>11. ASSUME NEW t \in Thread, PromoteRecord(t)  PROVE MetaInv'
  BY <1>11, RecordReplaces DEF PromoteRecord
<1>12. ASSUME NEW t \in Thread, PromoteUnlock(t)  PROVE MetaInv'
  BY <1>12 DEF PromoteUnlock
<1>13. ASSUME NEW h \in Hash, Expire(h)  PROVE MetaInv'
  BY <1>13, ExpireKeeps DEF Expire, Same
<1>14. ASSUME NEW h \in Hash, Purge(h)  PROVE MetaInv'
  BY <1>14 DEF Purge
<1>15. ASSUME Crash  PROVE MetaInv'
  BY <1>15, NoIndexOK DEF Crash
<1>16. ASSUME LoadFromDisk  PROVE MetaInv'
  <2>1. /\ \A g \in Hash : \/ entries'[g] = NoEntry /\ content'[g] = 0
                       \/ /\ content'[g] = content[g]
                          /\ \/ entries'[g] = index[g]
                             \/ entries'[g].meta = 0 /\ entries'[g].lastAccess = clock
        /\ UNCHANGED <<clock, index, snapshot, seen, hash>>
        /\ NoEntry.meta = 0 /\ NoEntry.lastAccess = 0
    BY <1>16, Entries, LoadReconciles DEF LoadFromDisk, locals
  <2>2. ASSUME NEW g \in Hash  PROVE MetaH(g)'
    BY <2>1, Numbers DEF MetaInv, MetaH, MetaT, SeenInv
  <2>3. ASSUME NEW u \in Thread, NEW g \in Hash  PROVE MetaT(u, g)'
    BY <2>1, Numbers DEF MetaInv, MetaH, MetaT, SeenInv
  <2>4. QED
    BY <2>2, <2>3 DEF MetaInv
<1>17. ASSUME FirstFlush  PROVE MetaInv'
  BY <1>17 DEF FirstFlush
<1>18. ASSUME UNCHANGED vars  PROVE MetaInv'
  BY <1>18 DEF vars, disk, locals
<1>19. QED
  BY <1>1, <1>2, <1>3, <1>4, <1>5, <1>6, <1>7, <1>8, <1>9, <1>10, <1>11,
     <1>12, <1>13, <1>14, <1>15, <1>16, <1>17, <1>18
  DEF Next

-----------------------------------------------------------------------------
(* What the actions do, thread by thread and list by list                  *)

(* The other threads stay where they are.                                  *)
Others(t) ==
  \A u \in Thread : u # t =>
    /\ pc'[u] = pc[u] /\ hash'[u] = hash[u] /\ seen'[u] = seen[u]
    /\ then'[u] = then[u] /\ snapshot'[u] = snapshot[u]

(* Load's lookup of h, for t and for everyone else.                       *)
LEMMA LoadLookupEffect ==
  ASSUME ControlOK, ValuesOK, BoundInv, SeenInv,
         NEW t \in Thread, NEW h \in Hash, LoadLookup(t, h)
  PROVE  /\ Touched
         /\ Others(t)
         /\ proc = "up" /\ clock' = clock + 1
         /\ pc[t] = "idle" /\ hash'[t] = h /\ seen'[t] = entries[h].meta
         /\ \/ pc'[t] = "flush" /\ then'[t] = "load_open"
            \/ pc'[t] = "load_open"
         /\ UNCHANGED <<proc, content, index, promoteMu, flushMu, flushErr, snapshot>>
BY LookupTouches, Entries DEF LoadLookup, Calls, Goto, CallFlush, Tick, disk,
   Others, ControlOK, ValuesOK

(* Promote of h takes promoteMu.                                          *)
LEMMA PromoteLockEffect ==
  ASSUME ControlOK, ValuesOK, BoundInv, SeenInv,
         NEW t \in Thread, NEW h \in Hash, PromoteLock(t, h)
  PROVE  /\ Others(t)
         /\ proc = "up" /\ promoteMu = NoThread
         /\ pc[t] = "idle" /\ pc'[t] = "promote_rename" /\ hash'[t] = h
         /\ UNCHANGED <<proc, clock, content, index, entries, flushMu, flushErr, seen, snapshot, then>>
BY DEF PromoteLock, Calls, Goto, disk, Others, ControlOK, ValuesOK

(* Refresh touches entries and goes on to Flush.                          *)
LEMMA RefreshEffect ==
  ASSUME ControlOK, ValuesOK, BoundInv, SeenInv,
         NEW t \in Thread, NEW h \in Hash, Refresh(t, h)
  PROVE  /\ Touched
         /\ Others(t)
         /\ proc = "up" /\ clock' = clock + 1
         /\ pc[t] = "idle" /\ hash'[t] = h /\ pc'[t] = "flush" /\ then'[t] = "idle"
         /\ UNCHANGED <<proc, content, index, promoteMu, flushMu, flushErr, seen, snapshot>>
BY RefreshTouches, Entries DEF Refresh, Calls, Goto, CallFlush, Tick, disk,
   Others, ControlOK, ValuesOK

(* Flush marshals the entries.                                            *)
LEMMA FlushSnapshotEffect ==
  ASSUME ControlOK, ValuesOK, BoundInv, SeenInv, NEW t \in Thread, FlushSnapshot(t)
  PROVE  /\ Others(t)
         /\ pc[t] = "flush" /\ pc'[t] = "flush_rename"
         /\ flushMu = NoThread /\ snapshot'[t] = entries
         /\ UNCHANGED <<proc, clock, content, index, entries, promoteMu, flushErr, hash, seen, then>>
BY DEF FlushSnapshot, Goto, disk, Others, ControlOK, ValuesOK

(* Flush replaces the index by its snapshot.                              *)
LEMMA FlushRenameEffect ==
  ASSUME ControlOK, ValuesOK, BoundInv, SeenInv, NEW t \in Thread, FlushRename(t)
  PROVE  /\ Others(t)
         /\ pc[t] = "flush_rename" /\ pc'[t] = then[t] /\ then'[t] = "idle"
         /\ then[t] \in {"idle", "load_open", "promote_unlock"}
         /\ index' = snapshot[t] /\ flushErr' = FALSE
         /\ UNCHANGED <<proc, clock, content, entries, promoteMu, hash, seen>>
BY DEF FlushRename, FlushReturns, Goto, Others, ControlOK, ValuesOK

(* A Flush that fails leaves the index.                                   *)
LEMMA FlushFailsEffect ==
  ASSUME ControlOK, ValuesOK, BoundInv, SeenInv, NEW t \in Thread, FlushFails(t)
  PROVE  /\ Others(t)
         /\ pc[t] = "flush_rename" /\ pc'[t] = then[t] /\ then'[t] = "idle"
         /\ then[t] \in {"idle", "load_open", "promote_unlock"}
         /\ flushErr' = TRUE
         /\ UNCHANGED <<proc, clock, content, index, entries, promoteMu, hash, seen>>
BY DEF FlushFails, FlushReturns, Goto, Others, ControlOK, ValuesOK

(* Load opens the file, or goes on to drop the entry.                     *)
LEMMA LoadOpenEffect ==
  ASSUME ControlOK, ValuesOK, BoundInv, SeenInv, NEW t \in Thread, LoadOpen(t)
  PROVE  /\ Others(t)
         /\ pc[t] = "load_open"
         /\ \/ pc'[t] = "idle"
            \/ pc'[t] = "load_drop" /\ content[hash[t]] = 0 /\ seen'[t] = seen[t]
         /\ UNCHANGED <<proc, clock, content, index, entries, promoteMu, flushMu, flushErr, hash, snapshot, then>>
BY DEF LoadOpen, Return, Goto, disk, Others, ControlOK, ValuesOK

(* Load drops the entry it had looked up, and no other.                   *)
LEMMA LoadDropEffect ==
  ASSUME ControlOK, ValuesOK, BoundInv, SeenInv, NEW t \in Thread, LoadDrop(t)
  PROVE  /\ Others(t)
         /\ pc[t] = "load_drop" /\ pc'[t] = "idle" /\ seen'[t] = 0
         /\ \A g \in Hash : \/ entries'[g] = entries[g]
                            \/ g = hash[t] /\ entries'[g] = NoEntry /\ entries[g].meta = seen[t]
         /\ UNCHANGED <<proc, clock, content, index, promoteMu, flushMu, flushErr, hash, snapshot, then>>
BY DEF LoadDrop, Return, Goto, disk, Others, ControlOK, ValuesOK

(* Promote's rename gives the file new bytes.                             *)
LEMMA PromoteRenameEffect ==
  ASSUME ControlOK, ValuesOK, BoundInv, SeenInv, NEW t \in Thread, PromoteRename(t)
  PROVE  /\ Others(t)
         /\ pc[t] = "promote_rename" /\ pc'[t] = "promote_record" /\ clock' = clock + 1
         /\ \A g \in Hash : content'[g] = IF g = hash[t] THEN clock' ELSE content[g]
         /\ seen'[t] = clock'
         /\ UNCHANGED <<proc, index, entries, promoteMu, flushMu, flushErr, hash, snapshot, then>>
BY DEF PromoteRename, Goto, Tick, Others, ControlOK, ValuesOK

(* A Promote whose rename fails ends.                                     *)
LEMMA PromoteRenameFailsEffect ==
  ASSUME ControlOK, ValuesOK, BoundInv, SeenInv, NEW t \in Thread, PromoteRenameFails(t)
  PROVE  /\ Others(t)
         /\ pc[t] = "promote_rename" /\ pc'[t] = "idle"
         /\ UNCHANGED <<proc, clock, content, index, entries, flushMu, flushErr, hash, snapshot, then>>
BY DEF PromoteRenameFails, Goto, Return, disk, Others, ControlOK, ValuesOK

(* Promote's record gives the file its entry.                             *)
LEMMA PromoteRecordEffect ==
  ASSUME ControlOK, ValuesOK, BoundInv, SeenInv, NEW t \in Thread, PromoteRecord(t)
  PROVE  /\ Others(t)
         /\ pc[t] = "promote_record" /\ pc'[t] = "flush" /\ then'[t] = "promote_unlock"
         /\ entries'[hash[t]] # NoEntry /\ entries'[hash[t]].meta = seen[t]
         /\ entries'[hash[t]].lastAccess = clock
         /\ \A g \in Hash : g # hash[t] => entries'[g] = entries[g]
         /\ UNCHANGED <<proc, clock, content, index, promoteMu, flushMu, flushErr, hash, seen, snapshot>>
BY RecordReplaces, Entries DEF PromoteRecord, Goto, CallFlush, disk, Others,
   ControlOK, ValuesOK

(* Promote ends.                                                          *)
LEMMA PromoteUnlockEffect ==
  ASSUME ControlOK, ValuesOK, BoundInv, SeenInv, NEW t \in Thread, PromoteUnlock(t)
  PROVE  /\ Others(t)
         /\ pc[t] = "promote_unlock" /\ pc'[t] = "idle"
         /\ UNCHANGED <<proc, clock, content, index, entries, flushMu, flushErr, hash, snapshot, then>>
BY DEF PromoteUnlock, Goto, Return, disk, Others, ControlOK, ValuesOK

(* Expire keeps everything but freshness.                                 *)
LEMMA ExpireEffect ==
  ASSUME ValuesOK, NEW h \in Hash, Expire(h)
  PROVE  /\ Same(index, index') /\ Same(entries, entries')
         /\ \A t \in Thread : Same(snapshot[t], snapshot'[t])
         /\ UNCHANGED <<proc, clock, content, flushErr, pc, hash, seen, then>>
BY ExpireKeeps DEF Expire

(* A crash leaves what is on disk.                                        *)
LEMMA CrashEffect ==
  ASSUME Crash
  PROVE  /\ proc' = "down"
         /\ \A g \in Hash : entries'[g] = NoEntry
         /\ \A u \in Thread : pc'[u] = "idle"
         /\ UNCHANGED <<clock, content, index, hash>>
BY NoIndexOK DEF Crash, disk

(* loadFromDisk pairs each file it keeps with an entry.                   *)
LEMMA LoadFromDiskEffect ==
  ASSUME ValuesOK, ControlOK, BoundInv, SeenInv, LoadFromDisk
  PROVE  /\ proc = "down" /\ proc' = "starting"
         /\ \A u \in Thread : pc[u] = "idle"
         /\ \A g \in Hash :
              \/ entries'[g] = NoEntry /\ content'[g] = 0
              \/ /\ entries'[g] # NoEntry /\ content'[g] = content[g]
                 /\ \/ entries'[g] = index[g]
                    \/ entries'[g].meta = 0 /\ entries'[g].lastAccess = clock
         /\ UNCHANGED <<clock, index, flushErr, pc, hash, seen, snapshot, then>>
<1>1. UNCHANGED <<clock, index, flushErr, pc, hash, seen, snapshot, then>>
  BY DEF LoadFromDisk, locals
<1>2. proc = "down" /\ proc' = "starting"
  BY DEF LoadFromDisk
<1>3. QED
  BY <1>1, <1>2, LoadReconciles DEF SeenInv

(* loadFromDisk's flush ends the start.                                   *)
LEMMA FirstFlushEffect ==
  ASSUME SeenInv, FirstFlush
  PROVE  /\ proc = "starting" /\ proc' = "up"
         /\ \A u \in Thread : pc[u] = "idle"
         /\ \/ index' = entries
            \/ index' = index /\ flushErr' = TRUE
         /\ UNCHANGED <<clock, content, entries, pc, hash, seen, snapshot, then>>
BY DEF FirstFlush, locals, SeenInv

(* At most one thread is inside each mutex, and none while it is free.     *)
LEMMA Exclusion ==
  ASSUME LocksOK
  PROVE  /\ \A t, u \in Thread : InPromote(t) /\ InPromote(u) => t = u
         /\ \A t, u \in Thread : pc[t] = "flush_rename" /\ pc[u] = "flush_rename" => t = u
         /\ promoteMu = NoThread => \A t \in Thread : ~InPromote(t)
         /\ flushMu = NoThread => \A t \in Thread : pc[t] # "flush_rename"
BY NoThreadAssumption DEF LocksOK

(* A step keeps a promotion's bytes and entry its own.                     *)
LEMMA PromoteStep ==
  ASSUME ControlOK, ValuesOK, LocksOK, BoundInv, SeenInv, PromoteInv, [Next]_vars
  PROVE  PromoteInv'
<1>1. ASSUME NEW t \in Thread, NEW h \in Hash, LoadLookup(t, h)  PROVE PromoteInv'
  BY <1>1, LoadLookupEffect, Exclusion, Entries DEF Others, PromoteInv,
     PromoteT, Recorded, InPromote, Promoting, ControlOK, Touched
<1>2. ASSUME NEW t \in Thread, NEW h \in Hash, PromoteLock(t, h)  PROVE PromoteInv'
  BY <1>2, PromoteLockEffect, Exclusion, Entries DEF Others, PromoteInv,
     PromoteT, Recorded, InPromote, Promoting, ControlOK
<1>3. ASSUME NEW t \in Thread, NEW h \in Hash, Refresh(t, h)  PROVE PromoteInv'
  BY <1>3, RefreshEffect, Exclusion, Entries DEF Others, PromoteInv, PromoteT,
     Recorded, InPromote, Promoting, ControlOK, Touched
<1>4. ASSUME NEW t \in Thread, FlushSnapshot(t)  PROVE PromoteInv'
  BY <1>4, FlushSnapshotEffect, Exclusion, Entries DEF Others, PromoteInv,
     PromoteT, Recorded, InPromote, Promoting, ControlOK
<1>5. ASSUME NEW t \in Thread, FlushRename(t)  PROVE PromoteInv'
  <2>1. Others(t)
    BY <1>5, FlushRenameEffect
  <2>2. /\ pc[t] = "flush_rename" /\ pc'[t] = then[t] /\ then'[t] = "idle"
        /\ then[t] \in {"idle", "load_open", "promote_unlock"}
        /\ index' = snapshot[t] /\ flushErr' = FALSE
        /\ UNCHANGED <<proc, clock, content, entries, promoteMu, hash, seen>>
    BY <1>5, FlushRenameEffect
  <2>3. ASSUME NEW u \in Thread  PROVE PromoteT(u)'
    <3>1. PromoteT(u)
      BY DEF PromoteInv
    <3>2. CASE u = t
      BY <2>1, <2>2, <3>1, <3>2 DEF PromoteT, Recorded
    <3>3. CASE u # t
      BY <2>1, <2>2, <3>1, <3>3 DEF PromoteT, Recorded, Others
    <3>4. QED
      BY <3>2, <3>3
  <2>5. QED
    BY <2>3 DEF PromoteInv
<1>6. ASSUME NEW t \in Thread, FlushFails(t)  PROVE PromoteInv'
  <2>1. Others(t)
    BY <1>6, FlushFailsEffect
  <2>2. /\ pc[t] = "flush_rename" /\ pc'[t] = then[t] /\ then'[t] = "idle"
        /\ then[t] \in {"idle", "load_open", "promote_unlock"}
        /\ flushErr' = TRUE
        /\ UNCHANGED <<proc, clock, content, index, entries, promoteMu, hash, seen>>
    BY <1>6, FlushFailsEffect
  <2>3. ASSUME NEW u \in Thread  PROVE PromoteT(u)'
    <3>1. PromoteT(u)
      BY DEF PromoteInv
    <3>2. CASE u = t
      BY <2>1, <2>2, <3>1, <3>2 DEF PromoteT, Recorded
    <3>3. CASE u # t
      BY <2>1, <2>2, <3>1, <3>3 DEF PromoteT, Recorded, Others
    <3>4. QED
      BY <3>2, <3>3
  <2>5. QED
    BY <2>3 DEF PromoteInv
<1>7. ASSUME NEW t \in Thread, LoadOpen(t)  PROVE PromoteInv'
  BY <1>7, LoadOpenEffect, Exclusion, Entries DEF Others, PromoteInv, PromoteT,
     Recorded, InPromote, Promoting, ControlOK
<1>8. ASSUME NEW t \in Thread, LoadDrop(t)  PROVE PromoteInv'
  BY <1>8, LoadDropEffect, Exclusion, Entries DEF Others, PromoteInv, PromoteT,
     Recorded, InPromote, Promoting, ControlOK
<1>9. ASSUME NEW t \in Thread, PromoteRename(t)  PROVE PromoteInv'
  BY <1>9, PromoteRenameEffect, Exclusion, Entries DEF Others, PromoteInv,
     PromoteT, Recorded, InPromote, Promoting, ControlOK
<1>10. ASSUME NEW t \in Thread, PromoteRenameFails(t)  PROVE PromoteInv'
  BY <1>10, PromoteRenameFailsEffect, Exclusion, Entries DEF Others, PromoteInv,
     PromoteT, Recorded, InPromote, Promoting, ControlOK
<1>11. ASSUME NEW t \in Thread, PromoteRecord(t)  PROVE PromoteInv'
  BY <1>11, PromoteRecordEffect, Exclusion, Entries DEF Others, PromoteInv,
     PromoteT, Recorded, InPromote, Promoting, ControlOK
<1>12. ASSUME NEW t \in Thread, PromoteUnlock(t)  PROVE PromoteInv'
  BY <1>12, PromoteUnlockEffect, Exclusion, Entries DEF Others, PromoteInv,
     PromoteT, Recorded, InPromote, Promoting, ControlOK
<1>13. ASSUME NEW h \in Hash, Expire(h)  PROVE PromoteInv'
  BY <1>13, ExpireEffect, Exclusion, Entries DEF Same, PromoteInv, PromoteT,
     Recorded, InPromote, Promoting, ControlOK
<1>14. ASSUME NEW h \in Hash, Purge(h)  PROVE PromoteInv'
  BY <1>14, Exclusion, Entries DEF Purge, PromoteInv, PromoteT, Recorded,
     InPromote, Promoting, ControlOK, locals, disk
<1>15. ASSUME Crash  PROVE PromoteInv'
  BY <1>15, CrashEffect, Exclusion, Entries DEF PromoteInv, PromoteT, Recorded,
     InPromote, Promoting, ControlOK
<1>16. ASSUME LoadFromDisk  PROVE PromoteInv'
  BY <1>16, LoadFromDiskEffect, Exclusion, Entries DEF PromoteInv, PromoteT,
     Recorded, InPromote, Promoting, ControlOK
<1>17. ASSUME FirstFlush  PROVE PromoteInv'
  BY <1>17, FirstFlushEffect, Exclusion, Entries DEF PromoteInv, PromoteT,
     Recorded, InPromote, Promoting, ControlOK
<1>18. ASSUME UNCHANGED vars  PROVE PromoteInv'
  BY <1>18 DEF vars, disk, locals, PromoteInv, PromoteT, Recorded, InPromote,
     Promoting, ControlOK
<1>19. QED
  BY <1>1, <1>2, <1>3, <1>4, <1>5, <1>6, <1>7, <1>8, <1>9, <1>10, <1>11,
     <1>12, <1>13, <1>14, <1>15, <1>16, <1>17, <1>18
  DEF Next

(* A step keeps the access times in order.                                 *)
LEMMA AccessStep ==
  ASSUME ControlOK, ValuesOK, LocksOK, BoundInv, SeenInv, AccessInv, [Next]_vars
  PROVE  AccessInv'
<1>1. ASSUME NEW t \in Thread, NEW h \in Hash, LoadLookup(t, h)  PROVE AccessInv'
  BY <1>1, LoadLookupEffect, Exclusion, Numbers, Entries DEF Others, AccessInv,
     AccessT, NotBefore, Touched, BoundInv, BoundH, BoundT
<1>2. ASSUME NEW t \in Thread, NEW h \in Hash, PromoteLock(t, h)  PROVE AccessInv'
  BY <1>2, PromoteLockEffect, Exclusion, Numbers, Entries DEF Others, AccessInv,
     AccessT, NotBefore
<1>3. ASSUME NEW t \in Thread, NEW h \in Hash, Refresh(t, h)  PROVE AccessInv'
  BY <1>3, RefreshEffect, Exclusion, Numbers, Entries DEF Others, AccessInv,
     AccessT, NotBefore, Touched, BoundInv, BoundH, BoundT
<1>4. ASSUME NEW t \in Thread, FlushSnapshot(t)  PROVE AccessInv'
  BY <1>4, FlushSnapshotEffect, Exclusion, Numbers, Entries DEF Others,
     AccessInv, AccessT, NotBefore
<1>5. ASSUME NEW t \in Thread, FlushRename(t)  PROVE AccessInv'
  <2>1. Others(t)
    BY <1>5, FlushRenameEffect
  <2>2. /\ pc[t] = "flush_rename" /\ pc'[t] = then[t] /\ then'[t] = "idle"
        /\ then[t] \in {"idle", "load_open", "promote_unlock"}
        /\ index' = snapshot[t] /\ flushErr' = FALSE
        /\ UNCHANGED <<proc, clock, content, entries, promoteMu, hash, seen>>
    BY <1>5, FlushRenameEffect
  <2>3. ASSUME NEW u \in Thread  PROVE AccessT(u)'
    <3>1. AccessT(u)
      BY DEF AccessInv
    <3>2. CASE u = t
      BY <2>1, <2>2, <3>1, <3>2 DEF AccessT, NotBefore
    <3>3. CASE u # t
      BY <2>1, <2>2, <3>1, <3>3, <1>5, Exclusion DEF AccessT, NotBefore, Others
    <3>4. QED
      BY <3>2, <3>3
  <2>4. NotBefore(index', entries')
    BY <2>1, <2>2 DEF AccessInv, AccessT, NotBefore, Others
  <2>5. QED
    BY <2>3, <2>4 DEF AccessInv
<1>6. ASSUME NEW t \in Thread, FlushFails(t)  PROVE AccessInv'
  <2>1. Others(t)
    BY <1>6, FlushFailsEffect
  <2>2. /\ pc[t] = "flush_rename" /\ pc'[t] = then[t] /\ then'[t] = "idle"
        /\ then[t] \in {"idle", "load_open", "promote_unlock"}
        /\ flushErr' = TRUE
        /\ UNCHANGED <<proc, clock, content, index, entries, promoteMu, hash, seen>>
    BY <1>6, FlushFailsEffect
  <2>3. ASSUME NEW u \in Thread  PROVE AccessT(u)'
    <3>1. AccessT(u)
      BY DEF AccessInv
    <3>2. CASE u = t
      BY <2>1, <2>2, <3>1, <3>2 DEF AccessT, NotBefore
    <3>3. CASE u # t
      BY <2>1, <2>2, <3>1, <3>3, <1>6, Exclusion DEF AccessT, NotBefore, Others
    <3>4. QED
      BY <3>2, <3>3
  <2>4. NotBefore(index', entries')
    BY <2>1, <2>2 DEF AccessInv, AccessT, NotBefore, Others
  <2>5. QED
    BY <2>3, <2>4 DEF AccessInv
<1>7. ASSUME NEW t \in Thread, LoadOpen(t)  PROVE AccessInv'
  BY <1>7, LoadOpenEffect, Exclusion, Numbers, Entries DEF Others, AccessInv,
     AccessT, NotBefore
<1>8. ASSUME NEW t \in Thread, LoadDrop(t)  PROVE AccessInv'
  BY <1>8, LoadDropEffect, Exclusion, Numbers, Entries DEF Others, AccessInv,
     AccessT, NotBefore
<1>9. ASSUME NEW t \in Thread, PromoteRename(t)  PROVE AccessInv'
  BY <1>9, PromoteRenameEffect, Exclusion, Numbers, Entries DEF Others,
     AccessInv, AccessT, NotBefore
<1>10. ASSUME NEW t \in Thread, PromoteRenameFails(t)  PROVE AccessInv'
  BY <1>10, PromoteRenameFailsEffect, Exclusion, Numbers, Entries DEF Others,
     AccessInv, AccessT, NotBefore
<1>11. ASSUME NEW t \in Thread, PromoteRecord(t)  PROVE AccessInv'
  BY <1>11, PromoteRecordEffect, Exclusion, Numbers, Entries DEF Others,
     AccessInv, AccessT, NotBefore, BoundInv, BoundH, BoundT
<1>12. ASSUME NEW t \in Thread, PromoteUnlock(t)  PROVE AccessInv'
  BY <1>12, PromoteUnlockEffect, Exclusion, Numbers, Entries DEF Others,
     AccessInv, AccessT, NotBefore
<1>13. ASSUME NEW h \in Hash, Expire(h)  PROVE AccessInv'
  BY <1>13, ExpireEffect, Exclusion, Numbers, Entries DEF Same, AccessInv,
     AccessT, NotBefore
<1>14. ASSUME NEW h \in Hash, Purge(h)  PROVE AccessInv'
  BY <1>14, Exclusion, Numbers, Entries DEF Purge, AccessInv, AccessT,
     NotBefore, locals, disk
<1>15. ASSUME Crash  PROVE AccessInv'
  BY <1>15, CrashEffect, Exclusion, Numbers, Entries DEF AccessInv, AccessT,
     NotBefore
<1>16. ASSUME LoadFromDisk  PROVE AccessInv'
  BY <1>16, LoadFromDiskEffect, Exclusion, Numbers, Entries DEF AccessInv,
     AccessT, NotBefore, BoundInv, BoundH, BoundT
<1>17. ASSUME FirstFlush  PROVE AccessInv'
  <2>1. /\ NotBefore(index, entries)
        /\ index' = entries \/ index' = index
        /\ entries' = entries /\ \A u \in Thread : pc'[u] = "idle"
    BY <1>17, FirstFlushEffect DEF AccessInv
  <2>2. NotBefore(entries, entries)
    BY Numbers DEF NotBefore
  <2>3. QED
    BY <2>1, <2>2 DEF AccessInv, AccessT, NotBefore
<1>18. ASSUME UNCHANGED vars  PROVE AccessInv'
  BY <1>18 DEF vars, disk, locals, AccessInv, AccessT, NotBefore
<1>19. QED
  BY <1>1, <1>2, <1>3, <1>4, <1>5, <1>6, <1>7, <1>8, <1>9, <1>10, <1>11,
     <1>12, <1>13, <1>14, <1>15, <1>16, <1>17, <1>18
  DEF Next

(* A step keeps the files known to the cache.                              *)
LEMMA FilesStep ==
  ASSUME ControlOK, ValuesOK, LocksOK, BoundInv, SeenInv, PromoteInv, FilesInv, [Next]_vars
  PROVE  FilesInv'
<1>1. ASSUME NEW t \in Thread, NEW h \in Hash, LoadLookup(t, h)  PROVE FilesInv'
  BY <1>1, LoadLookupEffect, Exclusion, Numbers, Entries DEF Others, FilesInv,
     FilesH, FilesT, Unrecorded, InPromote, Promoting, Touched
<1>2. ASSUME NEW t \in Thread, NEW h \in Hash, PromoteLock(t, h)  PROVE FilesInv'
  BY <1>2, PromoteLockEffect, Exclusion, Numbers, Entries DEF Others, FilesInv,
     FilesH, FilesT, Unrecorded, InPromote, Promoting
<1>3. ASSUME NEW t \in Thread, NEW h \in Hash, Refresh(t, h)  PROVE FilesInv'
  BY <1>3, RefreshEffect, Exclusion, Numbers, Entries DEF Others, FilesInv,
     FilesH, FilesT, Unrecorded, InPromote, Promoting, Touched
<1>4. ASSUME NEW t \in Thread, FlushSnapshot(t)  PROVE FilesInv'
  BY <1>4, FlushSnapshotEffect, Exclusion, Numbers, Entries DEF Others,
     FilesInv, FilesH, FilesT, Unrecorded, InPromote, Promoting
<1>5. ASSUME NEW t \in Thread, FlushRename(t)  PROVE FilesInv'
  <2>1. Others(t)
    BY <1>5, FlushRenameEffect
  <2>2. /\ pc[t] = "flush_rename" /\ pc'[t] = then[t] /\ then'[t] = "idle"
        /\ then[t] \in {"idle", "load_open", "promote_unlock"}
        /\ index' = snapshot[t] /\ flushErr' = FALSE
        /\ UNCHANGED <<proc, clock, content, entries, promoteMu, hash, seen>>
    BY <1>5, FlushRenameEffect
  <2>3. ASSUME NEW g \in Hash, Unrecorded(g)  PROVE Unrecorded(g)'
    BY <2>1, <2>2, <2>3 DEF Unrecorded, Others
  <2>4. ASSUME NEW g \in Hash  PROVE FilesH(g)'
    BY <2>2, <2>3 DEF FilesInv, FilesH
  <2>5. ASSUME NEW u \in Thread  PROVE FilesT(u)'
    <3>1. FilesT(u) /\ hash[u] \in Hash
      BY DEF FilesInv, ControlOK
    <3>2. CASE u = t
      BY <2>2, <3>2 DEF FilesT
    <3>3. CASE u # t
      BY <2>1, <2>2, <2>3, <3>1, <3>3 DEF FilesT, Others
    <3>4. QED
      BY <3>2, <3>3
  <2>6. QED
    BY <2>4, <2>5 DEF FilesInv
<1>6. ASSUME NEW t \in Thread, FlushFails(t)  PROVE FilesInv'
  <2>1. Others(t)
    BY <1>6, FlushFailsEffect
  <2>2. /\ pc[t] = "flush_rename" /\ pc'[t] = then[t] /\ then'[t] = "idle"
        /\ then[t] \in {"idle", "load_open", "promote_unlock"}
        /\ flushErr' = TRUE
        /\ UNCHANGED <<proc, clock, content, index, entries, promoteMu, hash, seen>>
    BY <1>6, FlushFailsEffect
  <2>3. ASSUME NEW g \in Hash, Unrecorded(g)  PROVE Unrecorded(g)'
    BY <2>1, <2>2, <2>3 DEF Unrecorded, Others
  <2>4. ASSUME NEW g \in Hash  PROVE FilesH(g)'
    BY <2>2, <2>3 DEF FilesInv, FilesH
  <2>5. ASSUME NEW u \in Thread  PROVE FilesT(u)'
    <3>1. FilesT(u) /\ hash[u] \in Hash
      BY DEF FilesInv, ControlOK
    <3>2. CASE u = t
      BY <2>2, <3>2 DEF FilesT
    <3>3. CASE u # t
      BY <2>1, <2>2, <2>3, <3>1, <3>3 DEF FilesT, Others
    <3>4. QED
      BY <3>2, <3>3
  <2>6. QED
    BY <2>4, <2>5 DEF FilesInv
<1>7. ASSUME NEW t \in Thread, LoadOpen(t)  PROVE FilesInv'
  BY <1>7, LoadOpenEffect, Exclusion, Numbers, Entries DEF Others, FilesInv,
     FilesH, FilesT, Unrecorded, InPromote, Promoting
<1>8. ASSUME NEW t \in Thread, LoadDrop(t)  PROVE FilesInv'
  BY <1>8, LoadDropEffect, Exclusion, Numbers, Entries DEF Others, FilesInv,
     FilesH, FilesT, Unrecorded, InPromote, Promoting
<1>9. ASSUME NEW t \in Thread, PromoteRename(t)  PROVE FilesInv'
  <2>1. Others(t) /\ InPromote(t)
    BY <1>9, PromoteRenameEffect DEF InPromote, Promoting
  <2>2. /\ pc[t] = "promote_rename" /\ pc'[t] = "promote_record" /\ clock' = clock + 1
        /\ \A g \in Hash : content'[g] = IF g = hash[t] THEN clock' ELSE content[g]
        /\ UNCHANGED <<proc, entries, hash>>
    BY <1>9, PromoteRenameEffect
  <2>3. Unrecorded(hash[t])'
    BY <2>2 DEF Unrecorded
  <2>4. \A g \in Hash : ~Unrecorded(g)
    BY <2>1, <2>2, Exclusion DEF Unrecorded, InPromote, Promoting
  <2>5. ASSUME NEW g \in Hash  PROVE FilesH(g)'
    BY <2>2, <2>3, <2>4 DEF FilesInv, FilesH
  <2>6. ASSUME NEW u \in Thread, pc[u] = "load_drop"  PROVE FilesT(u)'
    <3>1. FilesT(u) /\ hash[u] \in Hash /\ hash[t] \in Hash /\ u # t
      BY <2>2, <2>6 DEF FilesInv, ControlOK
    <3>2. seen[u] <= clock /\ seen[u] \in Nat /\ clock \in Nat /\ seen'[u] = seen[u]
      BY <2>1, <3>1, Numbers DEF BoundInv, BoundT, Others
    <3>3. CASE hash[u] = hash[t]
      BY <2>2, <2>3, <3>1, <3>2, <3>3 DEF FilesT
    <3>4. CASE hash[u] # hash[t]
      BY <2>2, <2>4, <2>6, <3>1, <3>2, <3>4 DEF FilesT
    <3>5. QED
      BY <3>3, <3>4
  <2>7. ASSUME NEW u \in Thread, pc[u] # "load_drop"  PROVE FilesT(u)'
    BY <2>1, <2>2, <2>7 DEF FilesT, Others
  <2>8. QED
    BY <2>5, <2>6, <2>7 DEF FilesInv
<1>10. ASSUME NEW t \in Thread, PromoteRenameFails(t)  PROVE FilesInv'
  BY <1>10, PromoteRenameFailsEffect, Exclusion, Numbers, Entries DEF Others,
     FilesInv, FilesH, FilesT, Unrecorded, InPromote, Promoting
<1>11. ASSUME NEW t \in Thread, PromoteRecord(t)  PROVE FilesInv'
  <2>1. Others(t) /\ InPromote(t)
    BY <1>11, PromoteRecordEffect DEF InPromote, Promoting
  <2>2. /\ pc[t] = "promote_record" /\ pc'[t] = "flush"
        /\ entries'[hash[t]] # NoEntry /\ entries'[hash[t]].meta = seen[t]
        /\ \A g \in Hash : g # hash[t] => entries'[g] = entries[g]
        /\ UNCHANGED <<proc, content, hash, seen>>
    BY <1>11, PromoteRecordEffect
  <2>3. \A g \in Hash : Unrecorded(g) => g = hash[t]
    BY <2>1, <2>2, Exclusion DEF Unrecorded, InPromote, Promoting
  <2>4. content[hash[t]] # 0 => entries'[hash[t]].meta = content[hash[t]]
    BY <2>2 DEF PromoteInv, PromoteT
  <2>5. ASSUME NEW g \in Hash  PROVE FilesH(g)'
    BY <2>2, <2>3 DEF FilesInv, FilesH
  <2>6. ASSUME NEW u \in Thread  PROVE FilesT(u)'
    <3>1. FilesT(u) /\ hash[u] \in Hash /\ (u = t \/ pc'[u] = pc[u])
      BY <2>1 DEF FilesInv, ControlOK, Others
    <3>2. CASE hash[u] = hash[t]
      BY <2>2, <2>4, <3>1, <3>2 DEF FilesT
    <3>3. CASE hash[u] # hash[t]
      BY <2>2, <2>3, <3>1, <3>3 DEF FilesT
    <3>4. QED
      BY <3>2, <3>3
  <2>7. QED
    BY <2>5, <2>6 DEF FilesInv
<1>12. ASSUME NEW t \in Thread, PromoteUnlock(t)  PROVE FilesInv'
  BY <1>12, PromoteUnlockEffect, Exclusion, Numbers, Entries DEF Others,
     FilesInv, FilesH, FilesT, Unrecorded, InPromote, Promoting
<1>13. ASSUME NEW h \in Hash, Expire(h)  PROVE FilesInv'
  BY <1>13, ExpireEffect, Exclusion, Numbers, Entries DEF Same, FilesInv,
     FilesH, FilesT, Unrecorded, InPromote, Promoting
<1>14. ASSUME NEW h \in Hash, Purge(h)  PROVE FilesInv'
  BY <1>14, Exclusion, Numbers, Entries DEF Purge, FilesInv, FilesH, FilesT,
     Unrecorded, InPromote, Promoting, locals, disk
<1>15. ASSUME Crash  PROVE FilesInv'
  BY <1>15, CrashEffect, Exclusion, Numbers, Entries DEF FilesInv, FilesH,
     FilesT, Unrecorded, InPromote, Promoting
<1>16. ASSUME LoadFromDisk  PROVE FilesInv'
  BY <1>16, LoadFromDiskEffect, Exclusion, Numbers, Entries DEF FilesInv,
     FilesH, FilesT, Unrecorded, InPromote, Promoting
<1>17. ASSUME FirstFlush  PROVE FilesInv'
  BY <1>17, FirstFlushEffect, Exclusion, Numbers, Entries DEF FilesInv, FilesH,
     FilesT, Unrecorded, InPromote, Promoting
<1>18. ASSUME UNCHANGED vars  PROVE FilesInv'
  BY <1>18 DEF vars, disk, locals, FilesInv, FilesH, FilesT, Unrecorded,
     InPromote, Promoting
<1>19. QED
  BY <1>1, <1>2, <1>3, <1>4, <1>5, <1>6, <1>7, <1>8, <1>9, <1>10, <1>11,
     <1>12, <1>13, <1>14, <1>15, <1>16, <1>17, <1>18
  DEF Next

(* A step keeps the index current, or to be flushed.                       *)
LEMMA IndexStep ==
  ASSUME ControlOK, ValuesOK, LocksOK, BoundInv, SeenInv, IndexInv, [Next]_vars
  PROVE  IndexInv'
<1>1. ASSUME NEW t \in Thread, NEW h \in Hash, LoadLookup(t, h)  PROVE IndexInv'
  BY <1>1, LoadLookupEffect, Exclusion DEF Others, IndexInv, IndexNow, IndexT,
     Describes, ToFlush, SeenInv, Touched
<1>2. ASSUME NEW t \in Thread, NEW h \in Hash, PromoteLock(t, h)  PROVE IndexInv'
  BY <1>2, PromoteLockEffect, Exclusion DEF Others, IndexInv, IndexNow, IndexT,
     Describes, ToFlush, SeenInv
<1>3. ASSUME NEW t \in Thread, NEW h \in Hash, Refresh(t, h)  PROVE IndexInv'
  BY <1>3, RefreshEffect, Exclusion DEF Others, IndexInv, IndexNow, IndexT,
     Describes, ToFlush, SeenInv, Touched
<1>4. ASSUME NEW t \in Thread, FlushSnapshot(t)  PROVE IndexInv'
  BY <1>4, FlushSnapshotEffect, Exclusion DEF Others, IndexInv, IndexNow,
     IndexT, Describes, ToFlush, SeenInv
<1>5. ASSUME NEW t \in Thread, FlushRename(t)  PROVE IndexInv'
  <2>1. Others(t)
    BY <1>5, FlushRenameEffect
  <2>2. /\ pc[t] = "flush_rename" /\ pc'[t] = then[t] /\ then'[t] = "idle"
        /\ then[t] \in {"idle", "load_open", "promote_unlock"}
        /\ index' = snapshot[t] /\ flushErr' = FALSE
        /\ UNCHANGED <<proc, clock, content, entries, promoteMu, hash, seen>>
    BY <1>5, FlushRenameEffect
  <2>3. ToFlush => ToFlush'
    BY <2>1, <2>2 DEF ToFlush, Others
  <2>4. IndexNow'
    <3>1. ToFlush \/ Describes(snapshot[t])
      BY <2>2 DEF IndexInv, IndexT
    <3>2. Describes(snapshot[t]) => Describes(index)'
      BY <2>2 DEF Describes
    <3>3. QED
      BY <2>3, <3>1, <3>2 DEF IndexNow
  <2>5. ASSUME NEW u \in Thread  PROVE IndexT(u)'
    BY <1>5, <2>1, <2>2, Exclusion DEF IndexT, Others
  <2>6. QED
    BY <2>4, <2>5 DEF IndexInv
<1>6. ASSUME NEW t \in Thread, FlushFails(t)  PROVE IndexInv'
  <2>1. Others(t)
    BY <1>6, FlushFailsEffect
  <2>2. /\ pc[t] = "flush_rename" /\ pc'[t] = then[t] /\ then'[t] = "idle"
        /\ then[t] \in {"idle", "load_open", "promote_unlock"}
        /\ flushErr' = TRUE
        /\ UNCHANGED <<proc, clock, content, index, entries, promoteMu, hash, seen>>
    BY <1>6, FlushFailsEffect
  <2>3. ToFlush => ToFlush'
    BY <2>1, <2>2 DEF ToFlush, Others
  <2>4. IndexNow'
    BY <2>2 DEF IndexNow
  <2>5. ASSUME NEW u \in Thread  PROVE IndexT(u)'
    BY <1>6, <2>1, <2>2, Exclusion DEF IndexT, Others
  <2>6. QED
    BY <2>4, <2>5 DEF IndexInv
<1>7. ASSUME NEW t \in Thread, LoadOpen(t)  PROVE IndexInv'
  BY <1>7, LoadOpenEffect, Exclusion DEF Others, IndexInv, IndexNow, IndexT,
     Describes, ToFlush, SeenInv
<1>8. ASSUME NEW t \in Thread, LoadDrop(t)  PROVE IndexInv'
  BY <1>8, LoadDropEffect, Exclusion DEF Others, IndexInv, IndexNow, IndexT,
     Describes, ToFlush, SeenInv
<1>9. ASSUME NEW t \in Thread, PromoteRename(t)  PROVE IndexInv'
  BY <1>9, PromoteRenameEffect, Exclusion DEF Others, IndexInv, IndexNow,
     IndexT, Describes, ToFlush, SeenInv
<1>10. ASSUME NEW t \in Thread, PromoteRenameFails(t)  PROVE IndexInv'
  BY <1>10, PromoteRenameFailsEffect, Exclusion DEF Others, IndexInv, IndexNow,
     IndexT, Describes, ToFlush, SeenInv
<1>11. ASSUME NEW t \in Thread, PromoteRecord(t)  PROVE IndexInv'
  BY <1>11, PromoteRecordEffect, Exclusion DEF Others, IndexInv, IndexNow,
     IndexT, Describes, ToFlush, SeenInv
<1>12. ASSUME NEW t \in Thread, PromoteUnlock(t)  PROVE IndexInv'
  BY <1>12, PromoteUnlockEffect, Exclusion DEF Others, IndexInv, IndexNow,
     IndexT, Describes, ToFlush, SeenInv
<1>13. ASSUME NEW h \in Hash, Expire(h)  PROVE IndexInv'
  BY <1>13, ExpireEffect, Exclusion DEF Same, IndexInv, IndexNow, IndexT,
     Describes, ToFlush, SeenInv
<1>14. ASSUME NEW h \in Hash, Purge(h)  PROVE IndexInv'
  BY <1>14, Exclusion DEF Purge, IndexInv, IndexNow, IndexT, Describes, ToFlush,
     SeenInv, locals, disk
<1>15. ASSUME Crash  PROVE IndexInv'
  BY <1>15, CrashEffect, Exclusion DEF IndexInv, IndexNow, IndexT, Describes,
     ToFlush, SeenInv
<1>16. ASSUME LoadFromDisk  PROVE IndexInv'
  BY <1>16, LoadFromDiskEffect, Exclusion DEF IndexInv, IndexNow, IndexT,
     Describes, ToFlush, SeenInv
<1>17. ASSUME FirstFlush  PROVE IndexInv'
  BY <1>17, FirstFlushEffect, Exclusion DEF IndexInv, IndexNow, IndexT,
     Describes, ToFlush, SeenInv
<1>18. ASSUME UNCHANGED vars  PROVE IndexInv'
  BY <1>18 DEF vars, disk, locals, IndexInv, IndexNow, IndexT, Describes,
     ToFlush, SeenInv
<1>19. QED
  BY <1>1, <1>2, <1>3, <1>4, <1>5, <1>6, <1>7, <1>8, <1>9, <1>10, <1>11,
     <1>12, <1>13, <1>14, <1>15, <1>16, <1>17, <1>18
  DEF Next

(* A step keeps what is saved.                                             *)
LEMMA SavedStep ==
  ASSUME ControlOK, ValuesOK, LocksOK, BoundInv, SeenInv, SavedInv, [Next]_vars
  PROVE  SavedInv'
<1> USE Entries, Exclusion, Numbers DEF SavedInv, NewestT, SavedT, Durable, Others
<1>1. ASSUME NEW t \in Thread, NEW h \in Hash, LoadLookup(t, h)  PROVE SavedInv'
  BY <1>1, LoadLookupEffect DEF Touched
<1>2. ASSUME NEW t \in Thread, NEW h \in Hash, PromoteLock(t, h)  PROVE SavedInv'
  BY <1>2, PromoteLockEffect
<1>3. ASSUME NEW t \in Thread, NEW h \in Hash, Refresh(t, h)  PROVE SavedInv'
  BY <1>3, RefreshEffect DEF Touched
<1>4. ASSUME NEW t \in Thread, FlushSnapshot(t)  PROVE SavedInv'
  BY <1>4, FlushSnapshotEffect
<1>5. ASSUME NEW t \in Thread, FlushRename(t)  PROVE SavedInv'
  <2>0. /\ \A v \in Thread : v # t => pc'[v] = pc[v] /\ snapshot'[v] = snapshot[v]
        /\ pc[t] = "flush_rename" /\ pc'[t] \in {"idle", "load_open", "promote_unlock"}
    BY <1>5, FlushRenameEffect
  <2>1. \A h \in Hash : snapshot'[t][h] = NoEntry
    BY <1>5, NoIndexOK DEF FlushRename, FlushReturns, ValuesOK
  <2>2. ASSUME NEW u \in Thread, pc'[u] = "promote_record"  PROVE NewestT(u)'
    <3>1. /\ u # t /\ pc[u] = "promote_record" /\ hash'[u] = hash[u] /\ seen'[u] = seen[u]
          /\ entries' = entries
      BY <1>5, <2>2, FlushRenameEffect
    <3>2. /\ index[hash[u]].meta < seen[u] /\ entries[hash[u]].meta < seen[u]
          /\ \A v \in Thread : snapshot[v][hash[u]].meta < seen[u]
      BY <3>1
    <3>3. 0 < seen[u] /\ hash[u] \in Hash
      BY <3>1 DEF SeenInv
    <3>4. ASSUME NEW v \in Thread  PROVE snapshot'[v][hash[u]].meta < seen[u]
      <4>1. CASE v = t
        BY <2>1, <3>3, <4>1
      <4>2. CASE v # t
        BY <2>0, <3>2, <4>2
      <4>3. QED
        BY <4>1, <4>2
    <3>5. index'[hash[u]].meta < seen[u]
      BY <1>5, <3>2, FlushRenameEffect
    <3>6. QED
      BY <3>1, <3>2, <3>4, <3>5
  <2>3. ASSUME NEW u \in Thread  PROVE SavedT(u)'
    <3>1. pc'[u] # "flush_rename"
      BY <2>0
    <3>2. QED
      BY <3>1
  <2>4. QED
    BY <2>2, <2>3
<1>6. ASSUME NEW t \in Thread, FlushFails(t)  PROVE SavedInv'
  <2>0. /\ \A v \in Thread : v # t => pc'[v] = pc[v] /\ snapshot'[v] = snapshot[v]
        /\ pc[t] = "flush_rename" /\ pc'[t] \in {"idle", "load_open", "promote_unlock"}
    BY <1>6, FlushFailsEffect
  <2>1. \A h \in Hash : snapshot'[t][h] = NoEntry
    BY <1>6, NoIndexOK DEF FlushFails, FlushReturns, ValuesOK
  <2>2. ASSUME NEW u \in Thread, pc'[u] = "promote_record"  PROVE NewestT(u)'
    <3>1. /\ u # t /\ pc[u] = "promote_record" /\ hash'[u] = hash[u] /\ seen'[u] = seen[u]
          /\ entries' = entries
      BY <1>6, <2>2, FlushFailsEffect
    <3>2. /\ index[hash[u]].meta < seen[u] /\ entries[hash[u]].meta < seen[u]
          /\ \A v \in Thread : snapshot[v][hash[u]].meta < seen[u]
      BY <3>1
    <3>3. 0 < seen[u] /\ hash[u] \in Hash
      BY <3>1 DEF SeenInv
    <3>4. ASSUME NEW v \in Thread  PROVE snapshot'[v][hash[u]].meta < seen[u]
      <4>1. CASE v = t
        BY <2>1, <3>3, <4>1
      <4>2. CASE v # t
        BY <2>0, <3>2, <4>2
      <4>3. QED
        BY <4>1, <4>2
    <3>5. index'[hash[u]].meta < seen[u]
      BY <1>6, <3>2, FlushFailsEffect
    <3>6. QED
      BY <3>1, <3>2, <3>4, <3>5
  <2>3. ASSUME NEW u \in Thread  PROVE SavedT(u)'
    <3>1. pc'[u] # "flush_rename"
      BY <2>0
    <3>2. QED
      BY <3>1
  <2>4. QED
    BY <2>2, <2>3
<1>7. ASSUME NEW t \in Thread, LoadOpen(t)  PROVE SavedInv'
  BY <1>7, LoadOpenEffect
<1>8. ASSUME NEW t \in Thread, LoadDrop(t)  PROVE SavedInv'
  BY <1>8, LoadDropEffect
<1>9. ASSUME NEW t \in Thread, PromoteRename(t)  PROVE SavedInv'
  BY <1>9, PromoteRenameEffect DEF BoundInv, BoundH, BoundT
<1>10. ASSUME NEW t \in Thread, PromoteRenameFails(t)  PROVE SavedInv'
  BY <1>10, PromoteRenameFailsEffect
<1>11. ASSUME NEW t \in Thread, PromoteRecord(t)  PROVE SavedInv'
  BY <1>11, PromoteRecordEffect DEF InPromote, Promoting
<1>12. ASSUME NEW t \in Thread, PromoteUnlock(t)  PROVE SavedInv'
  BY <1>12, PromoteUnlockEffect
<1>13. ASSUME NEW h \in Hash, Expire(h)  PROVE SavedInv'
  BY <1>13, ExpireEffect DEF Same
<1>14. ASSUME NEW h \in Hash, Purge(h)  PROVE SavedInv'
  BY <1>14 DEF Purge, locals
<1>15. ASSUME Crash  PROVE SavedInv'
  BY <1>15, CrashEffect
<1>16. ASSUME LoadFromDisk  PROVE SavedInv'
  BY <1>16, LoadFromDiskEffect
<1>17. ASSUME FirstFlush  PROVE SavedInv'
  BY <1>17, FirstFlushEffect
<1>18. CASE UNCHANGED vars
  BY <1>18 DEF vars, disk, locals
<1>19. QED
  BY <1>1, <1>2, <1>3, <1>4, <1>5, <1>6, <1>7, <1>8, <1>9, <1>10, <1>11,
     <1>12, <1>13, <1>14, <1>15, <1>16, <1>17, <1>18
  DEF Next

-----------------------------------------------------------------------------
(* The theorems                                                            *)

Inv ==
  /\ ValuesOK /\ ControlOK /\ LocksOK /\ BoundInv /\ SeenInv
  /\ MetaInv /\ PromoteInv /\ AccessInv /\ FilesInv /\ IndexInv /\ SavedInv

(* The cache starts empty, with every goroutine idle.                      *)
LEMMA InitInv == Init => Inv
<1> SUFFICES ASSUME Init  PROVE Inv
  OBVIOUS
<1>1. 0 \in Time /\ 0 \in 0..MaxCrashes
  BY MaxTimeAssumption DEF Time
<1>2. /\ \A h \in Hash : content[h] = 0 /\ index[h] = NoEntry /\ entries[h] = NoEntry
      /\ \A t \in Thread : /\ pc[t] = "idle" /\ seen[t] = 0 /\ then[t] = "idle"
                           /\ \A h \in Hash : snapshot[t][h] = NoEntry
      /\ clock = 0 /\ proc = "up"
  BY NoIndexOK DEF Init
<1>3. ValuesOK
  BY <1>1, NoIndexOK DEF Init, ValuesOK
<1>4. ControlOK
  BY <1>1 DEF Init, ControlOK, Step
<1>5. LocksOK
  BY <1>2, NoThreadAssumption DEF Init, LocksOK, InPromote, Promoting
<1>6. BoundInv
  BY <1>2, Entries DEF BoundInv, BoundH, BoundT
<1>7. SeenInv
  BY <1>2 DEF SeenInv
<1>8. MetaInv
  BY <1>2 DEF MetaInv, MetaH, MetaT
<1>9. PromoteInv
  BY <1>2 DEF PromoteInv, PromoteT, Recorded
<1>10. AccessInv
  BY <1>2 DEF AccessInv, AccessT, NotBefore
<1>11. FilesInv
  BY <1>2, <1>4 DEF FilesInv, FilesH, FilesT, ControlOK
<1>12. IndexInv
  BY <1>2 DEF IndexInv, IndexNow, IndexT, Describes
<1>13. SavedInv
  BY <1>2 DEF SavedInv, NewestT, SavedT
<1>14. QED
  BY <1>3, <1>4, <1>5, <1>6, <1>7, <1>8, <1>9, <1>10, <1>11, <1>12, <1>13 DEF Inv

(* The invariant is inductive.                                            *)
LEMMA Inductive == Inv /\ [Next]_vars => Inv'
BY ControlStep, LocksStep, SeenStep, ValuesStep, BoundStep, MetaStep,
   PromoteStep,
   AccessStep, FilesStep, IndexStep, SavedStep
DEF Inv

(* The invariant holds in every state.                                    *)
LEMMA Invariance == Spec => []Inv
BY InitInv, Inductive, PTL DEF Spec

-----------------------------------------------------------------------------
(* The refinement                                                          *)

(* What stands for the abstract variables.                                 *)
Running == proc # "down"
Known == Described(entries)
Saved == Described(index)
Landing == {<<hash[t], seen[t]>> : t \in {u \in Thread : pc[u] = "promote_record"}}

(* Entries that are the same but for access times and freshness describe   *)
(* the same responses.                                                     *)
LEMMA SameDescriptions ==
  ASSUME NEW i, NEW j,
         \A h \in Hash : (j[h] = NoEntry <=> i[h] = NoEntry) /\ j[h].meta = i[h].meta
  PROVE  Described(j) = Described(i)
BY DEF Described

(* Nothing lands, and what has stays, while the goroutines between rename  *)
(* and record are the same.                                                *)
LEMMA SameLanding ==
  ASSUME \A u \in Thread :
           /\ pc'[u] = "promote_record" <=> pc[u] = "promote_record"
           /\ pc[u] = "promote_record" => hash'[u] = hash[u] /\ seen'[u] = seen[u]
  PROVE  Landing' = Landing
BY DEF Landing

(* At most one promotion is between its rename and its record, and that is *)
(* the one that has landed.                                                *)
LEMMA LandingIsOne ==
  ASSUME LocksOK, NEW t \in Thread, InPromote(t)
  PROVE  Landing = IF pc[t] = "promote_record" THEN {<<hash[t], seen[t]>>} ELSE {}
<1>1. \A u \in Thread : pc[u] = "promote_record" => u = t
  BY Exclusion DEF InPromote, Promoting
<1>2. QED
  BY <1>1 DEF Landing

(* A step that changes neither descriptions nor files nor what has landed  *)
(* is none of the abstract cache.                                          *)
LEMMA Unobserved ==
  ASSUME Running' = Running, content' = content, Known' = Known, Saved' = Saved,
         Landing' = Landing
  PROVE  UNCHANGED Kept!vars
BY DEF Kept!vars, Running, Known, Saved, Landing

(* Initially the cache is empty.                                           *)
LEMMA InitRefines == Init => Kept!Init
BY NoIndexOK DEF Init, Kept!Init, Described

(* What a step makes of the abstract variables.                            *)
LEMMA Primed ==
  /\ Kept!Save <=> /\ Running
                   /\ Saved' \in [Hash -> Kept!Description]
                   /\ \A h \in Hash :
                        /\ Known[h] # {} /\ Saved[h] = Known[h] => Saved'[h] = Known[h]
                        /\ content[h] # 0 => \A r \in Saved'[h] : r <= content[h]
                   /\ Running' = Running /\ content' = content
                   /\ Known' = Known /\ Landing' = Landing
  /\ \A h : Kept!Drop(h) <=> /\ content[h] = 0 \/ \E r \in Time : <<h, r>> \in Landing
                             /\ Known' = [Known EXCEPT ![h] = {}]
                             /\ Running' = Running /\ content' = content
                             /\ Saved' = Saved /\ Landing' = Landing
  /\ \A h, r : Kept!Land(h, r) <=>
       /\ Running /\ Landing = {}
       /\ \A old \in {content[h]} \cup Known[h] \cup Saved[h] : old < r
       /\ content' = [content EXCEPT ![h] = r] /\ Landing' = {<<h, r>>}
       /\ Running' = Running /\ Known' = Known /\ Saved' = Saved
  /\ \A h, r : Kept!Describe(h, r) <=>
       /\ <<h, r>> \in Landing /\ Landing' = {} /\ Known' = [Known EXCEPT ![h] = {r}]
       /\ Running' = Running /\ content' = content /\ Saved' = Saved
BY DEF Kept!Save, Kept!Drop, Kept!Land, Kept!Describe, Running, Known, Saved, Landing

(* What is described of a list.                                            *)
LEMMA Descriptions ==
  /\ \A i \in [Hash -> Entry \cup {NoEntry}] : Described(i) \in [Hash -> Kept!Description]
  /\ \A i : \A h \in Hash :
       /\ Described(i)[h] = IF i[h] = NoEntry THEN {} ELSE {i[h].meta}
       /\ \A r : r \in Described(i)[h] <=> i[h] # NoEntry /\ r = i[h].meta
BY Entries DEF Described, Kept!Description

(* An index that is written describes no response that is not there, and   *)
(* takes back no description that is right.                                *)
LEMMA FlushSaves ==
  ASSUME Inv, NEW t \in Thread, FlushRename(t)
  PROVE  Kept!Save
<1> USE DEF Inv
<1>1. /\ proc = "up" /\ index' = snapshot[t]
      /\ UNCHANGED <<proc, content, entries>>
      /\ \A u \in Thread : u # t => pc'[u] = pc[u] /\ hash'[u] = hash[u] /\ seen'[u] = seen[u]
      /\ pc[t] = "flush_rename" /\ pc'[t] \in {"idle", "load_open", "promote_unlock"}
  BY FlushRenameEffect DEF Others, SeenInv
<1>2. Running' = Running /\ content' = content /\ Known' = Known /\ Landing' = Landing
  BY <1>1, SameLanding DEF Running, Known
<1>3. /\ snapshot[t] \in [Hash -> Entry \cup {NoEntry}]
      /\ index \in [Hash -> Entry \cup {NoEntry}] /\ entries \in [Hash -> Entry \cup {NoEntry}]
  BY DEF ValuesOK
<1>4. Saved' = Described(snapshot[t])
  BY <1>1 DEF Saved
<1>5. ASSUME NEW h \in Hash, Known[h] # {}, Saved[h] = Known[h]  PROVE Saved'[h] = Known[h]
  <2>1. entries[h] # NoEntry /\ index[h] # NoEntry /\ index[h].meta = entries[h].meta
    <3>1. /\ Known[h] = IF entries[h] = NoEntry THEN {} ELSE {entries[h].meta}
          /\ \A r : r \in Saved[h] <=> index[h] # NoEntry /\ r = index[h].meta
      BY Descriptions DEF Known, Saved
    <3>2. QED
      BY <1>5, <3>1
  <2>2. snapshot[t][h] # NoEntry /\ snapshot[t][h].meta = entries[h].meta
    BY <1>1, <2>1 DEF SavedInv, SavedT, Durable
  <2>3. Saved'[h] = {snapshot[t][h].meta} /\ Known[h] = {entries[h].meta}
    BY <1>4, <2>1, <2>2, Descriptions DEF Known
  <2>4. QED
    BY <2>2, <2>3
<1>6. ASSUME NEW h \in Hash, content[h] # 0, NEW r \in Saved'[h]  PROVE r <= content[h]
  <2>1. Saved'[h] = IF snapshot[t][h] = NoEntry THEN {} ELSE {snapshot[t][h].meta}
    BY <1>4, Descriptions
  <2>2. QED
    BY <1>6, <2>1 DEF MetaInv, MetaT
<1>7. QED
  BY <1>1, <1>2, <1>3, <1>4, <1>5, <1>6, Descriptions, Primed DEF Running

(* loadFromDisk's flush is a save as well.                                 *)
LEMMA FirstFlushSaves ==
  ASSUME Inv, FirstFlush
  PROVE  Kept!Save \/ UNCHANGED Kept!vars
<1> USE DEF Inv
<1>1. /\ Running /\ Running' /\ content' = content /\ Known' = Known /\ Landing' = Landing
      /\ index' = entries \/ index' = index
  BY FirstFlushEffect, SameLanding DEF Running, Known
<1>2. CASE index' = index
  BY <1>1, <1>2, Unobserved DEF Saved, Running
<1>3. CASE index' = entries
  <2>1. Saved' = Known /\ entries \in [Hash -> Entry \cup {NoEntry}]
    BY <1>3 DEF Saved, Known, ValuesOK
  <2>2. ASSUME NEW h \in Hash, content[h] # 0, NEW r \in Known[h]  PROVE r <= content[h]
    <3>1. Known[h] = IF entries[h] = NoEntry THEN {} ELSE {entries[h].meta}
      BY Descriptions DEF Known
    <3>2. QED
      BY <2>2, <3>1 DEF MetaInv, MetaH
  <2>3. Known \in [Hash -> Kept!Description]
    BY <2>1, Descriptions DEF Known
  <2>4. QED
    BY <1>1, <2>1, <2>2, <2>3, Primed
<1>4. QED
  BY <1>1, <1>2, <1>3

(* A Load that drops an entry drops one whose file is gone, or one whose   *)
(* successor is about to be recorded.                                      *)
LEMMA LoadDrops ==
  ASSUME Inv, NEW t \in Thread, LoadDrop(t)
  PROVE  (\E h \in Hash : Kept!Drop(h)) \/ UNCHANGED Kept!vars
<1> USE DEF Inv
<1> DEFINE h == hash[t]
<1>1. /\ pc[t] = "load_drop" /\ h \in Hash
      /\ UNCHANGED <<proc, content, index>>
      /\ \A g \in Hash : \/ entries'[g] = entries[g]
                         \/ g = h /\ entries'[g] = NoEntry /\ entries[g].meta = seen[t]
      /\ \A u \in Thread : /\ pc'[u] = "promote_record" <=> pc[u] = "promote_record"
                           /\ pc[u] = "promote_record" => hash'[u] = hash[u] /\ seen'[u] = seen[u]
  BY LoadDropEffect DEF Others, ControlOK
<1> HIDE DEF h
<1>2. Running' = Running /\ content' = content /\ Saved' = Saved /\ Landing' = Landing
  <2>1. Running' = Running /\ content' = content /\ Saved' = Saved
    BY <1>1 DEF Running, Saved
  <2>2. QED
    BY <1>1, <2>1, SameLanding
<1>3. entries \in [Hash -> Entry \cup {NoEntry}] /\ entries' \in [Hash -> Entry \cup {NoEntry}]
  BY ValuesStep DEF ValuesOK, Next
<1>4. CASE entries'[h] = entries[h]
  BY <1>1, <1>2, <1>4, SameDescriptions, Unobserved DEF Known
<1>5. CASE entries'[h] # entries[h]
  <2>1. entries'[h] = NoEntry /\ entries[h].meta = seen[t]
        /\ \A g \in Hash : g # h => entries'[g] = entries[g]
    BY <1>1, <1>5
  <2>2. Known' = [Known EXCEPT ![h] = {}]
    BY <2>1, <1>1 DEF Known, Described
  <2>3. ASSUME content[h] # 0  PROVE \E r \in Time : <<h, r>> \in Landing
    <3>1. Unrecorded(h)
      BY <1>1, <2>1, <2>3, Numbers DEF FilesInv, FilesT, h
    <3>2. PICK u \in Thread : pc[u] = "promote_record" /\ hash[u] = h
      BY <3>1 DEF Unrecorded
    <3>3. <<h, seen[u]>> \in Landing /\ seen[u] \in Time
      BY <3>2 DEF Landing, ValuesOK
    <3>4. QED
      BY <3>3
  <2>4. QED
    BY <1>1, <1>2, <2>2, <2>3, Primed
<1>6. QED
  BY <1>4, <1>5

(* A Promote's rename lands a response that is newer than all of its list. *)
LEMMA RenameLands ==
  ASSUME Inv, NEW t \in Thread, PromoteRename(t)
  PROVE  \E h \in Hash, r \in Time : Kept!Land(h, r)
<1> USE DEF Inv
<1> DEFINE h == hash[t]
<1>1. /\ pc[t] = "promote_rename" /\ pc'[t] = "promote_record" /\ clock' = clock + 1
      /\ h \in Hash /\ clock' \in Time /\ hash'[t] = h /\ seen'[t] = clock'
      /\ content' = [content EXCEPT ![h] = clock']
      /\ UNCHANGED <<proc, index, entries>> /\ proc = "up"
      /\ \A u \in Thread : u # t => pc'[u] = pc[u]
  <2>1. clock' \in Time
    BY ControlStep DEF Next, ControlOK
  <2>2. content' = [content EXCEPT ![h] = clock']
    BY DEF PromoteRename
  <2>3. QED
    BY <2>1, <2>2, PromoteRenameEffect DEF Others, ControlOK, SeenInv
<1> HIDE DEF h
<1>2. Landing = {} /\ \A u \in Thread : u # t => pc[u] # "promote_record"
  BY <1>1, LandingIsOne, Exclusion DEF InPromote, Promoting
<1>3. Landing' = {<<h, clock'>>}
  BY <1>1, <1>2 DEF Landing
<1>4. Running /\ Running' = Running /\ Known' = Known /\ Saved' = Saved
  BY <1>1 DEF Running, Known, Saved
<1>5. ASSUME NEW old \in {content[h]} \cup Known[h] \cup Saved[h]  PROVE old < clock'
  <2>0. /\ Known[h] = IF entries[h] = NoEntry THEN {} ELSE {entries[h].meta}
        /\ Saved[h] = IF index[h] = NoEntry THEN {} ELSE {index[h].meta}
    BY <1>1, Descriptions DEF Known, Saved
  <2>1. old \in {content[h], entries[h].meta, index[h].meta}
    BY <1>5, <2>0
  <2>2. old \in Nat /\ old <= clock
    BY <1>1, <2>1, Numbers DEF BoundInv, BoundH
  <2>3. QED
    BY <1>1, <2>2, Numbers
<1>6. QED
  BY <1>1, <1>2, <1>3, <1>4, <1>5, Primed

(* A Promote's record describes what it landed.                            *)
LEMMA RecordDescribes ==
  ASSUME Inv, NEW t \in Thread, PromoteRecord(t)
  PROVE  \E h \in Hash, r \in Time : Kept!Describe(h, r)
<1> USE DEF Inv
<1> DEFINE h == hash[t]
<1>1. /\ pc[t] = "promote_record" /\ pc'[t] = "flush"
      /\ h \in Hash /\ seen[t] \in Time
      /\ entries'[h] # NoEntry /\ entries'[h].meta = seen[t]
      /\ \A g \in Hash : g # h => entries'[g] = entries[g]
      /\ UNCHANGED <<proc, content, index>>
      /\ \A u \in Thread : u # t => pc'[u] = pc[u]
  BY PromoteRecordEffect DEF Others, ControlOK, ValuesOK
<1>1a. InPromote(t)
  BY <1>1 DEF InPromote, Promoting
<1>2. Landing = {<<h, seen[t]>>} /\ \A u \in Thread : u # t => pc[u] # "promote_record"
  BY <1>1, LandingIsOne, Exclusion DEF InPromote, Promoting
<1>3. Landing' = {}
  BY <1>1, <1>2 DEF Landing
<1>4. Known' = [Known EXCEPT ![h] = {seen[t]}]
  BY <1>1 DEF Known, Described
<1>5. Running' = Running /\ content' = content /\ Saved' = Saved
  BY <1>1 DEF Running, Saved
<1>6. QED
  BY <1>1, <1>2, <1>3, <1>4, <1>5, Primed

(* A crash leaves the files and the index.                                 *)
LEMMA CrashRefines ==
  ASSUME Crash
  PROVE  Kept!Crash
<1>1. /\ proc # "down" /\ proc' = "down" /\ UNCHANGED <<content, index>>
      /\ \A g \in Hash : entries'[g] = NoEntry
      /\ \A u \in Thread : pc'[u] = "idle"
  BY CrashEffect DEF Crash
<1>2. {<<hash[t], seen[t]>> : t \in {u \in Thread : pc[u] = "promote_record"}}' = {}
  BY <1>1
<1>3. Described(entries)' = [h \in Hash |-> {}]
  BY <1>1 DEF Described
<1>4. QED
  BY <1>1, <1>2, <1>3 DEF Kept!Crash

(* loadFromDisk finds every file, as the index describes it or as one of   *)
(* which nothing is known.                                                 *)
LEMMA LoadRestarts ==
  ASSUME Inv, LoadFromDisk
  PROVE  Kept!Restart
<1> USE DEF Inv
<1>1. PICK base \in {index, NoIndex}, old \in SUBSET Hash :
        LET kpt == Reconciled(base)
            collected == {h \in old : kpt[h] # NoEntry /\ ~kpt[h].fresh}
        IN  /\ entries' = [h \in Hash |-> IF h \in collected THEN NoEntry ELSE kpt[h]]
            /\ content' = [h \in Hash |-> IF h \in collected THEN 0 ELSE content[h]]
  BY DEF LoadFromDisk
<1> DEFINE collected == {h \in old : Reconciled(base)[h] # NoEntry /\ ~Reconciled(base)[h].fresh}
           readable == base = index
<1>2. collected \in SUBSET Hash /\ readable \in BOOLEAN
  OBVIOUS
<1>3. /\ entries' = [h \in Hash |-> IF h \in collected THEN NoEntry ELSE Reconciled(base)[h]]
      /\ content' = [h \in Hash |-> IF h \in collected THEN 0 ELSE content[h]]
  BY <1>1
<1>4. /\ proc = "down" /\ proc' = "starting" /\ UNCHANGED <<index, pc, hash, seen>>
  BY LoadFromDiskEffect
<1>5. \A h \in Hash : base[h] # NoEntry => readable
  BY NoIndexOK
<1>6. ASSUME NEW h \in Hash
      PROVE  Described(entries)'[h] =
               CASE content'[h] = 0 -> {}
                 [] content'[h] # 0 /\ readable /\ Described(index)[h] # {} -> Described(index)[h]
                 [] OTHER -> {0}
  <2>1. Described(entries)'[h] = IF entries'[h] = NoEntry THEN {} ELSE {entries'[h].meta}
    BY DEF Described
  <2>2. Described(index)[h] = IF index[h] = NoEntry THEN {} ELSE {index[h].meta}
    BY DEF Described
  <2>3. /\ h \in collected => entries'[h] = NoEntry /\ content'[h] = 0
        /\ h \notin collected => /\ entries'[h] = Reconciled(base)[h]
                                 /\ content'[h] = content[h]
    BY <1>3
  <2>4. Reconciled(base)[h] = IF content[h] = 0 THEN NoEntry
                              ELSE IF base[h] # NoEntry THEN base[h]
                              ELSE [meta |-> 0, fresh |-> FALSE, lastAccess |-> clock]
    BY DEF Reconciled
  <2>5. \/ entries'[h] = NoEntry /\ content'[h] = 0
        \/ entries'[h] # NoEntry /\ content'[h] = content[h]
    BY LoadFromDiskEffect
  <2>6. CASE entries'[h] = NoEntry
    BY <2>1, <2>5, <2>6
  <2>7. CASE entries'[h] # NoEntry
    <3>1. h \notin collected /\ content[h] # 0 /\ content'[h] = content[h]
      BY <2>3, <2>4, <2>5, <2>7
    <3>2. CASE base[h] # NoEntry
      BY <1>5, <2>1, <2>2, <2>3, <2>4, <2>7, <3>1, <3>2
    <3>3. CASE base[h] = NoEntry
      <4>1. entries'[h].meta = 0
        BY <2>3, <2>4, <3>1, <3>3
      <4>2. ~(readable /\ Described(index)[h] # {})
        BY <2>2, <3>3
      <4>3. QED
        BY <2>1, <2>7, <3>1, <4>1, <4>2
    <3>4. QED
      BY <3>2, <3>3
  <2>8. QED
    BY <2>6, <2>7
<1> HIDE DEF collected, readable
<1>7. Described(entries)' =
        [h \in Hash |-> CASE content'[h] = 0 -> {}
           [] content'[h] # 0 /\ readable /\ Described(index)[h] # {} -> Described(index)[h]
           [] OTHER -> {0}]
  BY <1>6 DEF Described
<1>8. Described(index)' = Described(index) /\ Landing' = Landing
  BY <1>4, SameLanding
<1>9. QED
  BY <1>2, <1>3, <1>4, <1>7, <1>8 DEF Kept!Restart, Landing

(* A step of the cache is one of the abstract cache, or none.              *)
LEMMA StepRefines ==
  ASSUME Inv, [Next]_vars
  PROVE  [Kept!Next]_(Kept!vars)
<1> USE DEF Inv
<1>1. ASSUME NEW t \in Thread, NEW h \in Hash, LoadLookup(t, h)  PROVE UNCHANGED Kept!vars
  BY <1>1, LoadLookupEffect, SameDescriptions, SameLanding, Unobserved
  DEF Touched, Others, Running, Known, Saved
<1>2. ASSUME NEW t \in Thread, NEW h \in Hash, PromoteLock(t, h)  PROVE UNCHANGED Kept!vars
  BY <1>2, PromoteLockEffect, SameLanding, Unobserved DEF Others, Running, Known, Saved
<1>3. ASSUME NEW t \in Thread, NEW h \in Hash, Refresh(t, h)  PROVE UNCHANGED Kept!vars
  BY <1>3, RefreshEffect, SameDescriptions, SameLanding, Unobserved
  DEF Touched, Others, Running, Known, Saved
<1>4. ASSUME NEW t \in Thread, FlushSnapshot(t)  PROVE UNCHANGED Kept!vars
  BY <1>4, FlushSnapshotEffect, SameLanding, Unobserved DEF Others, Running, Known, Saved
<1>6. ASSUME NEW t \in Thread, FlushFails(t)  PROVE UNCHANGED Kept!vars
  BY <1>6, FlushFailsEffect, SameLanding, Unobserved DEF Others, Running, Known, Saved
<1>7. ASSUME NEW t \in Thread, LoadOpen(t)  PROVE UNCHANGED Kept!vars
  BY <1>7, LoadOpenEffect, SameLanding, Unobserved DEF Others, Running, Known, Saved
<1>10. ASSUME NEW t \in Thread, PromoteRenameFails(t)  PROVE UNCHANGED Kept!vars
  BY <1>10, PromoteRenameFailsEffect, SameLanding, Unobserved DEF Others, Running, Known, Saved
<1>12. ASSUME NEW t \in Thread, PromoteUnlock(t)  PROVE UNCHANGED Kept!vars
  BY <1>12, PromoteUnlockEffect, SameLanding, Unobserved DEF Others, Running, Known, Saved
<1>13. ASSUME NEW h \in Hash, Expire(h)  PROVE UNCHANGED Kept!vars
  BY <1>13, ExpireEffect, SameDescriptions, SameLanding, Unobserved
  DEF Same, Running, Known, Saved
<1>18. CASE UNCHANGED vars
  BY <1>18, SameLanding, Unobserved DEF vars, disk, locals, Running, Known, Saved
<1>14. ASSUME NEW h \in Hash, Purge(h)  PROVE Kept!Purge(h)
  BY <1>14, SameLanding DEF Purge, locals, Kept!Purge, Landing
<1>19. CASE Next
  <2>1. ASSUME NEW t \in Thread, FlushRename(t)  PROVE Kept!Next
    BY <2>1, FlushSaves DEF Kept!Next
  <2>2. ASSUME NEW t \in Thread, LoadDrop(t)  PROVE [Kept!Next]_(Kept!vars)
    BY <2>2, LoadDrops DEF Kept!Next, ControlOK
  <2>3. ASSUME NEW t \in Thread, PromoteRename(t)  PROVE Kept!Next
    BY <2>3, RenameLands DEF Kept!Next
  <2>4. ASSUME NEW t \in Thread, PromoteRecord(t)  PROVE Kept!Next
    BY <2>4, RecordDescribes DEF Kept!Next
  <2>5. ASSUME NEW h \in Hash, Purge(h)  PROVE Kept!Next
    BY <1>14, <2>5 DEF Kept!Next
  <2>6. Crash \/ LoadFromDisk => Kept!Next
    BY CrashRefines, LoadRestarts DEF Kept!Next
  <2>7. FirstFlush => [Kept!Next]_(Kept!vars)
    BY FirstFlushSaves DEF Kept!Next
  <2>8. QED
    BY <1>1, <1>2, <1>3, <1>4, <1>6, <1>7, <1>10, <1>12, <1>13, <1>19,
       <2>1, <2>2, <2>3, <2>4, <2>5, <2>6, <2>7
    DEF Next
<1>20. QED
  BY <1>18, <1>19

(* Every variable has its type, and each of promoteMu and flushMu is held  *)
(* exactly by the goroutine inside what it guards.                         *)
THEOREM TypeCorrect == Spec => []TypeOK
<1>1. Inv => TypeOK
  BY DEF Inv, ValuesOK, ControlOK, LocksOK, TypeOK
<1>2. QED
  BY <1>1, Invariance, PTL

(* Neither the index on disk nor memory nor a Load describes a response    *)
(* newer than the bytes in the file.                                       *)
THEOREM ValidatorsAreNotNewer == Spec => []MetaNotNewerThanContent
<1>1. ASSUME Inv  PROVE MetaNotNewerThanContent
  <2>1. EntriesNotNewer
    BY <1>1 DEF Inv, MetaInv, MetaH, EntriesNotNewer
  <2>2. ASSUME NEW t \in Thread, content[hash[t]] # 0  PROVE seen[t] <= content[hash[t]]
    <3>1. hash[t] \in Hash
      BY <1>1 DEF Inv, ControlOK
    <3>2. MetaT(t, hash[t])
      BY <1>1, <3>1 DEF Inv, MetaInv
    <3>3. QED
      BY <2>2, <3>2 DEF MetaT
  <2>3. QED
    BY <2>1, <2>2 DEF MetaNotNewerThanContent, LoadNotNewer
<1>2. QED
  BY <1>1, Invariance, PTL

(* A flush replaces the index by one that is not older.                    *)
LEMMA IndexStepsForward ==
  ASSUME Inv, [Next]_vars
  PROVE  \A h \in Hash : index'[h] # NoEntry => index'[h].lastAccess >= index[h].lastAccess
<1> DEFINE P == \A h \in Hash : index'[h] # NoEntry => index'[h].lastAccess >= index[h].lastAccess
<1>1. index' = index => P
  BY Numbers DEF Inv
<1>2. ASSUME NEW t \in Thread, FlushRename(t)  PROVE P
  <2>1. index' = snapshot[t] /\ NotBefore(index, snapshot[t])
    BY <1>2, FlushRenameEffect DEF Inv, AccessInv, AccessT
  <2>2. QED
    BY <2>1, Numbers DEF Inv, NotBefore
<1>3. ASSUME NEW h \in Hash, Expire(h)  PROVE P
  BY <1>3, ExpireEffect, Numbers DEF Inv, Same
<1>4. ASSUME FirstFlush  PROVE P
  <2>1. CASE index' = entries
    BY <2>1, Numbers DEF Inv, AccessInv, NotBefore
  <2>2. QED
    BY <1>1, <1>4, <2>1, FirstFlushEffect DEF Inv
<1>5. CASE Next /\ (\A t \in Thread : ~FlushRename(t)) /\ (\A h \in Hash : ~Expire(h)) /\ ~FirstFlush
  <2>1. index' = index
    BY <1>5 DEF Next, LoadLookup, PromoteLock, Refresh, FlushSnapshot,
       FlushFails, FlushReturns,
                LoadOpen, LoadDrop, PromoteRename, PromoteRenameFails, PromoteRecord,
                PromoteUnlock, Purge, Crash, LoadFromDisk, disk
  <2>2. QED
    BY <1>1, <2>1
<1>6. CASE UNCHANGED vars
  BY <1>1, <1>6 DEF vars, disk
<1>7. QED
  BY <1>2, <1>3, <1>4, <1>5, <1>6

(* When a successful Promote returns, bytes and entry are its own, and no  *)
(* flush takes an access time on disk back.                                *)
THEOREM WritersKeepOrder == Spec => WritersAreOrdered
<1>1. Inv /\ [Next]_vars =>
        \A t \in Thread : pc[t] = "promote_unlock" /\ pc'[t] = "idle" /\ proc' = "up" =>
          LET h == hash[t] IN
          /\ content[h] \in {0, seen[t]}
          /\ entries[h] = NoEntry \/ entries[h].meta = seen[t]
  BY DEF Inv, PromoteInv, PromoteT, Recorded
<1>2. Inv /\ [Next]_vars =>
        \A h \in Hash : index'[h] # NoEntry => index'[h].lastAccess >= index[h].lastAccess
  BY IndexStepsForward
<1>3. Spec => PromoteIsAtomic
  BY <1>1, Invariance, PTL DEF Spec, PromoteIsAtomic
<1>4. Spec => IndexNeverRegresses
  BY <1>2, Invariance, PTL DEF Spec, IndexNeverRegresses
<1>5. QED
  BY <1>3, <1>4, PTL DEF WritersAreOrdered

(* Between promotions every file is known to the cache, and at rest, after *)
(* a flush that succeeded, the index on disk describes what memory does.   *)
THEOREM NothingIsLost == Spec => []RestartLosesNothing
<1>1. ASSUME Inv  PROVE RestartLosesNothing
  <2>1. FilesAreIndexed
    BY <1>1, Exclusion DEF Inv, FilesInv, FilesH, Unrecorded, InPromote,
       Promoting, FilesAreIndexed
  <2>2. IndexIsCurrent
    <3>1. IndexNow
      BY <1>1 DEF Inv, IndexInv
    <3>2. QED
      BY <3>1 DEF IndexNow, ToFlush, Describes, IndexIsCurrent
  <2>3. QED
    BY <2>1, <2>2 DEF RestartLosesNothing
<1>2. QED
  BY <1>1, Invariance, PTL

(* The cache implements what the filter list store takes for granted of    *)
(* it: bytes replaced in order and at once, described by a response that   *)
(* is not newer; descriptions that are saved and right are not taken back; *)
(* and a restart that finds every file (Promote, Flush, Load,              *)
(* loadFromDisk).                                                          *)
THEOREM Refinement == Spec => ImplementsListCache
BY InitRefines, StepRefines, Invariance, PTL DEF Spec, ImplementsListCache, Kept!Spec

(* The numbers of the abstract cache, what it promises, and that one landing *)
(* is about bytes in place or purged since, while it runs.                  *)
KeptOK ==
  /\ content \in [Hash -> Nat]
  /\ Known \in [Hash -> SUBSET Nat] /\ Saved \in [Hash -> SUBSET Nat]
  /\ Landing # {} => Running /\ \E h \in Hash, r \in Time :
                                  Landing = {<<h, r>>} /\ content[h] \in {0, r}
  /\ \A h \in Hash : content[h] # 0 => \A r \in Known[h] \cup Saved[h] : r <= content[h]
  /\ Running => \A h \in Hash :
       content[h] # 0 => Known[h] # {} \/ \E r \in Time : <<h, r>> \in Landing

(* The steps of the abstract cache keep it reliable.                       *)
LEMMA KeptStep == KeptOK /\ [Kept!Next]_(Kept!vars) => KeptOK'
<1> SUFFICES ASSUME KeptOK, [Kept!Next]_(Kept!vars)  PROVE KeptOK'
  OBVIOUS
<1> USE DEF KeptOK
<1>t. Time \subseteq Nat
  BY MaxTimeAssumption DEF Time
<1>1. ASSUME NEW h \in Hash, NEW r \in Time, Kept!Land(h, r)  PROVE KeptOK'
  <2>1. /\ Running /\ Landing = {}
        /\ \A old \in {content[h]} \cup Known[h] \cup Saved[h] : old < r
        /\ content' = [content EXCEPT ![h] = r] /\ Landing' = {<<h, r>>}
        /\ Running' = Running /\ Known' = Known /\ Saved' = Saved
    BY <1>1, Primed
  <2>2. QED
    BY <1>t, <2>1
<1>2. ASSUME NEW h \in Hash, NEW r \in Time, Kept!Describe(h, r)  PROVE KeptOK'
  <2>1. /\ <<h, r>> \in Landing /\ Landing' = {}
        /\ Known' = [Known EXCEPT ![h] = {r}]
        /\ Running' = Running /\ content' = content /\ Saved' = Saved
    BY <1>2, Primed
  <2>2. content[h] \in {0, r} /\ \A g \in Hash, q \in Time : <<g, q>> \in Landing => g = h
    BY <2>1
  <2>3. /\ content' \in [Hash -> Nat]
        /\ Known' \in [Hash -> SUBSET Nat] /\ Saved' \in [Hash -> SUBSET Nat]
    BY <1>t, <2>1
  <2>4. ASSUME NEW g \in Hash, content'[g] # 0
        PROVE  Known'[g] # {} /\ \A q \in Known'[g] \cup Saved'[g] : q <= content'[g]
    <3>1. CASE g = h
      BY <1>t, <2>1, <2>2, <2>4, <3>1
    <3>2. CASE g # h
      BY <2>1, <2>2, <2>4, <3>2
    <3>3. QED
      BY <3>1, <3>2
  <2>5. QED
    BY <2>1, <2>3, <2>4
<1>3. ASSUME NEW h \in Hash, Kept!Purge(h)  PROVE KeptOK'
  BY <1>3 DEF Kept!Purge, Known, Saved, Landing, Running
<1>4. ASSUME NEW h \in Hash, Kept!Drop(h)  PROVE KeptOK'
  <2>1. /\ content[h] = 0 \/ \E r \in Time : <<h, r>> \in Landing
        /\ Known' = [Known EXCEPT ![h] = {}]
        /\ Running' = Running /\ content' = content
        /\ Saved' = Saved /\ Landing' = Landing
    BY <1>4, Primed
  <2>2. QED
    BY <2>1
<1>5. CASE Kept!Save
  <2>1. Kept!Description \subseteq SUBSET Nat
    BY <1>t DEF Kept!Description
  <2>2. /\ Saved' \in [Hash -> Kept!Description]
        /\ \A h \in Hash : content[h] # 0 => \A r \in Saved'[h] : r <= content[h]
        /\ Running' = Running /\ content' = content
        /\ Known' = Known /\ Landing' = Landing
    BY <1>5, Primed
  <2>3. Saved' \in [Hash -> SUBSET Nat]
    BY <2>1, <2>2
  <2>4. \A h \in Hash : content'[h] # 0 =>
          \A r \in Known'[h] \cup Saved'[h] : r <= content'[h]
    BY <2>2
  <2>5. QED
    BY <2>2, <2>3, <2>4
<1>6. CASE Kept!Crash
  BY <1>6 DEF Kept!Crash, Known, Saved, Landing, Running
<1>7. CASE Kept!Restart
  BY <1>7 DEF Kept!Restart, Known, Saved, Landing, Running
<1>8. CASE UNCHANGED Kept!vars
  BY <1>8 DEF Kept!vars, Known, Saved, Landing, Running
<1>9. QED
  BY <1>1, <1>2, <1>3, <1>4, <1>5, <1>6, <1>7, <1>8 DEF Kept!Next

(* What the store needs of its cache follows from the abstract cache alone: *)
(* the validators it sends are not newer than the bytes it has, and no list *)
(* is on disk and forgotten (Load, getByURL).                              *)
THEOREM AbstractCacheIsReliable == Kept!Spec => []Kept!Reliable
<1>1. Kept!Init => KeptOK
  BY DEF Kept!Init, KeptOK, Known, Saved, Landing, Running
<1>2. KeptOK => Kept!Reliable
  BY DEF KeptOK, Kept!Reliable, Kept!NotNewer, Kept!NoneForgotten, Known, Saved,
     Landing, Running
<1>3. QED
  BY <1>1, <1>2, KeptStep, PTL DEF Kept!Spec

=============================================================================
