------------------------------- MODULE DiskCache -------------------------------
(***************************************************************************)
(* diskcache.Cache: the filter lists kept on disk, and their index.        *)
(*                                                                         *)
(* Load, Promote and Refresh run on many goroutines.  Every section under  *)
(* entriesMu is one step; promoteMu and flushMu are variables because they *)
(* are held across file operations.  Time is a clock that moves on when    *)
(* the cache reads it; a promotion is named by the time its bytes landed,  *)
(* so meta and content are equal exactly when they come from one response. *)
(* A rename is atomic, and renames reach the disk in the order they were   *)
(* made: the code syncs each file before renaming it.                      *)
(***************************************************************************)
EXTENDS Naturals

CONSTANTS
  Thread,      \* goroutines calling into the cache
  NoThread,
  Hash,        \* hashed URLs
  MaxTime,     \* bounds the clock, and with it the number of calls
  MaxCrashes   \* bounds the crashes

ASSUME NoThreadAssumption == NoThread \notin Thread
ASSUME MaxTimeAssumption == MaxTime \in Nat /\ MaxCrashes \in Nat

VARIABLES
  proc,      \* "up"; "down"; "starting": loadFromDisk has yet to flush
  crashes,
  clock,
  content,   \* per hash: the promotion whose bytes are on disk, 0 for no file
  index,     \* the entries in index.json
  entries,   \* the entries in memory
  promoteMu, flushMu,
  flushErr,  \* the last Flush to end returned an error
  pc, hash,  \* per thread: its next step and the entry it is about
  seen,      \* per thread: the meta it looked up, or the promotion it makes
  snapshot,  \* per thread: the index Flush marshalled
  then       \* per thread: the step after Flush

disk == <<content, index>>
locals == <<hash, seen, snapshot, then>>
vars == <<proc, crashes, clock, disk, entries, promoteMu, flushMu, flushErr, pc, locals>>

Time == 0..MaxTime
NoEntry == [meta |-> 0, fresh |-> FALSE, lastAccess |-> 0]
Entry == [meta : Time, fresh : BOOLEAN, lastAccess : Time \ {0}]
\* Every entry was given an access time, so NoEntry is not an entry.
NoIndex == [h \in Hash |-> NoEntry]

Accessed(e) == [e EXCEPT !.lastAccess = clock']
Goto(t, s) == pc' = [pc EXCEPT ![t] = s]
Return(t) == Goto(t, "idle") /\ seen' = [seen EXCEPT ![t] = 0]
Calls(t, h) == proc = "up" /\ pc[t] = "idle" /\ hash' = [hash EXCEPT ![t] = h]

\* time.Now()
Tick == clock < MaxTime /\ clock' = clock + 1

Init ==
  /\ proc = "up"
  /\ crashes = 0
  /\ clock = 0
  /\ content = [h \in Hash |-> 0]
  /\ index = NoIndex
  /\ entries = NoIndex
  /\ promoteMu = NoThread
  /\ flushMu = NoThread
  /\ flushErr = FALSE
  /\ pc = [t \in Thread |-> "idle"]
  /\ hash \in [Thread -> Hash]
  /\ seen = [t \in Thread |-> 0]
  /\ snapshot = [t \in Thread |-> NoIndex]
  /\ then = [t \in Thread |-> "idle"]

-----------------------------------------------------------------------------
(* Flush: a call of it is the step "flush", with the caller's next step in *)
(* then.                                                                   *)

CallFlush(t, next) == Goto(t, "flush") /\ then' = [then EXCEPT ![t] = next]

FlushSnapshot_Unserialised(t) ==
  /\ pc[t] = "flush"
  /\ snapshot' = [snapshot EXCEPT ![t] = entries]
  /\ Goto(t, "flush_rename")
  /\ UNCHANGED <<proc, crashes, clock, disk, entries, promoteMu, flushMu, flushErr,
                 hash, seen, then>>

FlushSnapshot(t) ==
  /\ pc[t] = "flush"
  /\ flushMu = NoThread
  /\ flushMu' = t
  /\ snapshot' = [snapshot EXCEPT ![t] = entries]
  /\ Goto(t, "flush_rename")
  /\ UNCHANGED <<proc, crashes, clock, disk, entries, promoteMu, flushErr,
                 hash, seen, then>>

FlushReturns(t) ==
  /\ pc[t] = "flush_rename"
  /\ flushMu' = NoThread
  /\ snapshot' = [snapshot EXCEPT ![t] = NoIndex]
  /\ Goto(t, then[t])
  /\ then' = [then EXCEPT ![t] = "idle"]
  /\ UNCHANGED <<proc, crashes, clock, content, entries, promoteMu, hash, seen>>

FlushRename(t) ==
  /\ FlushReturns(t)
  /\ index' = snapshot[t]
  /\ flushErr' = FALSE

FlushFails(t) ==
  /\ FlushReturns(t)
  /\ flushErr' = TRUE
  /\ UNCHANGED index

-----------------------------------------------------------------------------
(* Load                                                                    *)

LoadLookup(t, h) ==
  /\ Calls(t, h)
  /\ entries[h] # NoEntry
  /\ Tick
  /\ entries' = [entries EXCEPT ![h] = Accessed(@)]
  /\ seen' = [seen EXCEPT ![t] = entries[h].meta]
  /\ \/ CallFlush(t, "load_open")              \* the last access was over an hour ago
     \/ Goto(t, "load_open") /\ UNCHANGED then
  /\ UNCHANGED <<proc, crashes, disk, promoteMu, flushMu, flushErr, snapshot>>

\* The file, or an error if it is there but cannot be opened: neither changes
\* the cache.
LoadOpen(t) ==
  /\ pc[t] = "load_open"
  /\ \/ content[hash[t]] # 0 /\ Return(t)
     \/ content[hash[t]] = 0 /\ Goto(t, "load_drop") /\ UNCHANGED seen
  /\ UNCHANGED <<proc, crashes, clock, disk, entries, promoteMu, flushMu, flushErr,
                 hash, snapshot, then>>

LoadDrop_Any(t) ==
  /\ pc[t] = "load_drop"
  /\ entries' = [entries EXCEPT ![hash[t]] = NoEntry]
  /\ Return(t)
  /\ UNCHANGED <<proc, crashes, clock, disk, promoteMu, flushMu, flushErr, hash, snapshot, then>>

\* The entry pointer read by the lookup names a promotion.
LoadDrop(t) ==
  /\ pc[t] = "load_drop"
  /\ entries' = [entries EXCEPT ![hash[t]] = IF @.meta = seen[t] THEN NoEntry ELSE @]
  /\ Return(t)
  /\ UNCHANGED <<proc, crashes, clock, disk, promoteMu, flushMu, flushErr, hash, snapshot, then>>

-----------------------------------------------------------------------------
(* Promote                                                                 *)

PromoteLock_Skipped(t, h) ==
  /\ Calls(t, h)
  /\ Goto(t, "promote_rename")
  /\ UNCHANGED <<proc, crashes, clock, disk, entries, promoteMu, flushMu, flushErr,
                 seen, snapshot, then>>

PromoteLock(t, h) ==
  /\ Calls(t, h)
  /\ promoteMu = NoThread
  /\ promoteMu' = t
  /\ Goto(t, "promote_rename")
  /\ UNCHANGED <<proc, crashes, clock, disk, entries, flushMu, flushErr,
                 seen, snapshot, then>>

PromoteRename(t) ==
  /\ pc[t] = "promote_rename"
  /\ Tick
  /\ content' = [content EXCEPT ![hash[t]] = clock']
  /\ seen' = [seen EXCEPT ![t] = clock']
  /\ Goto(t, "promote_record")
  /\ UNCHANGED <<proc, crashes, index, entries, promoteMu, flushMu, flushErr,
                 hash, snapshot, then>>

PromoteRenameFails_Continues(t) ==
  /\ pc[t] = "promote_rename"
  /\ Tick
  /\ seen' = [seen EXCEPT ![t] = clock']
  /\ Goto(t, "promote_record")
  /\ UNCHANGED <<proc, crashes, disk, entries, promoteMu, flushMu, flushErr,
                 hash, snapshot, then>>

PromoteRenameFails(t) ==
  /\ pc[t] = "promote_rename"
  /\ promoteMu' = NoThread
  /\ Return(t)
  /\ UNCHANGED <<proc, crashes, clock, disk, entries, flushMu, flushErr, hash, snapshot, then>>

PromoteRecord(t) ==
  /\ pc[t] = "promote_record"
  /\ entries' = [entries EXCEPT ![hash[t]] = [meta |-> seen[t], fresh |-> TRUE,
                                              lastAccess |-> clock]]
  /\ CallFlush(t, "promote_unlock")
  /\ UNCHANGED <<proc, crashes, clock, disk, promoteMu, flushMu, flushErr,
                 hash, seen, snapshot>>

PromoteUnlock(t) ==
  /\ pc[t] = "promote_unlock"
  /\ promoteMu' = NoThread
  /\ Return(t)
  /\ UNCHANGED <<proc, crashes, clock, disk, entries, flushMu, flushErr, hash, snapshot, then>>

-----------------------------------------------------------------------------
(* Refresh; time passing; the operating system's cleaner                   *)

Refresh(t, h) ==
  /\ Calls(t, h)
  /\ entries[h] # NoEntry
  /\ Tick
  /\ entries' = [entries EXCEPT ![h] = [Accessed(@) EXCEPT !.fresh = TRUE]]
  /\ CallFlush(t, "idle")
  /\ UNCHANGED <<proc, crashes, disk, promoteMu, flushMu, flushErr, seen, snapshot>>

\* ExpiresAt is an instant, so the entry on disk expires with the one in memory.
Expire(h) ==
  /\ entries[h].fresh \/ index[h].fresh
  /\ entries' = [entries EXCEPT ![h].fresh = FALSE]
  /\ index' = [index EXCEPT ![h].fresh = FALSE]
  /\ snapshot' = [t \in Thread |-> [snapshot[t] EXCEPT ![h].fresh = FALSE]]
  /\ UNCHANGED <<proc, crashes, clock, content, promoteMu, flushMu, flushErr,
                 pc, hash, seen, then>>

Purge(h) ==
  /\ content[h] # 0
  /\ content' = [content EXCEPT ![h] = 0]
  /\ UNCHANGED <<proc, crashes, clock, index, entries, promoteMu, flushMu, flushErr, pc, locals>>

-----------------------------------------------------------------------------
(* Crash and loadFromDisk.                                                 *)

Crash ==
  /\ proc # "down"
  /\ crashes < MaxCrashes
  /\ crashes' = crashes + 1
  /\ proc' = "down"
  /\ entries' = NoIndex
  /\ promoteMu' = NoThread
  /\ flushMu' = NoThread
  /\ flushErr' = FALSE
  /\ pc' = [t \in Thread |-> "idle"]
  /\ seen' = [t \in Thread |-> 0]
  /\ snapshot' = [t \in Thread |-> NoIndex]
  /\ then' = [t \in Thread |-> "idle"]
  /\ UNCHANGED <<clock, disk, hash>>

\* The index is believed about files that have gone.
Reconciled_wrong(base) ==
  [h \in Hash |->
     IF base[h] # NoEntry THEN base[h]
     ELSE IF content[h] = 0 THEN NoEntry
     ELSE [meta |-> 0, fresh |-> FALSE, lastAccess |-> clock]]

\* An entry without a file is dropped, a file without an entry is adopted as stale.
Reconciled(base) ==
  [h \in Hash |->
     IF content[h] = 0 THEN NoEntry
     ELSE IF base[h] # NoEntry THEN base[h]
     ELSE [meta |-> 0, fresh |-> FALSE, lastAccess |-> clock]]

\* The index may be unreadable; what is stale and was last read long ago is collected.
LoadFromDisk ==
  /\ proc = "down"
  /\ proc' = "starting"
  /\ \E base \in {index, NoIndex}, old \in SUBSET Hash :
       LET kept == Reconciled(base)
           collected == {h \in old : kept[h] # NoEntry /\ ~kept[h].fresh}
       IN  /\ entries' = [h \in Hash |-> IF h \in collected THEN NoEntry ELSE kept[h]]
           /\ content' = [h \in Hash |-> IF h \in collected THEN 0 ELSE content[h]]
  /\ UNCHANGED <<crashes, clock, index, promoteMu, flushMu, flushErr, pc, locals>>

FirstFlush ==
  /\ proc = "starting"
  /\ proc' = "up"
  /\ \/ index' = entries /\ flushErr' = FALSE
     \/ flushErr' = TRUE /\ UNCHANGED index
  /\ UNCHANGED <<crashes, clock, content, entries, promoteMu, flushMu, pc, locals>>

-----------------------------------------------------------------------------

Next ==
  \/ \E t \in Thread :
       \/ \E h \in Hash : LoadLookup(t, h) \/ PromoteLock(t, h) \/ Refresh(t, h)
       \/ FlushSnapshot(t) \/ FlushRename(t) \/ FlushFails(t)
       \/ LoadOpen(t) \/ LoadDrop(t)
       \/ PromoteRename(t) \/ PromoteRenameFails(t) \/ PromoteRecord(t) \/ PromoteUnlock(t)
  \/ \E h \in Hash : Expire(h) \/ Purge(h)
  \/ Crash \/ LoadFromDisk \/ FirstFlush

Spec == Init /\ [][Next]_vars

-----------------------------------------------------------------------------
(* Properties.                                                             *)

Step == {"idle", "flush", "flush_rename", "load_open", "load_drop",
         "promote_rename", "promote_record", "promote_unlock"}
Promoting == {"promote_rename", "promote_record", "promote_unlock"}
InPromote(t) ==
  \/ pc[t] \in Promoting
  \/ pc[t] \in {"flush", "flush_rename"} /\ then[t] = "promote_unlock"

\* Every variable has its type, and each mutex is held exactly by the thread
\* that is inside the section it guards.
TypeOK ==
  /\ proc \in {"up", "down", "starting"}
  /\ crashes \in 0..MaxCrashes
  /\ clock \in Time
  /\ content \in [Hash -> Time]
  /\ index \in [Hash -> Entry \cup {NoEntry}]
  /\ entries \in [Hash -> Entry \cup {NoEntry}]
  /\ flushErr \in BOOLEAN
  /\ pc \in [Thread -> Step]
  /\ hash \in [Thread -> Hash]
  /\ seen \in [Thread -> Time]
  /\ snapshot \in [Thread -> [Hash -> Entry \cup {NoEntry}]]
  /\ then \in [Thread -> {"idle", "load_open", "promote_unlock"}]
  /\ \A t \in Thread : promoteMu = t <=> InPromote(t)
  /\ \A t \in Thread : flushMu = t <=> pc[t] = "flush_rename"

EntriesNotNewer ==
  \A h \in Hash : content[h] # 0 =>
     index[h].meta <= content[h] /\ entries[h].meta <= content[h]

LoadNotNewer ==
  \A t \in Thread : pc[t] = "load_open" /\ content[hash[t]] # 0 => seen[t] <= content[hash[t]]

\* The validators kept for a list are never newer than its bytes: neither the
\* index on disk nor the entries in memory describe a response whose bytes have
\* not landed, whatever crash or interleaving came between; nor does Load hand
\* such a pair out, although it reads the metadata under the lock and opens the
\* file after releasing it.  (The other way round only costs a download: old
\* validators are not confirmed for new bytes.)
MetaNotNewerThanContent == EntriesNotNewer /\ LoadNotNewer

PromoteIsAtomic ==
  [][\A t \in Thread : pc[t] = "promote_unlock" /\ pc'[t] = "idle" /\ proc' = "up" =>
        LET h == hash[t] IN
        /\ content[h] \in {0, seen[t]}
        /\ entries[h] = NoEntry \/ entries[h].meta = seen[t]]_vars

FilesAreIndexed ==
  proc # "down" /\ promoteMu = NoThread =>
     \A h \in Hash : content[h] # 0 => entries[h] # NoEntry

IndexNeverRegresses ==
  [][\A h \in Hash : index'[h] # NoEntry => index'[h].lastAccess >= index[h].lastAccess]_vars

IndexIsCurrent ==
  proc = "up" /\ ~flushErr /\ (\A t \in Thread : pc[t] = "idle") =>
     \A h \in Hash : entries[h] # NoEntry =>
        index[h] # NoEntry /\ index[h].meta = entries[h].meta

\* Racing writers do not undo each other: when a successful Promote returns, the
\* bytes and the entry are its own (unless the file was purged, or a Load
\* noticed that, meanwhile), and a flush never replaces the index by an older
\* one, so no entry's access time moves back on disk (promoteMu, flushMu).
WritersAreOrdered == PromoteIsAtomic /\ IndexNeverRegresses

\* A restart loses nothing.  Between promotions every list's file is known to
\* the cache: dropping the entry of a file that had gone never drops the entry
\* of its replacement, and loadFromDisk adopts what a crash left without one.
\* When no call is in progress and the last flush succeeded, the index on disk
\* describes the same response as memory for every list.
RestartLosesNothing == FilesAreIndexed /\ IndexIsCurrent

-----------------------------------------------------------------------------
(* What all of this is for.                                                *)

\* Per list the response that its entry describes.
Described(i) == [h \in Hash |-> IF i[h] = NoEntry THEN {} ELSE {i[h].meta}]

Kept == INSTANCE ListCache WITH
          Response <- Time,
          running  <- proc # "down",
          bytes    <- content,
          known    <- Described(entries),
          saved    <- Described(index),
          landing  <- {<<hash[t], seen[t]>> : t \in {u \in Thread : pc[u] = "promote_record"}}

\* Files, index and entries, written by racing goroutines under three mutexes,
\* implement what the filter list store relies on: each list has one response's
\* bytes, replaced in order and at once, with the description of a response that
\* is not newer; an index that is saved late takes back none that was right; and
\* a restart finds every file again (Promote, Flush, Load, loadFromDisk).
ImplementsListCache == Kept!Spec
=============================================================================
