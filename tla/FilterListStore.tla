---------------------------- MODULE FilterListStore ----------------------------
(***************************************************************************)
(* filterliststore.FilterListStore: Get, its fetches and their readers.    *)
(*                                                                         *)
(* Each Getter is one call of Get and the consumer of the reader it        *)
(* returns.  Calls for one URL share a flight (inflight), calls for all    *)
(* URLs share the fetch slots (sem).  The cache keeps one entry per URL,   *)
(* with the upstream version of its bytes and of the validators stored     *)
(* with them; how the entries survive on disk is the matter of DiskCache.  *)
(***************************************************************************)
EXTENDS Naturals, FiniteSets

CONSTANTS
  Getter,           \* calls of Get
  NoGetter,
  Url, NoUrl,
  Slots,            \* fetchConcurrency
  Retries,          \* len(retryDelays)
  Versions,         \* how often a list is published (bounds the model only)
  ConsistentOrigin, \* every server of an origin answers with the latest version
  DiskFaults        \* reading a cached copy may fail

ASSUME GetterAssumption == IsFiniteSet(Getter) /\ NoGetter \notin Getter
ASSUME SlotsAssumption == Slots \in Nat \ {0}
ASSUME RetriesAssumption == Retries \in Nat
ASSUME VersionsAssumption == Versions \in Nat \ {0}
ASSUME FaultsAssumption == ConsistentOrigin \in BOOLEAN /\ DiskFaults \in BOOLEAN

VARIABLES
  cache,     \* per URL: the entry, or NoEntry
  upstream,  \* per URL: the version last published
  sem,       \* fetch slots taken
  inflight,  \* per URL: the call whose flight is in the map
  pc,        \* per call: its next step, or its outcome
  call       \* per call: its arguments, and what it has in hand

vars == <<cache, upstream, sem, inflight, pc, call>>

Version == 0..Versions
NoEntry == [content |-> 0, etag |-> 0, fresh |-> FALSE]
Entry == [content : Version \ {0}, etag : Version, fresh : BOOLEAN]

Mode == {"default", "prefer_cache", "cache_only"}
NoCall == [url |-> NoUrl, mode |-> "default",
           ctxDone |-> FALSE,   \* the context has ended
           stale |-> NoEntry,   \* the expired entry held open
           attempt |-> 0,       \* failed fetches
           body |-> 0,          \* the version the reader streams
           copying |-> FALSE]   \* cachingReader.tempFile # nil
Call == [url : Url \cup {NoUrl}, mode : Mode, ctxDone : BOOLEAN, stale : Entry \cup {NoEntry},
         attempt : 0..Retries, body : Version, copying : BOOLEAN]

Holding == {"attempt", "confirmed", "stream", "promoted"}
Leading == Holding \cup {"acquire", "backoff"}
Waiting == {"wait", "woken"}
Outcome == {"served", "failed"}
Step == Leading \cup Waiting \cup Outcome \cup {"idle", "load", "enter", "fallback", "ended"}

Init ==
  /\ cache \in [Url -> {NoEntry} \cup
                  {[content |-> 1, etag |-> e, fresh |-> f] : e \in {0, 1}, f \in BOOLEAN}]
  /\ upstream = [u \in Url |-> 1]
  /\ sem = 0
  /\ inflight = [u \in Url |-> NoGetter]
  /\ pc = [g \in Getter |-> "idle"]
  /\ call = [g \in Getter |-> NoCall]

-----------------------------------------------------------------------------

Goto(g, s) == pc' = [pc EXCEPT ![g] = s]
Forget(g) == call' = [call EXCEPT ![g] = NoCall]
CopyOf(g) == cache[call[g].url]

\* The end of a flight wakes those that wait for it.
ExitFlight(g, s) ==
  /\ inflight' = [inflight EXCEPT ![call[g].url] = NoGetter]
  /\ pc' = [x \in Getter |-> IF x = g THEN s
                             ELSE IF pc[x] = "wait" /\ call[x].url = call[g].url THEN "woken"
                             ELSE pc[x]]

Finish_KeepsSlot(g, s) == ExitFlight(g, s) /\ UNCHANGED sem

\* What the once of fetch guards: the slot and the flight are given up together.
Finish(g, s) == sem > 0 /\ sem' = sem - 1 /\ ExitFlight(g, s)

-----------------------------------------------------------------------------
(* Get and loadCache                                                       *)

Get(g) ==
  /\ pc[g] = "idle"
  /\ \E u \in Url, m \in Mode : call' = [call EXCEPT ![g].url = u, ![g].mode = m]
  /\ Goto(g, "load")
  /\ UNCHANGED <<cache, upstream, sem, inflight>>

\* A fresh entry, or any entry in a mode that tolerates staleness.
LoadServes(g) ==
  /\ pc[g] = "load"
  /\ CopyOf(g) # NoEntry
  /\ CopyOf(g).fresh \/ call[g].mode # "default"
  /\ Goto(g, "served")
  /\ Forget(g)
  /\ UNCHANGED <<cache, upstream, sem, inflight>>

LoadHolds(g) ==
  /\ pc[g] = "load"
  /\ CopyOf(g) # NoEntry
  /\ ~CopyOf(g).fresh /\ call[g].mode = "default"
  /\ call' = [call EXCEPT ![g].stale = CopyOf(g)]
  /\ Goto(g, "enter")
  /\ UNCHANGED <<cache, upstream, sem, inflight>>

\* No entry, or one that cannot be read.
LoadMisses(g) ==
  /\ pc[g] = "load"
  /\ CopyOf(g) = NoEntry \/ DiskFaults
  /\ IF call[g].mode = "cache_only"
     THEN Goto(g, "failed") /\ Forget(g)
     ELSE Goto(g, "enter") /\ UNCHANGED call
  /\ UNCHANGED <<cache, upstream, sem, inflight>>

EnterFlight(g) ==
  /\ pc[g] = "enter"
  /\ \/ /\ inflight[call[g].url] = NoGetter
        /\ inflight' = [inflight EXCEPT ![call[g].url] = g]
        /\ Goto(g, "acquire")
        /\ UNCHANGED call
     \/ /\ inflight[call[g].url] # NoGetter
        /\ call' = [call EXCEPT ![g].stale = NoEntry]
        /\ Goto(g, "wait")
        /\ UNCHANGED inflight
  /\ UNCHANGED <<cache, upstream, sem>>

FlightLanded(g) ==
  /\ pc[g] = "woken"
  /\ Goto(g, "load")
  /\ UNCHANGED <<cache, upstream, sem, inflight, call>>

WaitCancelled(g) ==
  /\ pc[g] \in Waiting
  /\ call[g].ctxDone
  /\ Goto(g, "failed")
  /\ Forget(g)
  /\ UNCHANGED <<cache, upstream, sem, inflight>>

-----------------------------------------------------------------------------
(* fetch                                                                   *)

AcquireSlot(g) ==
  /\ pc[g] = "acquire"
  /\ sem < Slots
  /\ sem' = sem + 1
  /\ Goto(g, "attempt")
  /\ UNCHANGED <<cache, upstream, inflight, call>>

AcquireCancelled_KeepsFlight(g) ==
  /\ pc[g] \in {"acquire", "backoff"}
  /\ call[g].ctxDone
  /\ Goto(g, "failed")
  /\ Forget(g)
  /\ UNCHANGED <<cache, upstream, sem, inflight>>

\* No slot is held here, waiting for the first one or backing off.
AcquireCancelled(g) ==
  /\ pc[g] \in {"acquire", "backoff"}
  /\ call[g].ctxDone
  /\ ExitFlight(g, "failed")
  /\ Forget(g)
  /\ UNCHANGED <<cache, upstream, sem>>

Attempts(g) == IF call[g].stale # NoEntry THEN 1 ELSE Retries + 1
Reply(g) == IF ConsistentOrigin THEN {upstream[call[g].url]} ELSE 1..upstream[call[g].url]

BackOff_Unlimited(g) ==
  /\ pc[g] = "attempt"
  /\ call' = [call EXCEPT ![g].attempt = @ + 1]
  /\ sem > 0 /\ sem' = sem - 1
  /\ Goto(g, "backoff")
  /\ UNCHANGED <<cache, upstream, inflight>>

\* A transient failure with attempts left hands the slot back.
BackOff(g) ==
  /\ pc[g] = "attempt"
  /\ call[g].attempt + 1 < Attempts(g)
  /\ call' = [call EXCEPT ![g].attempt = @ + 1]
  /\ sem > 0 /\ sem' = sem - 1
  /\ Goto(g, "backoff")
  /\ UNCHANGED <<cache, upstream, inflight>>

SleepEnds(g) ==
  /\ pc[g] = "backoff"
  /\ Goto(g, "acquire")
  /\ UNCHANGED <<cache, upstream, sem, inflight, call>>

\* A permanent failure, or a transient one of the last attempt.
GiveUp(g) ==
  /\ pc[g] = "attempt"
  /\ IF call[g].stale = NoEntry
     THEN Finish(g, "failed") /\ Forget(g)
     ELSE Finish(g, "fallback") /\ UNCHANGED call
  /\ UNCHANGED <<cache, upstream>>

FallBack(g) ==
  /\ pc[g] = "fallback"
  /\ \/ ~call[g].ctxDone /\ Goto(g, "served")
     \/ (call[g].ctxDone \/ DiskFaults) /\ Goto(g, "failed")
  /\ Forget(g)
  /\ UNCHANGED <<cache, upstream, sem, inflight>>

\* cache.Refresh of an entry that is no longer there does nothing.
NotModified(g) ==
  /\ pc[g] = "attempt"
  /\ LET etag == call[g].stale.etag IN
       /\ etag # 0 /\ etag \in Reply(g)
       /\ cache' = [cache EXCEPT ![call[g].url] =
                      IF @ = NoEntry THEN @ ELSE [@ EXCEPT !.fresh = TRUE, !.etag = etag]]
  /\ Goto(g, "confirmed")
  /\ UNCHANGED <<upstream, sem, inflight, call>>

ServeConfirmed(g) ==
  /\ pc[g] = "confirmed"
  /\ Finish(g, "served")
  /\ Forget(g)
  /\ UNCHANGED <<cache, upstream>>

Fetched_ExitsFlight(g) ==
  /\ pc[g] = "attempt"
  /\ \E v \in Reply(g) :
       call' = [call EXCEPT ![g].body = v, ![g].copying = TRUE, ![g].stale = NoEntry]
  /\ ExitFlight(g, "stream")
  /\ UNCHANGED <<cache, upstream, sem>>

\* A 200 with a list: Get returns its reader.  The copy needs a temporary file.
Fetched(g) ==
  /\ pc[g] = "attempt"
  /\ \E v \in Reply(g), copying \in BOOLEAN :
       call' = [call EXCEPT ![g].body = v, ![g].copying = copying, ![g].stale = NoEntry]
  /\ Goto(g, "stream")
  /\ UNCHANGED <<cache, upstream, sem, inflight>>

-----------------------------------------------------------------------------
(* The reader: cachingReader inside fetchReader                            *)

\* The copy is abandoned when it cannot be written; the stream goes on.
CopyFails(g) ==
  /\ pc[g] = "stream"
  /\ call[g].copying
  /\ call' = [call EXCEPT ![g].copying = FALSE]
  /\ UNCHANGED <<cache, upstream, sem, inflight, pc>>

ReadEOF_OldValidators(g) ==
  /\ pc[g] = "stream"
  /\ cache' = [cache EXCEPT ![call[g].url] = [@ EXCEPT !.content = call[g].body, !.fresh = TRUE]]
  /\ call' = [call EXCEPT ![g].copying = FALSE]
  /\ Goto(g, "promoted")
  /\ UNCHANGED <<upstream, sem, inflight>>

\* The verified end of the body promotes the copy, if it can be synced and renamed.
ReadEOF(g) ==
  /\ pc[g] = "stream"
  /\ \/ /\ call[g].copying
        /\ cache' = [cache EXCEPT ![call[g].url] =
                       [content |-> call[g].body, etag |-> call[g].body, fresh |-> TRUE]]
     \/ UNCHANGED cache
  /\ call' = [call EXCEPT ![g].copying = FALSE]
  /\ Goto(g, "promoted")
  /\ UNCHANGED <<upstream, sem, inflight>>

Terminate(g) ==
  /\ pc[g] = "promoted"
  /\ Finish(g, "ended")
  /\ UNCHANGED <<cache, upstream, call>>

\* The stall watchdog, the context, the network, or a body that is too long,
\* too short or empty.
ReadBreaks(g) ==
  /\ pc[g] = "stream"
  /\ call' = [call EXCEPT ![g].copying = FALSE]
  /\ Finish(g, "ended")
  /\ UNCHANGED <<cache, upstream>>

\* Close, before the end of the body or after it: finish runs once.
CloseReader(g) ==
  /\ \/ pc[g] = "stream" /\ Finish(g, "served")
     \/ pc[g] = "ended" /\ Goto(g, "served") /\ UNCHANGED <<sem, inflight>>
  /\ Forget(g)
  /\ UNCHANGED <<cache, upstream>>

-----------------------------------------------------------------------------
(* The rest of the world                                                   *)

CtxEnds(g) ==
  /\ pc[g] \notin Outcome \cup {"idle"}
  /\ ~call[g].ctxDone
  /\ call' = [call EXCEPT ![g].ctxDone = TRUE]
  /\ UNCHANGED <<cache, upstream, sem, inflight, pc>>

Publish(u) ==
  /\ upstream[u] < Versions
  /\ upstream' = [upstream EXCEPT ![u] = @ + 1]
  /\ UNCHANGED <<cache, sem, inflight, pc, call>>

Expire(u) ==
  /\ cache[u].fresh
  /\ cache' = [cache EXCEPT ![u].fresh = FALSE]
  /\ UNCHANGED <<upstream, sem, inflight, pc, call>>

Purge(u) ==
  /\ DiskFaults
  /\ cache[u] # NoEntry
  /\ cache' = [cache EXCEPT ![u] = NoEntry]
  /\ UNCHANGED <<upstream, sem, inflight, pc, call>>

AllDone == (\A g \in Getter : pc[g] \in Outcome) /\ UNCHANGED vars

-----------------------------------------------------------------------------

Progress(g) ==
  \/ Get(g) \/ LoadServes(g) \/ LoadHolds(g) \/ LoadMisses(g)
  \/ EnterFlight(g) \/ FlightLanded(g) \/ WaitCancelled(g)
  \/ AcquireSlot(g) \/ AcquireCancelled(g) \/ BackOff(g) \/ SleepEnds(g)
  \/ GiveUp(g) \/ FallBack(g) \/ NotModified(g) \/ ServeConfirmed(g) \/ Fetched(g)
  \/ ReadEOF(g) \/ Terminate(g) \/ ReadBreaks(g) \/ CloseReader(g)

Next ==
  \/ \E g \in Getter : Progress(g) \/ CopyFails(g) \/ CtxEnds(g)
  \/ \E u \in Url : Publish(u) \/ Expire(u) \/ Purge(u)
  \/ AllDone

Spec == Init /\ [][Next]_vars

\* Goroutines run, every phase of a request and the body have a timeout, timers
\* fire, and a consumer reads its reader to the end or closes it.
FairSpec == Spec /\ \A g \in Getter : WF_vars(Progress(g))

-----------------------------------------------------------------------------
(* Properties.                                                             *)

Leads(g) == pc[g] \in Leading
HoldsSlot(g) == pc[g] \in Holding

\* Every variable has its type.
TypeOK ==
  /\ cache \in [Url -> Entry \cup {NoEntry}]
  /\ upstream \in [Url -> Version \ {0}]
  /\ sem \in 0..Slots
  /\ inflight \in [Url -> Getter \cup {NoGetter}]
  /\ pc \in [Getter -> Step]
  /\ call \in [Getter -> Call]

\* A slot is taken for every request and every open stream, and for nothing
\* else: not through a backoff, and not after the stream ended, however often
\* the reader is ended and closed.
SlotsAreHeld == sem = Cardinality({g \in Getter : HoldsSlot(g)})

\* A URL has one download at a time: its flight is in the map from the moment a
\* call leads it until that call is through, and it is that call's flight.
OneDownload == \A g \in Getter : Leads(g) => inflight[call[g].url] = g

\* A call waits only for a download that is under way: no end of a fetch, by
\* success, failure or cancellation, leaves the others waiting.
WaitersHaveALeader ==
  \A g \in Getter : pc[g] = "wait" =>
     \E l \in Getter : Leads(l) /\ inflight[call[g].url] = l

\* With an origin that is consistent, the validators kept for a list, and those
\* a revalidating fetch holds, are those of the bytes beside them.
ValidatorsMatch ==
  ConsistentOrigin =>
    /\ \A u \in Url : cache[u].etag \in {0, cache[u].content}
    /\ \A g \in Getter : call[g].stale.etag \in {0, call[g].stale.content}

\* With an origin that is consistent, a download never replaces a newer copy by
\* an older one: downloads of a URL are promoted in the order they were made.
NeverDowngraded ==
  [][ConsistentOrigin =>
       \A u \in Url : cache'[u] # NoEntry => cache'[u].content >= cache[u].content]_vars

\* Every call of Get returns, and its reader comes to an end.
GetsReturn == \A g \in Getter : pc[g] = "load" ~> pc[g] \in Outcome

\* What the map of flights, the slots and the steps of a call amount to.
Part(g) == IF pc[g] \in Holding \cup {"acquire", "backoff", "wait"}
           THEN [role |-> CASE pc[g] \in Holding -> "active"
                            [] pc[g] = "wait"    -> "waits"
                            [] OTHER             -> "leads",
                 key  |-> call[g].url]
           ELSE [role |-> "none", key |-> NoUrl]

Flights == INSTANCE SingleFlight WITH
             Caller <- Getter, Key <- Url, NoKey <- NoUrl, part <- [g \in Getter |-> Part(g)]

\* The store's flights and slots implement single flight: at most one download
\* of a URL, waited for by every other call for it and released by whatever
\* ends it, and at most fetchConcurrency of them on the network (inflight and
\* sem in Get and fetch).
ImplementsSingleFlight == Flights!Spec

-----------------------------------------------------------------------------
(* A claim of the repository that its code does not keep (README, section 5). *)

\* Get's doc comment: an error other than its context's only comes when the
\* network fails and no cached copy of the list exists.
ErrorMeansNoCopy ==
  [][\A g \in Getter : pc'[g] = "failed" /\ pc[g] # "failed" /\ ~call[g].ctxDone =>
        CopyOf(g) = NoEntry]_vars
=============================================================================
