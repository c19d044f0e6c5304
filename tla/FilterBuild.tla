------------------------------ MODULE FilterBuild ------------------------------
(***************************************************************************)
(* The filter build of a start: app.buildFilter's ladder of passes over    *)
(* filter.AddURL, the goroutines that parse a list and its includes, and   *)
(* what they ask of the filter list store.                                 *)
(*                                                                         *)
(* A stream is one parseURL goroutine: the list it works for, the URL it   *)
(* parses and its include depth.  Of the store, this module knows what Get *)
(* promises: which copy it serves in which mode, that a network stream     *)
(* holds a fetch slot until it ends, and which streams can break.          *)
(***************************************************************************)
EXTENDS Naturals, Sequences, FiniteSets

CONSTANTS
  Url,
  List,         \* the configured lists, by the URL of their root
  Includes,     \* the !#include lines of each URL that no !#if hides
  MaxDepth,     \* includeMaxDepth
  Slots,        \* the store's fetch slots
  Faults        \* what may go wrong beside the network: a subset of
                \*   "disk": reading or writing a cached copy fails
                \*   "empty": a server answers 200 with an empty body

ASSUME ListAssumption == List \subseteq Url /\ Includes \in [Url -> SUBSET Url]
ASSUME NumbersAssumption == MaxDepth \in Nat /\ Slots \in Nat \ {0}
ASSUME FaultsAssumption == Faults \subseteq {"disk", "empty"}

VARIABLES
  enabled,   \* the lists the configuration enables
  faults,    \* of Faults, what can happen to this build
  result,    \* of runBuildPasses
  pass, mode,
  expired,   \* the deadline of ctx has passed
  aborted,   \* the cause of abortCtx is errBuildAborted
  truncated, failed,  \* the outcome merged so far in this pass
  visited,   \* per list: the URLs its AddURL has seen in this pass
  pc, src,   \* per stream: its state, and where its content comes from
  todo,      \* per stream: the includes it has yet to read
  whole, partial,  \* URLs whose rules are in this pass's filter, to the end or cut off
  slots,     \* fetch slots taken
  cache      \* per URL: the store's copy

setting == <<enabled, faults>>
passVars == <<setting, result, pass, mode>>
ctxVars == <<expired, aborted>>
outcome == <<truncated, failed>>
streams == <<visited, pc, src, todo>>
rules == <<whole, partial>>
vars == <<passVars, ctxVars, outcome, streams, rules, slots, cache>>

Stream == [list : List, url : Url, depth : 0..(MaxDepth + 1)]
Root(l) == [list |-> l, url |-> l, depth |-> 0]
Include(s, u) == [list |-> s.list, url |-> u, depth |-> s.depth + 1]
passModes == <<"default", "prefer_cache", "cache_only">>
ctxDone == expired \/ aborted

Init ==
  /\ enabled \in SUBSET List
  /\ faults \in SUBSET Faults
  /\ result = "next_pass"
  /\ pass = 0
  /\ mode = "default"
  /\ expired = FALSE /\ aborted = FALSE
  /\ truncated = FALSE /\ failed = FALSE
  /\ visited = [l \in List |-> {}]
  /\ pc = [s \in Stream |-> "none"]
  /\ src = [s \in Stream |-> "none"]
  /\ todo = [s \in Stream |-> {}]
  /\ whole = {} /\ partial = {}
  /\ slots = 0
  /\ cache \in [Url -> {"none", "stale", "fresh"}]

-----------------------------------------------------------------------------
(* runBuildPasses                                                          *)

\* buildPass makes a new rule store and starts one AddURL per enabled list.
BeginPass(m) ==
  /\ pass' = pass + 1
  /\ mode' = m
  /\ result' = "building"
  /\ truncated' = FALSE /\ failed' = FALSE
  /\ visited' = [l \in List |-> {}]
  /\ pc' = [s \in Stream |-> IF \E l \in enabled : s = Root(l) THEN "spawned" ELSE "none"]
  /\ src' = [s \in Stream |-> "none"]
  /\ todo' = [s \in Stream |-> {}]
  /\ whole' = {} /\ partial' = {}
  /\ UNCHANGED <<setting, ctxVars, slots, cache>>

NextPass ==
  /\ result = "next_pass"
  /\ ~aborted
  /\ BeginPass(IF ctxDone THEN "cache_only" ELSE passModes[pass + 1])

Ends(r) ==
  /\ result' = r
  /\ UNCHANGED <<setting, pass, mode, ctxVars, outcome, streams, rules, slots, cache>>

\* The wait groups of AddURL and populateFilter.
PassDone == result = "building" /\ \A s \in Stream : pc[s] \in {"none", "done"}
LastPass == pass = Len(passModes)

deadlineCutOff == failed /\ ctxDone /\ mode # "cache_only"

Acceptable_Failures == ~truncated
Acceptable == ~truncated /\ ~deadlineCutOff

Accept == PassDone /\ ~aborted /\ (Acceptable \/ LastPass) /\ Ends("accepted")
Rebuild == PassDone /\ ~aborted /\ ~Acceptable /\ ~LastPass /\ Ends("next_pass")
ConstructionFails == result = "next_pass" /\ ~aborted /\ Ends("error")
BuildAborted == (PassDone \/ result = "next_pass") /\ aborted /\ Ends("aborted")

-----------------------------------------------------------------------------
(* parseURL up to Get                                                      *)

Finished(s) == pc' = [pc EXCEPT ![s] = "done"]

TooDeep(s) ==
  /\ pc[s] = "spawned"
  /\ s.depth > MaxDepth
  /\ Finished(s)
  /\ failed' = TRUE
  /\ UNCHANGED <<passVars, ctxVars, truncated, visited, src, todo, rules, slots, cache>>

SkipDuplicate(s) ==
  /\ pc[s] = "spawned"
  /\ s.depth <= MaxDepth /\ s.url \in visited[s.list]
  /\ Finished(s)
  /\ UNCHANGED <<passVars, ctxVars, outcome, visited, src, todo, rules, slots, cache>>

Visit_Unmarked(s) ==
  /\ pc[s] = "spawned"
  /\ s.depth <= MaxDepth /\ s.url \notin visited[s.list]
  /\ pc' = [pc EXCEPT ![s] = "getting"]
  /\ UNCHANGED <<passVars, ctxVars, outcome, visited, src, todo, rules, slots, cache>>

Visit(s) ==
  /\ pc[s] = "spawned"
  /\ s.depth <= MaxDepth /\ s.url \notin visited[s.list]
  /\ visited' = [visited EXCEPT ![s.list] = @ \cup {s.url}]
  /\ pc' = [pc EXCEPT ![s] = "getting"]
  /\ UNCHANGED <<passVars, ctxVars, outcome, src, todo, rules, slots, cache>>

-----------------------------------------------------------------------------
(* What Get promises                                                       *)

\* A copy that cannot be read counts as none.
Loaded(u) == {cache[u]} \cup (IF "disk" \in faults THEN {"none"} ELSE {})
Served(copy) == copy = "fresh" \/ (copy = "stale" /\ mode # "default")

Serve(s, source) ==
  /\ pc[s] = "getting"
  /\ pc' = [pc EXCEPT ![s] = "reading"]
  /\ src' = [src EXCEPT ![s] = source]
  /\ todo' = [todo EXCEPT ![s] = Includes[s.url]]
  /\ UNCHANGED <<passVars, ctxVars, outcome, visited, rules>>

\* Copies with no fallback behind them are read into memory first.
GetCached(s) ==
  /\ \E copy \in Loaded(s.url) :
        /\ Served(copy)
        /\ Serve(s, IF copy = "fresh" /\ mode # "cache_only" THEN "disk" ELSE "memory")
  /\ UNCHANGED <<slots, cache>>

\* The request goes out with a slot and before ctx ends.
Requests(s, copy) ==
  /\ copy \in Loaded(s.url) /\ ~Served(copy)
  /\ mode # "cache_only"
  /\ ~ctxDone /\ slots < Slots

GetDownload(s) ==
  /\ \E copy \in Loaded(s.url) : Requests(s, copy)
  /\ slots' = slots + 1
  /\ Serve(s, "network")
  /\ UNCHANGED cache

GetRevalidated(s) ==
  /\ Requests(s, "stale")
  /\ cache' = [cache EXCEPT ![s.url] = "fresh"]
  /\ Serve(s, "disk")
  /\ UNCHANGED slots

GetStale(s) ==
  /\ Requests(s, "stale")
  /\ Serve(s, "memory")
  /\ UNCHANGED <<slots, cache>>

\* The network failed a list without a copy, or there is none to ask, or the
\* context ended: then Get does not fall back to the copy it loaded.
GetFails(s) ==
  /\ pc[s] = "getting"
  /\ \/ Requests(s, "none")
     \/ \E copy \in Loaded(s.url) : ~Served(copy) /\ (ctxDone \/ mode = "cache_only")
  /\ Finished(s)
  /\ failed' = TRUE
  /\ UNCHANGED <<passVars, ctxVars, truncated, visited, src, todo, rules, slots, cache>>

-----------------------------------------------------------------------------
(* Parsing                                                                 *)

CloseStream_AlwaysReleases(s) == Finished(s) /\ slots' = slots - 1

CloseStream(s) == Finished(s) /\ slots' = IF src[s] = "network" THEN slots - 1 ELSE slots

\* The include's goroutine is never waited for while this stream is open.
ReadInclude(s, u) ==
  /\ pc[s] = "reading"
  /\ u \in todo[s]
  /\ todo' = [todo EXCEPT ![s] = @ \ {u}]
  /\ pc' = IF pc[Include(s, u)] = "none" THEN [pc EXCEPT ![Include(s, u)] = "spawned"] ELSE pc
  /\ UNCHANGED <<passVars, ctxVars, outcome, visited, src, rules, slots, cache>>

ReadEnds_AwaitsIncludes(s) ==
  /\ pc[s] = "reading"
  /\ todo[s] = {}
  /\ \A u \in Includes[s.url] : pc[Include(s, u)] = "done"
  /\ whole' = whole \cup {s.url}
  /\ cache' = IF src[s] = "network" THEN [cache EXCEPT ![s.url] = "fresh"] ELSE cache
  /\ CloseStream(s)
  /\ UNCHANGED <<passVars, ctxVars, outcome, visited, src, todo, partial>>

\* A verified EOF promotes a download.
ReadEnds(s) ==
  /\ pc[s] = "reading"
  /\ todo[s] = {}
  /\ whole' = whole \cup {s.url}
  /\ \/ src[s] = "network" /\ cache' = [cache EXCEPT ![s.url] = "fresh"]
     \/ (src[s] = "network" => "disk" \in faults) /\ UNCHANGED cache
  /\ CloseStream(s)
  /\ UNCHANGED <<passVars, ctxVars, outcome, visited, src, todo, partial>>

\* A broken stream: what was read of it stays in the filter of this pass.
ReadBreaks(s) ==
  /\ pc[s] = "reading"
  /\ src[s] = "network" \/ (src[s] = "disk" /\ "disk" \in faults)
  /\ partial' = partial \cup {s.url}
  /\ truncated' = TRUE
  /\ CloseStream(s)
  /\ UNCHANGED <<passVars, ctxVars, failed, visited, src, todo, whole, cache>>

\* An overlong line or list would break again: the rest of it is skipped.  After
\* an overlong line the stream is drained, which promotes a download.
ReadSkipsRest(s) ==
  /\ pc[s] = "reading"
  /\ whole' = whole \cup {s.url}
  /\ \/ src[s] = "network" /\ cache' = [cache EXCEPT ![s.url] = "fresh"]
     \/ UNCHANGED cache
  /\ CloseStream(s)
  /\ UNCHANGED <<passVars, ctxVars, outcome, visited, src, todo, partial>>

ReadFindsNothing(s) ==
  /\ "empty" \in faults
  /\ pc[s] = "reading"
  /\ src[s] = "network" /\ todo[s] = Includes[s.url]
  /\ failed' = TRUE
  /\ CloseStream(s)
  /\ UNCHANGED <<passVars, ctxVars, truncated, visited, src, todo, rules, cache>>

-----------------------------------------------------------------------------
(* The deadline, and StopProxy                                             *)

Underway == result \in {"building", "next_pass"}

DeadlineExpires ==
  /\ Underway /\ ~expired
  /\ expired' = TRUE
  /\ UNCHANGED <<passVars, aborted, outcome, streams, rules, slots, cache>>

Abort ==
  /\ Underway /\ ~aborted
  /\ aborted' = TRUE
  /\ UNCHANGED <<passVars, expired, outcome, streams, rules, slots, cache>>

Over == ~Underway /\ UNCHANGED vars

-----------------------------------------------------------------------------

Parses(s) ==
  \/ TooDeep(s) \/ SkipDuplicate(s) \/ Visit(s)
  \/ GetCached(s) \/ GetDownload(s) \/ GetRevalidated(s) \/ GetStale(s) \/ GetFails(s)
  \/ \E u \in Url : ReadInclude(s, u)
  \/ ReadEnds(s)

StreamStep(s) == Parses(s) \/ ReadBreaks(s) \/ ReadSkipsRest(s) \/ ReadFindsNothing(s)

PassStep == NextPass \/ Accept \/ Rebuild \/ ConstructionFails \/ BuildAborted

Next ==
  \/ \E s \in Stream : StreamStep(s)
  \/ PassStep
  \/ DeadlineExpires \/ Abort \/ Over

Spec == Init /\ [][Next]_vars

-----------------------------------------------------------------------------
(* Properties                                                              *)

\* Every variable has its type.
TypeOK ==
  /\ enabled \subseteq List /\ faults \subseteq Faults
  /\ result \in {"next_pass", "building", "accepted", "aborted", "error"}
  /\ pass \in 0..Len(passModes)
  /\ mode \in {"default", "prefer_cache", "cache_only"}
  /\ expired \in BOOLEAN /\ aborted \in BOOLEAN
  /\ truncated \in BOOLEAN /\ failed \in BOOLEAN
  /\ visited \in [List -> SUBSET Url]
  /\ pc \in [Stream -> {"none", "spawned", "getting", "reading", "done"}]
  /\ src \in [Stream -> {"none", "disk", "memory", "network"}]
  /\ todo \in [Stream -> SUBSET Url]
  /\ whole \subseteq Url /\ partial \subseteq Url
  /\ slots \in 0..Slots
  /\ cache \in [Url -> {"none", "stale", "fresh"}]

AcceptedIsWhole == result = "accepted" => partial = {}

NoCopyIsLost ==
  \A s \in Stream :
     pc[s] # "none" /\ s.depth <= MaxDepth /\ cache[s.url] # "none" => s.url \in whole

CachedListsAreServed ==
  result = "accepted" /\ faults = {} => NoCopyIsLost

\* An accepted filter holds no cut-off list: whichever stream broke in whichever
\* pass, the rules it left behind went with the pass.  And it holds every list
\* it asked for that the store has a copy of: none is lost because the deadline,
\* or a broken stream of another list, came before its copy was looked at.
AcceptedIsComplete == AcceptedIsWhole /\ CachedListsAreServed

\* Within a pass no list fetches a URL twice, by whatever paths of includes,
\* cycles among them, it is reached.
FetchedOnce ==
  \A r, s \in Stream :
     r # s /\ r.list = s.list /\ r.url = s.url => "none" \in {src[r], src[s]}

CacheOnlyPassIsLast == result = "next_pass" => mode # "cache_only"

NeverStuck == result = "building" => PassDone \/ \E s \in Stream : ENABLED Parses(s)

\* A build ends.  A pass always has a stream that can go on by itself, with as
\* few as one fetch slot: it never takes the deadline, a stop or a broken stream
\* to get it out of a wait, because no stream waits for another while it holds a
\* slot; its streams are finite in number.  And a pass that reads only the cache,
\* as every pass after the deadline does, is the last one: even a failing disk
\* cannot break its streams.
BuildEnds == NeverStuck /\ CacheOnlyPassIsLast
=============================================================================
