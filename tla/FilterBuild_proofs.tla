----------------------- MODULE FilterBuild_proofs -----------------------
(***************************************************************************)
(* The safety properties of FilterBuild, for any lists and includes,       *)
(* cycles among them, any include depth, any number of fetch slots and     *)
(* any subset of the faults; then three of the filter's own, for any       *)
(* lines: how Directives counts blocks, what Exchanges lets the user       *)
(* allow, and which hosts HostMatch gives the data of a line.              *)
(***************************************************************************)
EXTENDS FilterBuild, Directives, Exchanges, HostMatch,
        FiniteSetTheorems, SequenceTheorems, WellFoundedInduction, TLAPS

-----------------------------------------------------------------------------
(* The inductive invariant                                                 *)

(* Streams run during a pass only, the last of the ladder reads only the   *)
(* cache, and a pass that does is not followed by another.                 *)
PassInv ==
  /\ result # "building" => \A s \in Stream : pc[s] \in {"none", "done"}
  /\ result = "next_pass" => pass < Len(passModes) /\ mode # "cache_only"
  /\ LastPass => mode = "cache_only"

(* A stream that asked for its URL, or got it, has marked it as visited.   *)
Claimed(s) == pc[s] = "getting" \/ src[s] # "none"

StreamInv(s) ==
  /\ pc[s] \in {"getting", "reading"} => s.depth <= MaxDepth
  /\ pc[s] = "reading" => src[s] # "none"
  /\ src[s] # "none" => pc[s] \in {"reading", "done"}
  /\ mode = "cache_only" => src[s] \in {"none", "memory"}
  /\ Claimed(s) => s.url \in visited[s.list]
  /\ pc[s] = "done" /\ s.depth <= MaxDepth => s.url \in visited[s.list]

SoleClaim(r, s) == r # s /\ r.list = s.list /\ r.url = s.url => ~(Claimed(r) /\ Claimed(s))

ClaimInv == \A r, s \in Stream : SoleClaim(r, s)

(* The slots taken are those of the network streams being read.            *)
Fetching == {s \in Stream : pc[s] = "reading" /\ src[s] = "network"}

SlotsInv == IsFiniteSet(Fetching) /\ Cardinality(Fetching) = slots

(* A cut-off stream taints its pass, and no tainted pass is accepted.      *)
VerdictInv ==
  /\ mode = "cache_only" => ~truncated
  /\ partial # {} => truncated
  /\ result = "accepted" => Acceptable

(* Without faults of disk or server, a URL a list visited is in the filter *)
(* or on its way there, unless there is no copy of it or the pass cannot   *)
(* be accepted.                                                            *)
OnItsWay(l, u) ==
  \E s \in Stream : s.list = l /\ s.url = u /\ pc[s] \in {"getting", "reading"}

Settled(l, u) ==
  \/ u \in whole
  \/ cache[u] = "none"
  \/ truncated
  \/ deadlineCutOff
  \/ OnItsWay(l, u)

ServedInv == faults = {} => \A l \in List : \A u \in visited[l] : Settled(l, u)

IInv ==
  /\ TypeOK /\ PassInv /\ (\A s \in Stream : StreamInv(s)) /\ ClaimInv
  /\ SlotsInv /\ VerdictInv /\ ServedInv

-----------------------------------------------------------------------------
(* What streams are                                                        *)

(* The fields of a stream, and the stream of a list's root.                *)
LEMMA StreamFields ==
  /\ \A s \in Stream : s.list \in List /\ s.url \in Url /\ s.depth \in Nat
  /\ \A l \in List : Root(l) \in Stream
BY ListAssumption, NumbersAssumption DEF Stream, Root

(* The includes of a stream that is not too deep are streams, one deeper.  *)
LEMMA IncludeStream ==
  ASSUME NEW s \in Stream, NEW u \in Url, s.depth <= MaxDepth
  PROVE  Include(s, u) \in Stream
BY NumbersAssumption DEF Stream, Include

(* The ladder has three passes.                                            *)
LEMMA Ladder ==
  /\ Len(passModes) = 3
  /\ \A n \in 1..3 : passModes[n] \in {"default", "prefer_cache", "cache_only"}
  /\ passModes[3] = "cache_only"
BY DEF passModes

-----------------------------------------------------------------------------
(* The moves of a step                                                     *)

(* What the actions do to the streams and the slots: a stream ends and     *)
(* gives back the slot it may hold, or begins to be read from a source, in *)
(* a slot if that is the network; the rest leave both alone.               *)
Ending(s) ==
  /\ pc[s] \in {"spawned", "getting", "reading"}
  /\ pc[s] = "spawned" /\ s.depth <= MaxDepth => s.url \in visited[s.list]
  /\ pc' = [pc EXCEPT ![s] = "done"]
  /\ slots' = IF src[s] = "network" THEN slots - 1 ELSE slots
  /\ UNCHANGED <<passVars, visited, src, todo>>

Opening(s, k) ==
  /\ pc[s] = "getting"
  /\ k \in {"disk", "memory", "network"}
  /\ mode = "cache_only" => k = "memory"
  /\ pc' = [pc EXCEPT ![s] = "reading"]
  /\ src' = [src EXCEPT ![s] = k]
  /\ k = "network" => slots < Slots
  /\ slots' = IF k = "network" THEN slots + 1 ELSE slots
  /\ todo' = [todo EXCEPT ![s] = Includes[s.url]]
  /\ UNCHANGED <<passVars, visited>>

Verdict ==
  \/ PassDone /\ Acceptable /\ Ends("accepted")
  \/ PassDone /\ LastPass /\ Ends("accepted")
  \/ Rebuild
  \/ (PassDone \/ result = "next_pass") /\ (Ends("error") \/ Ends("aborted"))

Still == UNCHANGED <<passVars, streams, slots>>

Move ==
  \/ \E s \in Stream : Ending(s) \/ Visit(s)
  \/ \E s \in Stream, k \in {"disk", "memory", "network"} : Opening(s, k)
  \/ \E s \in Stream, u \in Url : ReadInclude(s, u)
  \/ NextPass \/ Verdict \/ Still

(* A stream that is not yet read has no source, hence no slot to give back.*)
LEMMA MoveOfStep ==
  ASSUME \A s \in Stream : StreamInv(s), [Next]_vars
  PROVE  Move
<1>1. ASSUME NEW s \in Stream, TooDeep(s)  PROVE Ending(s)
  <2>1. src[s] = "none"
    BY <1>1 DEF TooDeep, StreamInv
  <2>2. ~(s.depth <= MaxDepth)
    BY <1>1, StreamFields, NumbersAssumption DEF TooDeep
  <2>3. QED
    BY <1>1, <2>1, <2>2 DEF TooDeep, Finished, Ending, passVars
<1>2. ASSUME NEW s \in Stream, SkipDuplicate(s)  PROVE Ending(s)
  BY <1>2 DEF SkipDuplicate, Finished, Ending, passVars, StreamInv
<1>3. ASSUME NEW s \in Stream, GetFails(s)  PROVE Ending(s)
  BY <1>3 DEF GetFails, Finished, Ending, passVars, StreamInv
<1>4. ASSUME NEW s \in Stream, ReadEnds(s)  PROVE Ending(s)
  BY <1>4 DEF ReadEnds, CloseStream, Finished, Ending, passVars
<1>5. ASSUME NEW s \in Stream, ReadBreaks(s)  PROVE Ending(s)
  BY <1>5 DEF ReadBreaks, CloseStream, Finished, Ending, passVars
<1>6. ASSUME NEW s \in Stream, ReadSkipsRest(s)  PROVE Ending(s)
  BY <1>6 DEF ReadSkipsRest, CloseStream, Finished, Ending, passVars
<1>7. ASSUME NEW s \in Stream, ReadFindsNothing(s)  PROVE Ending(s)
  BY <1>7 DEF ReadFindsNothing, CloseStream, Finished, Ending, passVars
<1>8. ASSUME NEW s \in Stream, GetCached(s)
      PROVE  \E k \in {"disk", "memory", "network"} : Opening(s, k)
  <2>1. PICK copy \in Loaded(s.url) :
          Serve(s, IF copy = "fresh" /\ mode # "cache_only" THEN "disk" ELSE "memory")
    BY <1>8 DEF GetCached
  <2>2. Opening(s, IF copy = "fresh" /\ mode # "cache_only" THEN "disk" ELSE "memory")
    BY <1>8, <2>1 DEF GetCached, Serve, Opening, passVars
  <2>3. QED
    BY <2>2
<1>9. ASSUME NEW s \in Stream, GetDownload(s)  PROVE Opening(s, "network")
  BY <1>9 DEF GetDownload, Requests, Serve, Opening, passVars
<1>10. ASSUME NEW s \in Stream, GetRevalidated(s)  PROVE Opening(s, "disk")
  BY <1>10 DEF GetRevalidated, Requests, Serve, Opening, passVars
<1>11. ASSUME NEW s \in Stream, GetStale(s)  PROVE Opening(s, "memory")
  BY <1>11 DEF GetStale, Requests, Serve, Opening, passVars
<1>12. ASSUME Accept  PROVE Verdict
  BY <1>12 DEF Accept, Verdict
<1>13. ASSUME ConstructionFails \/ BuildAborted  PROVE Verdict
  BY <1>13 DEF ConstructionFails, BuildAborted, Verdict
<1>14. ASSUME DeadlineExpires \/ Abort \/ Over \/ UNCHANGED vars  PROVE Still
  BY <1>14 DEF DeadlineExpires, Abort, Over, vars, Still, streams
<1>15. CASE \E s \in Stream : StreamStep(s)
  BY <1>1, <1>2, <1>3, <1>4, <1>5, <1>6, <1>7, <1>8, <1>9, <1>10, <1>11, <1>15
  DEF StreamStep, Parses, Move
<1>16. CASE PassStep
  BY <1>12, <1>13, <1>16 DEF PassStep, Move, Verdict
<1>17. QED
  BY <1>14, <1>15, <1>16 DEF Next, Move

-----------------------------------------------------------------------------
(* The types                                                               *)

(* The types in three parts; the bound of the slots comes from SlotsInv.   *)
PassTypes ==
  /\ enabled \subseteq List /\ faults \subseteq Faults
  /\ result \in {"next_pass", "building", "accepted", "aborted", "error"}
  /\ pass \in 0..Len(passModes)
  /\ mode \in {"default", "prefer_cache", "cache_only"}

StreamTypes ==
  /\ visited \in [List -> SUBSET Url]
  /\ pc \in [Stream -> {"none", "spawned", "getting", "reading", "done"}]
  /\ src \in [Stream -> {"none", "disk", "memory", "network"}]
  /\ todo \in [Stream -> SUBSET Url]

DataTypes ==
  /\ expired \in BOOLEAN /\ aborted \in BOOLEAN
  /\ truncated \in BOOLEAN /\ failed \in BOOLEAN
  /\ whole \subseteq Url /\ partial \subseteq Url
  /\ cache \in [Url -> {"none", "stale", "fresh"}]

(* A pass has a place on the ladder and one of its modes.                  *)
LEMMA PassTypesStep ==
  ASSUME PassTypes, PassInv, Move
  PROVE  PassTypes'
<1> USE DEF PassTypes
<1>1. CASE NextPass
  <2>1. pass \in 0..2
    BY <1>1, Ladder DEF NextPass, PassInv
  <2>2. (IF ctxDone THEN "cache_only" ELSE passModes[pass + 1])
          \in {"default", "prefer_cache", "cache_only"}
    BY <2>1, Ladder
  <2>3. pass + 1 \in 0..Len(passModes)
    BY <2>1, Ladder
  <2>4. QED
    BY <1>1, <2>2, <2>3 DEF NextPass, BeginPass, setting
<1>2. CASE Verdict
  BY <1>2 DEF Verdict, Rebuild, Ends, setting
<1>3. CASE Still
  BY <1>3 DEF Still, passVars, setting
<1>4. CASE \E s \in Stream : Ending(s) \/ Visit(s)
  BY <1>4 DEF Ending, Visit, passVars, setting
<1>5. CASE \E s \in Stream, k \in {"disk", "memory", "network"} : Opening(s, k)
  BY <1>5 DEF Opening, passVars, setting
<1>6. CASE \E s \in Stream, u \in Url : ReadInclude(s, u)
  BY <1>6 DEF ReadInclude, passVars, setting
<1>7. QED
  BY <1>1, <1>2, <1>3, <1>4, <1>5, <1>6 DEF Move

(* What is visited, and what streams do, read from and have yet to include.*)
LEMMA StreamTypesStep ==
  ASSUME StreamTypes, \A s \in Stream : StreamInv(s), Move
  PROVE  StreamTypes'
<1> USE DEF StreamTypes
<1>1. CASE NextPass
  BY <1>1 DEF NextPass, BeginPass
<1>2. CASE Verdict
  BY <1>2 DEF Verdict, Rebuild, Ends, streams
<1>3. CASE Still
  BY <1>3 DEF Still, streams
<1>4. ASSUME NEW s \in Stream, Ending(s)  PROVE StreamTypes'
  BY <1>4 DEF Ending
<1>5. ASSUME NEW s \in Stream, Visit(s)  PROVE StreamTypes'
  BY <1>5, StreamFields DEF Visit
<1>6. ASSUME NEW s \in Stream, NEW k \in {"disk", "memory", "network"}, Opening(s, k)
      PROVE  StreamTypes'
  <2>1. Includes[s.url] \in SUBSET Url
    BY StreamFields, ListAssumption
  <2>2. QED
    BY <1>6, <2>1 DEF Opening
<1>7. ASSUME NEW s \in Stream, NEW u \in Url, ReadInclude(s, u)  PROVE StreamTypes'
  <2>1. Include(s, u) \in Stream
    BY <1>7, IncludeStream DEF ReadInclude, StreamInv
  <2>2. QED
    BY <1>7, <2>1 DEF ReadInclude
<1>8. QED
  BY <1>1, <1>2, <1>3, <1>4, <1>5, <1>6, <1>7 DEF Move

(* The outcome of a pass, its filter, the context and the cache.           *)
LEMMA DataTypesStep ==
  ASSUME DataTypes, [Next]_vars
  PROVE  DataTypes'
<1> USE DEF DataTypes
<1>1. ASSUME NEW s \in Stream, StreamStep(s)  PROVE DataTypes'
  <2> USE <1>1, StreamFields DEF ctxVars, outcome, rules
  <2>1. CASE TooDeep(s) \/ SkipDuplicate(s) \/ Visit(s)
    BY <2>1 DEF TooDeep, SkipDuplicate, Visit
  <2>2. CASE GetCached(s)
    BY <2>2 DEF GetCached, Serve
  <2>3. CASE GetDownload(s)
    BY <2>3 DEF GetDownload, Serve
  <2>4. CASE GetRevalidated(s)
    BY <2>4 DEF GetRevalidated, Serve
  <2>5. CASE GetStale(s)
    BY <2>5 DEF GetStale, Serve
  <2>6. CASE GetFails(s)
    BY <2>6 DEF GetFails
  <2>7. CASE \E u \in Url : ReadInclude(s, u)
    BY <2>7 DEF ReadInclude
  <2>8. CASE ReadEnds(s)
    BY <2>8 DEF ReadEnds
  <2>9. CASE ReadBreaks(s)
    BY <2>9 DEF ReadBreaks
  <2>10. CASE ReadSkipsRest(s)
    BY <2>10 DEF ReadSkipsRest
  <2>11. CASE ReadFindsNothing(s)
    BY <2>11 DEF ReadFindsNothing
  <2>12. QED
    BY <1>1, <2>1, <2>2, <2>3, <2>4, <2>5, <2>6, <2>7, <2>8, <2>9, <2>10, <2>11
    DEF StreamStep, Parses
<1>2. CASE PassStep
  BY <1>2 DEF PassStep, NextPass, BeginPass, Accept, Rebuild, ConstructionFails,
              BuildAborted, Ends, ctxVars, outcome, rules
<1>3. CASE DeadlineExpires \/ Abort
  BY <1>3 DEF DeadlineExpires, Abort, outcome, rules
<1>4. CASE Over \/ UNCHANGED vars
  BY <1>4 DEF Over, vars, ctxVars, outcome, rules
<1>5. QED
  BY <1>1, <1>2, <1>3, <1>4 DEF Next

-----------------------------------------------------------------------------
(* The streams                                                             *)

(* The moves keep the order of passes.                                     *)
LEMMA PassInvStep ==
  ASSUME TypeOK, PassInv, VerdictInv, \A s \in Stream : StreamInv(s), Move
  PROVE  PassInv'
<1>1. CASE NextPass
  <2>1. pass \in 0..2
    BY <1>1, Ladder DEF NextPass, PassInv, TypeOK
  <2>2. result' = "building" /\ pass' = pass + 1
    BY <1>1 DEF NextPass, BeginPass
  <2>3. pass = 2 => mode' = "cache_only"
    BY <1>1, Ladder DEF NextPass, BeginPass
  <2>4. QED
    BY <2>1, <2>2, <2>3, Ladder DEF PassInv, LastPass
<1>2. CASE Verdict
  <2>1. result' # "building" /\ pass' = pass /\ mode' = mode /\ pc' = pc
    BY <1>2 DEF Verdict, Rebuild, Ends, streams
  <2>2. result' = "next_pass" => Rebuild
    BY <1>2 DEF Verdict, Ends
  <2>3. Rebuild => mode # "cache_only" /\ pass < Len(passModes)
    <3>1. Rebuild => mode # "cache_only"
      BY DEF Rebuild, Acceptable, deadlineCutOff, VerdictInv
    <3>2. Rebuild => pass # Len(passModes)
      BY DEF Rebuild, LastPass
    <3>3. QED
      BY <3>1, <3>2, Ladder DEF TypeOK
  <2>4. \A s \in Stream : pc[s] \in {"none", "done"}
    BY <1>2 DEF Verdict, Rebuild, PassDone, PassInv
  <2>5. QED
    BY <2>1, <2>2, <2>3, <2>4 DEF PassInv, LastPass
<1>3. CASE Still
  BY <1>3 DEF Still, PassInv, passVars, streams, LastPass
<1>4. CASE \E s \in Stream : Ending(s) \/ Visit(s)
  BY <1>4 DEF PassInv, Ending, Visit, passVars, LastPass
<1>5. CASE \E s \in Stream, k \in {"disk", "memory", "network"} : Opening(s, k)
  BY <1>5 DEF PassInv, Opening, passVars, LastPass
<1>6. CASE \E s \in Stream, u \in Url : ReadInclude(s, u)
  BY <1>6 DEF PassInv, ReadInclude, passVars, LastPass
<1>7. QED
  BY <1>1, <1>2, <1>3, <1>4, <1>5, <1>6 DEF Move

(* The moves keep what holds of each stream.                               *)
LEMMA StreamInvStep ==
  ASSUME TypeOK, IInv, Move, NEW r \in Stream
  PROVE  StreamInv(r)'
<1>1. StreamInv(r) /\ r.list \in List /\ r.url \in Url /\ r.depth \in Nat
  BY StreamFields DEF IInv
<1>2. pc \in [Stream -> {"none", "spawned", "getting", "reading", "done"}]
  BY DEF TypeOK
<1>3. src \in [Stream -> {"none", "disk", "memory", "network"}]
  BY DEF TypeOK
<1>4. visited \in [List -> SUBSET Url]
  BY DEF TypeOK
<1>5. CASE NextPass
  BY <1>5 DEF NextPass, BeginPass, StreamInv, Claimed
<1>6. CASE Verdict
  BY <1>1, <1>6 DEF Verdict, Rebuild, Ends, streams, StreamInv, Claimed
<1>7. CASE Still
  BY <1>1, <1>7 DEF Still, streams, passVars, StreamInv, Claimed
<1>8. ASSUME NEW s \in Stream, Ending(s)  PROVE StreamInv(r)'
  <2>1. mode' = mode /\ visited' = visited /\ src' = src
    BY <1>8 DEF Ending, passVars
  <2>2. CASE r = s
    <3>1. pc[r] \in {"spawned", "getting", "reading"} /\ pc'[r] = "done"
      BY <1>2, <1>8, <2>2 DEF Ending
    <3>2. r.depth <= MaxDepth => r.url \in visited[r.list]
      <4>1. CASE pc[r] = "spawned"
        BY <1>8, <2>2, <4>1 DEF Ending
      <4>2. CASE pc[r] = "getting"
        BY <1>1, <4>2 DEF StreamInv, Claimed
      <4>3. CASE pc[r] = "reading"
        BY <1>1, <4>3 DEF StreamInv, Claimed
      <4>4. QED
        BY <3>1, <4>1, <4>2, <4>3
    <3>3. QED
      BY <1>1, <2>1, <3>1, <3>2 DEF StreamInv, Claimed
  <2>3. CASE r # s
    <3>1. pc'[r] = pc[r]
      BY <1>2, <1>8, <2>3 DEF Ending
    <3>2. QED
      BY <1>1, <2>1, <3>1 DEF StreamInv, Claimed
  <2>4. QED
    BY <2>2, <2>3
<1>9. ASSUME NEW s \in Stream, Visit(s)  PROVE StreamInv(r)'
  <2>1. s.list \in List /\ mode' = mode /\ src' = src
    BY <1>9, StreamFields DEF Visit, passVars
  <2>2. r.url \in visited[r.list] => r.url \in visited'[r.list]
    BY <1>1, <1>4, <1>9 DEF Visit
  <2>3. CASE r = s
    BY <1>1, <1>2, <1>4, <1>9, <2>1, <2>3 DEF Visit, StreamInv, Claimed
  <2>4. CASE r # s
    <3>1. pc'[r] = pc[r]
      BY <1>2, <1>9, <2>4 DEF Visit
    <3>2. QED
      BY <1>1, <2>1, <2>2, <3>1 DEF StreamInv, Claimed
  <2>5. QED
    BY <2>3, <2>4
<1>10. ASSUME NEW s \in Stream, NEW k \in {"disk", "memory", "network"}, Opening(s, k)
       PROVE  StreamInv(r)'
  <2>1. mode' = mode /\ visited' = visited
    BY <1>10 DEF Opening, passVars
  <2>2. CASE r = s
    <3>1. /\ pc[r] = "getting" /\ pc'[r] = "reading" /\ src'[r] = k
          /\ mode = "cache_only" => k = "memory"
      BY <1>2, <1>3, <1>10, <2>2 DEF Opening
    <3>2. QED
      BY <1>1, <2>1, <3>1 DEF StreamInv, Claimed
  <2>3. CASE r # s
    <3>1. pc'[r] = pc[r] /\ src'[r] = src[r]
      BY <1>2, <1>3, <1>10, <2>3 DEF Opening
    <3>2. QED
      BY <1>1, <2>1, <3>1 DEF StreamInv, Claimed
  <2>4. QED
    BY <2>2, <2>3
<1>11. ASSUME NEW s \in Stream, NEW u \in Url, ReadInclude(s, u)  PROVE StreamInv(r)'
  <2>1. mode' = mode /\ visited' = visited /\ src' = src
    BY <1>11 DEF ReadInclude, passVars
  <2>2. pc'[r] = pc[r] \/ (pc[r] = "none" /\ pc'[r] = "spawned")
    BY <1>2, <1>11 DEF ReadInclude
  <2>3. QED
    BY <1>1, <2>1, <2>2 DEF StreamInv, Claimed
<1>12. QED
  BY <1>5, <1>6, <1>7, <1>8, <1>9, <1>10, <1>11 DEF Move

(* Only a visit makes a new claim, and only of a URL without one.          *)
LEMMA ClaimInvStep ==
  ASSUME IInv, Move, NEW r \in Stream, NEW s \in Stream
  PROVE  SoleClaim(r, s)'
<1>1. SoleClaim(r, s) /\ StreamInv(r) /\ StreamInv(s)
  BY DEF IInv, ClaimInv
<1>2. /\ pc \in [Stream -> {"none", "spawned", "getting", "reading", "done"}]
      /\ src \in [Stream -> {"none", "disk", "memory", "network"}]
  BY DEF IInv, TypeOK
<1>3. CASE NextPass
  BY <1>3 DEF NextPass, BeginPass, SoleClaim, Claimed
<1>4. CASE ~NextPass /\ \A t \in Stream : ~Visit(t)
  <2>1. \A t \in Stream : Claimed(t)' => Claimed(t)
    <3>1. CASE Verdict
      BY <3>1 DEF Verdict, Rebuild, Ends, streams, Claimed
    <3>2. CASE Still
      BY <3>2 DEF Still, streams, Claimed
    <3>3. CASE \E t \in Stream : Ending(t)
      BY <1>2, <3>3 DEF Ending, Claimed
    <3>4. CASE \E t \in Stream, k \in {"disk", "memory", "network"} : Opening(t, k)
      BY <1>2, <3>4 DEF Opening, Claimed
    <3>5. CASE \E t \in Stream, u \in Url : ReadInclude(t, u)
      BY <1>2, <3>5 DEF ReadInclude, Claimed
    <3>6. QED
      BY <1>4, <3>1, <3>2, <3>3, <3>4, <3>5 DEF Move
  <2>2. QED
    BY <1>1, <2>1 DEF SoleClaim
<1>5. ASSUME NEW t \in Stream, Visit(t)  PROVE SoleClaim(r, s)'
  <2>1. \A x \in Stream : Claimed(x)' => Claimed(x) \/ x = t
    BY <1>2, <1>5 DEF Visit, Claimed
  <2>2. \A x \in Stream : Claimed(x) => x.url \in visited[x.list]
    BY DEF IInv, StreamInv
  <2>3. t.url \notin visited[t.list]
    BY <1>5 DEF Visit
  <2>4. QED
    BY <1>1, <2>1, <2>2, <2>3 DEF SoleClaim
<1>6. QED
  BY <1>3, <1>4, <1>5

(* A slot is taken as a network stream opens and given back as it ends.    *)
LEMMA SlotsInvStep ==
  ASSUME IInv, Move
  PROVE  SlotsInv'
<1>1. /\ pc \in [Stream -> {"none", "spawned", "getting", "reading", "done"}]
      /\ src \in [Stream -> {"none", "disk", "memory", "network"}]
      /\ slots \in Nat
  BY NumbersAssumption DEF IInv, TypeOK
<1>2. IsFiniteSet(Fetching) /\ Cardinality(Fetching) = slots
  BY DEF IInv, SlotsInv
<1>3. \A s \in Stream : src[s] = "network" => pc[s] \in {"reading", "done"}
  BY DEF IInv, StreamInv
<1>4. ASSUME Fetching' = Fetching, slots' = slots  PROVE SlotsInv'
  BY <1>2, <1>4 DEF SlotsInv
<1>5. CASE NextPass
  <2>1. Fetching = {} /\ Fetching' = {} /\ slots' = slots
    BY <1>5 DEF NextPass, BeginPass, Fetching, IInv, PassInv
  <2>2. QED
    BY <1>4, <2>1
<1>6. CASE Verdict
  BY <1>4, <1>6 DEF Verdict, Rebuild, Ends, streams, Fetching
<1>7. CASE Still
  BY <1>4, <1>7 DEF Still, streams, Fetching
<1>8. ASSUME NEW s \in Stream, Visit(s)  PROVE SlotsInv'
  <2>1. Fetching' = Fetching
    BY <1>1, <1>8 DEF Visit, Fetching
  <2>2. QED
    BY <1>4, <1>8, <2>1 DEF Visit
<1>9. ASSUME NEW s \in Stream, NEW u \in Url, ReadInclude(s, u)  PROVE SlotsInv'
  <2>1. Fetching' = Fetching
    BY <1>1, <1>9 DEF ReadInclude, Fetching
  <2>2. QED
    BY <1>4, <1>9, <2>1 DEF ReadInclude
<1>10. ASSUME NEW s \in Stream, Ending(s)  PROVE SlotsInv'
  <2>1. CASE src[s] = "network"
    <3>1. s \in Fetching /\ Fetching' = Fetching \ {s} /\ slots' = slots - 1
      BY <1>1, <1>3, <1>10, <2>1 DEF Ending, Fetching
    <3>2. QED
      BY <1>1, <1>2, <3>1, FS_RemoveElement DEF SlotsInv
  <2>2. CASE src[s] # "network"
    <3>1. Fetching' = Fetching /\ slots' = slots
      BY <1>1, <1>10, <2>2 DEF Ending, Fetching
    <3>2. QED
      BY <1>4, <3>1
  <2>3. QED
    BY <2>1, <2>2
<1>11. ASSUME NEW s \in Stream, NEW k \in {"disk", "memory", "network"}, Opening(s, k)
       PROVE  SlotsInv'
  <2>1. CASE k = "network"
    <3>1. s \notin Fetching /\ Fetching' = Fetching \cup {s} /\ slots' = slots + 1
      BY <1>1, <1>11, <2>1 DEF Opening, Fetching
    <3>2. QED
      BY <1>1, <1>2, <3>1, FS_AddElement DEF SlotsInv
  <2>2. CASE k # "network"
    <3>1. Fetching' = Fetching /\ slots' = slots
      BY <1>1, <1>3, <1>11, <2>2 DEF Opening, Fetching
    <3>2. QED
      BY <1>4, <3>1
  <2>3. QED
    BY <2>1, <2>2
<1>12. QED
  BY <1>5, <1>6, <1>7, <1>8, <1>9, <1>10, <1>11 DEF Move

(* No more slots are taken than there are.                                 *)
LEMMA SlotsBound ==
  ASSUME IInv, Move
  PROVE  slots' \in 0..Slots
<1>1. slots \in 0..Slots /\ slots' = Cardinality(Fetching') /\ IsFiniteSet(Fetching')
  BY SlotsInvStep DEF IInv, TypeOK, SlotsInv
<1>2. slots' \in Nat
  BY <1>1, FS_CardinalityType
<1>3. slots' <= Slots
  <2>1. CASE \E s \in Stream, k \in {"disk", "memory", "network"} : Opening(s, k)
    BY <1>1, <2>1, NumbersAssumption DEF Opening
  <2>2. CASE ~\E s \in Stream, k \in {"disk", "memory", "network"} : Opening(s, k)
    <3>1. slots' = slots \/ slots' = slots - 1
      BY <2>2 DEF Move, Ending, Visit, ReadInclude, NextPass, BeginPass, Verdict,
                  Rebuild, Ends, Still
    <3>2. QED
      BY <1>1, <3>1, NumbersAssumption
  <2>3. QED
    BY <2>1, <2>2
<1>4. QED
  BY <1>2, <1>3, NumbersAssumption

-----------------------------------------------------------------------------
(* The verdict                                                             *)

(* The outcome of a pass is settled when it is accepted.                   *)
LEMMA VerdictInvStep ==
  ASSUME IInv, [Next]_vars
  PROVE  VerdictInv'
<1>1. VerdictInv /\ PassInv
  BY DEF IInv
<1>2. ASSUME NEW s \in Stream, StreamStep(s)  PROVE VerdictInv'
  <2>1. pc[s] \in {"spawned", "getting", "reading"}
    BY <1>2 DEF StreamStep, Parses, TooDeep, SkipDuplicate, Visit, GetCached,
         GetDownload, GetRevalidated, GetStale, Serve, GetFails, ReadInclude, ReadEnds,
         ReadBreaks, ReadSkipsRest, ReadFindsNothing
  <2>2. result = "building"
    BY <1>1, <2>1 DEF PassInv
  <2>3. UNCHANGED passVars
    BY <1>2 DEF StreamStep, Parses, TooDeep, SkipDuplicate, Visit, GetCached,
         GetDownload, GetRevalidated, GetStale, Serve, GetFails, ReadInclude, ReadEnds,
         ReadBreaks, ReadSkipsRest, ReadFindsNothing
  <2>4. CASE ReadBreaks(s)
    <3>1. StreamInv(s)
      BY DEF IInv
    <3>2. mode # "cache_only"
      BY <2>4, <3>1 DEF ReadBreaks, StreamInv
    <3>3. QED
      BY <2>2, <2>3, <2>4, <3>2 DEF ReadBreaks, VerdictInv, passVars
  <2>5. CASE ~ReadBreaks(s)
    <3>1. truncated' = truncated /\ partial' = partial
      BY <1>2, <2>5 DEF StreamStep, Parses, TooDeep, SkipDuplicate, Visit, GetCached,
           GetDownload, GetRevalidated, GetStale, Serve, GetFails, ReadInclude, ReadEnds,
           ReadSkipsRest, ReadFindsNothing, outcome, rules
    <3>2. QED
      BY <1>1, <2>2, <2>3, <3>1 DEF VerdictInv, passVars
  <2>6. QED
    BY <2>4, <2>5
<1>3. CASE NextPass
  BY <1>3 DEF NextPass, BeginPass, VerdictInv
<1>4. CASE Accept
  <2>1. mode = "cache_only" => Acceptable
    BY <1>1 DEF VerdictInv, Acceptable, deadlineCutOff
  <2>2. Acceptable
    BY <1>1, <1>4, <2>1 DEF Accept, PassInv
  <2>3. QED
    BY <1>1, <1>4, <2>2 DEF Accept, Ends, VerdictInv, Acceptable, deadlineCutOff,
                            ctxDone, ctxVars, outcome, rules
<1>5. CASE Rebuild \/ ConstructionFails \/ BuildAborted
  BY <1>1, <1>5 DEF Rebuild, ConstructionFails, BuildAborted, Ends, VerdictInv, outcome,
                    rules
<1>6. CASE DeadlineExpires \/ Abort
  BY <1>1, <1>6 DEF DeadlineExpires, Abort, Underway, VerdictInv, outcome, rules, passVars
<1>7. CASE Over \/ UNCHANGED vars
  BY <1>1, <1>7 DEF Over, vars, VerdictInv, Acceptable, deadlineCutOff, ctxDone, ctxVars,
                    outcome, rules, passVars
<1>8. QED
  BY <1>2, <1>3, <1>4, <1>5, <1>6, <1>7 DEF Next, PassStep

-----------------------------------------------------------------------------
(* What becomes of a URL that was visited                                  *)

(* A URL that is in the filter, or whose pass is lost, stays so while the  *)
(* pass lasts, and one without a copy gets one only with its stream.       *)
LEMMA ServedKept ==
  ASSUME IInv, NEW l \in List, NEW u \in Url, Settled(l, u),
         UNCHANGED mode, ctxDone => ctxDone', truncated => truncated', failed => failed',
         whole \subseteq whole',
         cache[u] = "none" => cache'[u] = "none" \/ u \in whole',
         OnItsWay(l, u) => Settled(l, u)'
  PROVE  Settled(l, u)'
BY DEF Settled, deadlineCutOff

(* While a pass goes on, the context only ends, the outcome only gets      *)
(* worse and the filter only grows.                                        *)
LEMMA PassGrows ==
  ASSUME IInv, NEW s \in Stream, StreamStep(s)
  PROVE  /\ UNCHANGED <<setting, mode>>
         /\ ctxDone => ctxDone'
         /\ truncated => truncated'
         /\ failed => failed'
         /\ whole \subseteq whole'
<1> USE StreamFields DEF passVars, ctxVars, outcome, rules, setting, ctxDone
<1>1. CASE TooDeep(s) \/ SkipDuplicate(s) \/ Visit(s)
  BY <1>1 DEF TooDeep, SkipDuplicate, Visit
<1>2. CASE GetCached(s) \/ GetDownload(s) \/ GetRevalidated(s) \/ GetStale(s)
  BY <1>2 DEF GetCached, GetDownload, GetRevalidated, GetStale, Serve
<1>3. CASE GetFails(s)
  BY <1>3 DEF GetFails
<1>4. CASE \E u \in Url : ReadInclude(s, u)
  BY <1>4 DEF ReadInclude
<1>5. CASE ReadEnds(s)
  BY <1>5 DEF ReadEnds
<1>6. CASE ReadBreaks(s)
  BY <1>6 DEF ReadBreaks
<1>7. CASE ReadSkipsRest(s)
  BY <1>7 DEF ReadSkipsRest
<1>8. CASE ReadFindsNothing(s)
  BY <1>8 DEF ReadFindsNothing
<1>9. QED
  BY <1>1, <1>2, <1>3, <1>4, <1>5, <1>6, <1>7, <1>8 DEF StreamStep, Parses

(* A copy comes with the rules it is written from, or replaces another.    *)
LEMMA CopyComesWithRules ==
  ASSUME IInv, NEW s \in Stream, StreamStep(s), NEW u \in Url, cache[u] = "none"
  PROVE  cache'[u] = "none" \/ u \in whole'
<1>1. cache \in [Url -> {"none", "stale", "fresh"}] /\ s.url \in Url
  BY StreamFields DEF IInv, TypeOK
<1>2. CASE ReadEnds(s) \/ ReadSkipsRest(s)
  BY <1>1, <1>2 DEF ReadEnds, ReadSkipsRest
<1>3. CASE GetRevalidated(s)
  <2>1. "stale" \in Loaded(s.url) /\ cache' = [cache EXCEPT ![s.url] = "fresh"]
    BY <1>3 DEF GetRevalidated, Requests
  <2>2. cache[s.url] = "stale"
    BY <2>1 DEF Loaded
  <2>3. QED
    BY <1>1, <2>1, <2>2
<1>4. CASE ~ReadEnds(s) /\ ~ReadSkipsRest(s) /\ ~GetRevalidated(s)
  <2>1. cache' = cache
    BY <1>4 DEF StreamStep, Parses, TooDeep, SkipDuplicate, Visit, GetCached,
         GetDownload, GetStale, GetFails, ReadInclude, ReadBreaks, ReadFindsNothing
  <2>2. QED
    BY <2>1
<1>5. QED
  BY <1>2, <1>3, <1>4

(* A URL whose Get fails has no copy, or was cut off by the end of the     *)
(* context, when the disk does not fail.                                   *)
LEMMA GetFailsSettles ==
  ASSUME IInv, faults = {}, NEW s \in Stream, GetFails(s)
  PROVE  Settled(s.list, s.url)'
<1>1. Loaded(s.url) = {cache[s.url]}
  BY DEF Loaded
<1>2. cache[s.url] \in {"none", "stale", "fresh"}
  BY StreamFields DEF IInv, TypeOK
<1>3. failed' /\ UNCHANGED <<cache, mode, expired, aborted>>
  BY <1>2 DEF GetFails, passVars, ctxVars
<1>4. CASE Requests(s, "none")
  BY <1>1, <1>3, <1>4 DEF Requests, Settled
<1>5. CASE ~Served(cache[s.url]) /\ mode = "cache_only"
  BY <1>2, <1>3, <1>5 DEF Served, Settled
<1>6. CASE ctxDone /\ mode # "cache_only"
  BY <1>3, <1>6 DEF ctxDone, deadlineCutOff, Settled
<1>7. QED
  BY <1>1, <1>4, <1>5, <1>6 DEF GetFails

(* A stream on its way goes on, ends in the filter or spoils the pass.     *)
LEMMA WaySettles ==
  ASSUME IInv, faults = {}, NEW s \in Stream, StreamStep(s),
         NEW r \in Stream, pc[r] \in {"getting", "reading"}
  PROVE  Settled(r.list, r.url)'
<1>1. pc \in [Stream -> {"none", "spawned", "getting", "reading", "done"}]
  BY DEF IInv, TypeOK
<1>2. ASSUME pc'[r] \in {"getting", "reading"}  PROVE Settled(r.list, r.url)'
  <2>1. OnItsWay(r.list, r.url)'
    BY <1>2 DEF OnItsWay
  <2>2. QED
    BY <2>1 DEF Settled
<1>3. CASE TooDeep(s) \/ SkipDuplicate(s) \/ Visit(s)
  <2>1. pc'[r] = pc[r]
    BY <1>1, <1>3 DEF TooDeep, SkipDuplicate, Visit, Finished
  <2>2. QED
    BY <1>2, <2>1
<1>4. CASE GetCached(s) \/ GetDownload(s) \/ GetRevalidated(s) \/ GetStale(s)
  <2>1. pc' = [pc EXCEPT ![s] = "reading"]
    BY <1>4 DEF GetCached, GetDownload, GetRevalidated, GetStale, Serve
  <2>2. QED
    BY <1>1, <1>2, <2>1
<1>5. CASE \E u \in Url : ReadInclude(s, u)
  <2>1. pc'[r] = pc[r]
    BY <1>1, <1>5 DEF ReadInclude
  <2>2. QED
    BY <1>2, <2>1
<1>6. ASSUME pc' = [pc EXCEPT ![s] = "done"], r # s  PROVE Settled(r.list, r.url)'
  BY <1>1, <1>2, <1>6
<1>7. CASE GetFails(s)
  <2>1. pc' = [pc EXCEPT ![s] = "done"]
    BY <1>7 DEF GetFails, Finished
  <2>2. QED
    BY <1>6, <1>7, <2>1, GetFailsSettles
<1>8. CASE ReadEnds(s) \/ ReadSkipsRest(s)
  <2>1. pc' = [pc EXCEPT ![s] = "done"] /\ s.url \in whole'
    BY <1>8 DEF ReadEnds, ReadSkipsRest, CloseStream, Finished
  <2>2. QED
    BY <1>6, <2>1 DEF Settled
<1>9. CASE ReadBreaks(s)
  <2>1. truncated'
    BY <1>9 DEF ReadBreaks
  <2>2. QED
    BY <2>1 DEF Settled
<1>10. CASE ReadFindsNothing(s)
  BY <1>10 DEF ReadFindsNothing
<1>11. QED
  BY <1>3, <1>4, <1>5, <1>7, <1>8, <1>9, <1>10 DEF StreamStep, Parses

(* A step of a stream keeps what was visited settled.                      *)
LEMMA ServedStreamStep ==
  ASSUME IInv, faults = {}, NEW s \in Stream, StreamStep(s),
         NEW l \in List, NEW u \in visited'[l]
  PROVE  Settled(l, u)'
<1>1. visited \in [List -> SUBSET Url]
  BY DEF IInv, TypeOK
<1>2. CASE u \in visited[l]
  <2>1. Settled(l, u) /\ u \in Url
    BY <1>1, <1>2 DEF IInv, ServedInv
  <2>2. OnItsWay(l, u) => Settled(l, u)'
    BY WaySettles DEF OnItsWay
  <2>3. cache[u] = "none" => cache'[u] = "none" \/ u \in whole'
    BY <2>1, CopyComesWithRules
  <2>4. QED
    BY <2>1, <2>2, <2>3, PassGrows, ServedKept
<1>3. CASE u \notin visited[l]
  <2>1. Visit(s)
    BY <1>3 DEF StreamStep, Parses, TooDeep, SkipDuplicate, GetCached, GetDownload,
         GetRevalidated, GetStale, Serve, GetFails, ReadInclude, ReadEnds, ReadBreaks,
         ReadSkipsRest, ReadFindsNothing
  <2>2. s.list = l /\ s.url = u /\ pc'[s] = "getting"
    BY <1>1, <1>3, <2>1, StreamFields DEF Visit, IInv, TypeOK
  <2>3. QED
    BY <2>2 DEF OnItsWay, Settled
<1>4. QED
  BY <1>2, <1>3

(* The next pass has visited nothing; else nothing is lost.                *)
LEMMA ServedInvStep ==
  ASSUME IInv, [Next]_vars
  PROVE  ServedInv'
<1>1. SUFFICES ASSUME faults' = {}, NEW l \in List, NEW u \in visited'[l]
               PROVE  Settled(l, u)'
  BY DEF ServedInv
<1>2. faults = {}
  BY <1>1 DEF Next, StreamStep, Parses, TooDeep, SkipDuplicate, Visit, GetCached,
       GetDownload, GetRevalidated, GetStale, Serve, GetFails, ReadInclude, ReadEnds,
       ReadBreaks, ReadSkipsRest, ReadFindsNothing, PassStep, NextPass, BeginPass, Accept,
       Rebuild, ConstructionFails, BuildAborted, Ends, DeadlineExpires, Abort, Over,
       vars, passVars, setting
<1>3. CASE \E s \in Stream : StreamStep(s)
  BY <1>1, <1>2, <1>3, ServedStreamStep
<1>4. CASE NextPass
  BY <1>1, <1>4 DEF NextPass, BeginPass
<1>5. CASE ~NextPass /\ ~\E s \in Stream : StreamStep(s)
  <2>1. /\ UNCHANGED <<mode, truncated, failed, visited, pc, whole, cache>>
        /\ ctxDone => ctxDone'
    BY <1>5 DEF Next, PassStep, Accept, Rebuild, ConstructionFails, BuildAborted, Ends,
         DeadlineExpires, Abort, Over, vars, passVars, outcome, streams, rules, ctxVars,
         ctxDone
  <2>2. Settled(l, u)
    BY <1>1, <1>2, <2>1 DEF IInv, ServedInv
  <2>3. QED
    BY <2>1, <2>2 DEF Settled, deadlineCutOff, OnItsWay
<1>6. QED
  BY <1>3, <1>4, <1>5

-----------------------------------------------------------------------------
(* The theorems                                                            *)

(* The invariant holds of a build that begins.                             *)
LEMMA InitInv == Init => IInv
<1> SUFFICES ASSUME Init PROVE IInv
  OBVIOUS
<1>1. TypeOK
  <2>1. PassTypes
    BY Ladder DEF Init, PassTypes
  <2>2. StreamTypes
    BY DEF Init, StreamTypes
  <2>3. DataTypes
    BY DEF Init, DataTypes
  <2>4. slots \in 0..Slots
    BY NumbersAssumption DEF Init
  <2>5. QED
    BY <2>1, <2>2, <2>3, <2>4 DEF TypeOK, PassTypes, StreamTypes, DataTypes
<1>2. PassInv
  BY Ladder DEF Init, PassInv, LastPass
<1>3. \A s \in Stream : StreamInv(s)
  BY DEF Init, StreamInv, Claimed
<1>4. ClaimInv
  BY DEF Init, ClaimInv, SoleClaim, Claimed
<1>5. SlotsInv
  <2>1. Fetching = {} /\ slots = 0
    BY DEF Init, Fetching
  <2>2. QED
    BY <2>1, FS_EmptySet DEF SlotsInv
<1>6. VerdictInv /\ ServedInv
  BY DEF Init, VerdictInv, ServedInv
<1>7. QED
  BY <1>1, <1>2, <1>3, <1>4, <1>5, <1>6 DEF IInv

(* Every step preserves the invariant.                                     *)
LEMMA StepInv ==
  ASSUME IInv, [Next]_vars
  PROVE  IInv'
<1>1. Move
  BY MoveOfStep DEF IInv
<1>2. TypeOK'
  <2>1. PassTypes /\ StreamTypes /\ DataTypes
    BY DEF IInv, TypeOK, PassTypes, StreamTypes, DataTypes
  <2>2. PassTypes' /\ StreamTypes' /\ DataTypes'
    BY <1>1, <2>1, PassTypesStep, StreamTypesStep, DataTypesStep DEF IInv
  <2>3. slots' \in 0..Slots
    BY <1>1, SlotsBound
  <2>4. QED
    BY <2>2, <2>3 DEF TypeOK, PassTypes, StreamTypes, DataTypes
<1>3. PassInv'
  BY <1>1, PassInvStep DEF IInv
<1>4. (\A s \in Stream : StreamInv(s))'
  BY <1>1, StreamInvStep DEF IInv
<1>5. ClaimInv'
  BY <1>1, ClaimInvStep DEF ClaimInv
<1>6. SlotsInv' /\ VerdictInv' /\ ServedInv'
  BY <1>1, SlotsInvStep, VerdictInvStep, ServedInvStep
<1>7. QED
  BY <1>2, <1>3, <1>4, <1>5, <1>6 DEF IInv

(* The invariant holds in every state a build can reach.                   *)
LEMMA Invariant == Spec => []IInv
<1>1. Init => IInv
  BY InitInv
<1>2. IInv /\ [Next]_vars => IInv'
  BY StepInv
<1>3. QED
  BY <1>1, <1>2, PTL DEF Spec

(* Every variable of a build has its type: the passes stay on the ladder   *)
(* and the streams within the fetch slots.                                 *)
THEOREM TypeCorrect == Spec => []TypeOK
<1>1. IInv => TypeOK
  BY DEF IInv
<1>2. QED
  BY <1>1, Invariant, PTL

(* An accepted filter holds no cut-off list and, when neither disk nor     *)
(* server fails, every list it asked for that the store has a copy of:     *)
(* the verdict of buildFilter over the outcomes AddURL merges.             *)
THEOREM AcceptedFilterIsComplete == Spec => []AcceptedIsComplete
<1>1. IInv => AcceptedIsWhole
  BY DEF IInv, VerdictInv, Acceptable, AcceptedIsWhole
<1>2. IInv => CachedListsAreServed
  <2>1. SUFFICES ASSUME IInv, result = "accepted", faults = {}, NEW s \in Stream,
                        pc[s] # "none", s.depth <= MaxDepth, cache[s.url] # "none"
                 PROVE  s.url \in whole
    BY DEF CachedListsAreServed, NoCopyIsLost
  <2>2. Acceptable /\ \A r \in Stream : pc[r] \in {"none", "done"}
    BY <2>1 DEF IInv, VerdictInv, PassInv
  <2>3. s.url \in visited[s.list]
    BY <2>1, <2>2 DEF IInv, StreamInv
  <2>4. Settled(s.list, s.url)
    BY <2>1, <2>3, StreamFields DEF IInv, ServedInv
  <2>5. QED
    BY <2>1, <2>2, <2>4 DEF Settled, OnItsWay, Acceptable
<1>3. IInv => AcceptedIsComplete
  BY <1>1, <1>2 DEF AcceptedIsComplete
<1>4. QED
  BY <1>3, Invariant, PTL

(* Within a pass no list fetches a URL twice, whatever paths and cycles of *)
(* includes lead to it: the visited set of parseURL.                       *)
THEOREM EachIsFetchedOnce == Spec => []FetchedOnce
<1>1. IInv => FetchedOnce
  <2>1. SUFFICES ASSUME IInv, NEW r \in Stream, NEW s \in Stream,
                        r # s, r.list = s.list, r.url = s.url
                 PROVE  "none" \in {src[r], src[s]}
    BY DEF FetchedOnce
  <2>2. QED
    BY <2>1 DEF IInv, ClaimInv, SoleClaim, Claimed
<1>2. QED
  BY <1>1, Invariant, PTL

(* A pass that reads only the cache is the last one of its build.          *)
THEOREM TheCacheEndsTheLadder == Spec => []CacheOnlyPassIsLast
<1>1. IInv => CacheOnlyPassIsLast
  BY DEF IInv, PassInv, CacheOnlyPassIsLast
<1>2. QED
  BY <1>1, Invariant, PTL

(* A stream that need not wait for a slot: it has none to take, or one is  *)
(* free, or its context has ended.                                         *)
NeedsNoSlot(s) ==
  \/ pc[s] \in {"spawned", "reading"}
  \/ pc[s] = "getting" /\ (Served(cache[s.url]) \/ mode = "cache_only" \/ ctxDone)
  \/ pc[s] = "getting" /\ slots < Slots

SomeStreamGoesOn ==
  result = "building" => PassDone \/ \E s \in Stream : NeedsNoSlot(s)

(* In a pass that is not done some stream is not waiting for a slot: when  *)
(* all of them are taken, those who hold them are reading.  It is why one  *)
(* fetch slot is enough for any depth of includes.                         *)
THEOREM SlotsCannotDeadlock == Spec => []SomeStreamGoesOn
<1>1. IInv => SomeStreamGoesOn
  <2>1. SUFFICES ASSUME IInv, result = "building", ~PassDone,
                        \A s \in Stream : ~NeedsNoSlot(s)
                 PROVE  FALSE
    BY DEF SomeStreamGoesOn
  <2>2. PICK s \in Stream : pc[s] \notin {"none", "done"}
    BY <2>1 DEF PassDone
  <2>3. pc[s] = "getting" /\ ~(slots < Slots)
    BY <2>1, <2>2 DEF NeedsNoSlot, IInv, TypeOK
  <2>4. Cardinality(Fetching) # 0
    BY <2>1, <2>3, NumbersAssumption DEF IInv, TypeOK, SlotsInv
  <2>5. Fetching # {}
    BY <2>4, FS_EmptySet
  <2>6. PICK r \in Stream : pc[r] = "reading"
    BY <2>5 DEF Fetching
  <2>7. QED
    BY <2>1, <2>6 DEF NeedsNoSlot
<1>2. QED
  BY <1>1, Invariant, PTL

-----------------------------------------------------------------------------
(* Which lines of a list a build reads: Directives, for blocks of any      *)
(* depth and lines in any order                                            *)

(* The open blocks that apply are the outer ones, and the first that does  *)
(* not is what the skipped ones are counted from.                          *)
Counted ==
  \E a, k \in Nat :
    /\ dirs = Counters(a, k)
    /\ blocks \in Seq({"applies", "hidden"})
    /\ Len(blocks) = a + k
    /\ \A i \in 1..a : blocks[i] = "applies"
    /\ k > 0 => blocks[a + 1] = "hidden"

(* Every directive keeps the counters and the blocks together, a second    *)
(* !#else and an !#endif too many included.                                *)
LEMMA DirectiveCounts == Counted /\ [DirectiveLine]_<<dirs, blocks>> => Counted'
<1> SUFFICES ASSUME NEW a \in Nat, NEW k \in Nat,
                    dirs = Counters(a, k), blocks \in Seq({"applies", "hidden"}),
                    Len(blocks) = a + k,
                    \A i \in 1..a : blocks[i] = "applies",
                    k > 0 => blocks[a + 1] = "hidden",
                    [DirectiveLine]_<<dirs, blocks>>
             PROVE  Counted'
  BY DEF Counted
<1> DEFINE n == Len(blocks)
<1>a. dirs.applied = a /\ dirs.skipped = k
  BY DEF Counters
<1>1. ASSUME NEW holds \in BOOLEAN, IfLine(holds, holds)  PROVE Counted'
  <2>1. /\ Len(blocks') = n + 1 /\ blocks' \in Seq({"applies", "hidden"})
        /\ blocks'[n + 1] = Branch(holds)
        /\ \A i \in 1..n : blocks'[i] = blocks[i]
    BY <1>1 DEF IfLine, Branch
  <2>2. CASE k > 0 \/ ~holds
    <3>1. dirs' = Counters(a, k + 1)
      BY <1>1, <1>a, <2>2 DEF IfLine, If
    <3>2. blocks'[a + 1] = "hidden"
      BY <2>1, <2>2 DEF Branch
    <3>3. QED
      BY <2>1, <3>1, <3>2 DEF Counted
  <2>3. CASE k = 0 /\ holds
    <3>1. dirs' = Counters(a + 1, k)
      BY <1>1, <1>a, <2>3 DEF IfLine, If
    <3>2. \A i \in 1..(a + 1) : blocks'[i] = "applies"
      BY <2>1, <2>3 DEF Branch
    <3>3. QED
      BY <2>1, <2>3, <3>1, <3>2 DEF Counted
  <2>4. QED
    BY <2>2, <2>3
<1>2. CASE ElseLine
  <2>1. /\ blocks' \in Seq({"applies", "hidden"}) /\ Len(blocks') = n
        /\ \A i \in 1..n :
             blocks'[i] = IF i = n THEN Branch(blocks[i] = "hidden") ELSE blocks[i]
    BY <1>2 DEF ElseLine, Branch
  <2>2. CASE k = 1
    <3>1. dirs' = Counters(a + 1, 0)
      BY <1>2, <1>a, <2>2 DEF ElseLine, Else
    <3>2. \A i \in 1..(a + 1) : blocks'[i] = "applies"
      BY <2>1, <2>2 DEF Branch
    <3>3. QED
      BY <2>1, <2>2, <3>1, <3>2 DEF Counted
  <2>3. CASE k = 0 /\ a > 0
    <3>1. dirs' = Counters(a - 1, 1)
      BY <1>2, <1>a, <2>3 DEF ElseLine, Else
    <3>2. blocks'[a] = "hidden" /\ \A i \in 1..(a - 1) : blocks'[i] = "applies"
      BY <2>1, <2>3 DEF Branch
    <3>3. QED
      BY <2>1, <2>3, <3>1, <3>2 DEF Counted
  <2>4. CASE k > 1 \/ (k = 0 /\ a = 0)
    <3>1. dirs' = Counters(a, k)
      BY <1>2, <1>a, <2>4 DEF ElseLine, Else
    <3>2. QED
      BY <2>1, <2>4, <3>1 DEF Counted
  <2>5. QED
    BY <2>2, <2>3, <2>4
<1>3. CASE EndIfLine
  <2>1. CASE n = 0
    <3>1. dirs' = Counters(a, k) /\ blocks' = blocks
      BY <1>3, <1>a, <2>1 DEF EndIfLine, EndIf
    <3>2. QED
      BY <3>1 DEF Counted
  <2>2. CASE n # 0
    <3>1. /\ blocks' \in Seq({"applies", "hidden"}) /\ Len(blocks') = n - 1
          /\ \A i \in 1..(n - 1) : blocks'[i] = blocks[i]
      BY <1>3, <2>2 DEF EndIfLine
    <3>2. CASE k > 0
      <4>1. dirs' = Counters(a, k - 1)
        BY <1>3, <1>a, <3>2 DEF EndIfLine, EndIf
      <4>2. QED
        BY <3>1, <3>2, <4>1 DEF Counted
    <3>3. CASE k = 0
      <4>1. dirs' = Counters(a - 1, 0) /\ a > 0
        BY <1>3, <1>a, <2>2, <3>3 DEF EndIfLine, EndIf
      <4>2. QED
        BY <3>1, <3>3, <4>1 DEF Counted
    <3>4. QED
      BY <3>2, <3>3
  <2>3. QED
    BY <2>1, <2>2
<1>4. CASE NextListBegins
  BY <1>4 DEF NextListBegins, NoBlocks, Counted
<1>5. CASE UNCHANGED <<dirs, blocks>>
  BY <1>5 DEF Counted
<1>6. QED
  BY <1>1, <1>2, <1>3, <1>4, <1>5 DEF DirectiveLine

(* A line applies if each of the blocks that it stands in is in the branch  *)
(* whose condition holds, and the list's end finds open what is open: two   *)
(* counters are enough for it (directives.skip, directives.open).           *)
THEOREM TwoCountersAreEnough == ListOfDirectives => []LinesApply
<1>1. ListBegins => Counted
  BY DEF ListBegins, NoBlocks, Counted
<1>2. Counted => LinesApply
  BY DEF Counted, Counters, Open, Skip, AllApply, LinesApply
<1>3. QED
  BY <1>1, <1>2, DirectiveCounts, PTL DEF ListOfDirectives

-----------------------------------------------------------------------------
(* What a filter's lines do to exchanges: LineByLine, for any lines,       *)
(* requests, responses and connections, and any meaning of patterns        *)

CONSTANTS Lines, PatternMatches(_, _)

VARIABLES phase, applied

ByLine == INSTANCE LineByLine

(* A rule that was found for a request: it is a line's, and its pattern and *)
(* its modifiers match.                                                    *)
FoundFor(r, req) ==
  \E exc, pattern, mods :
    /\ r = ByLine!RuleOf(ByLine!NetworkLine(exc, pattern, mods))
    /\ ByLine!ParseModifiers(mods).ok
    /\ PatternMatches(pattern, ByLine!RenderURL(req))
    /\ ByLine!ShouldMatchReq(r.mods, req)

(* Whoever may yet be stopped was found out by rules that match, and began *)
(* with what was allowed then; and nobody is stopped by that.              *)
ExchangeOK(k) ==
  /\ k.step = "matched" => k.before \subseteq allowed /\ \A r \in k.found : FoundFor(r, k.req)
  /\ k.step \in {"page", "blocked"} => k.by \notin k.before

ExchangesOK ==
  /\ client = [c \in Clients |-> client[c]]
  /\ \A c \in Clients : ExchangeOK(client[c])
  /\ \A lt \in applied :
       lt[1].kind = "network" => \E exc, pattern, mods :
                                    lt[1] = ByLine!NetworkLine(exc, pattern, mods)

(* An exception that is a rule's very like cancels it.                     *)
LEMMA LikeCancelsLike == \A mods : ByLine!Cancels(mods, mods)
BY DEF ByLine!Cancels, ByLine!CancelsModifier

(* The exception that the block page makes of a line.                      *)
LEMMA AsException ==
  \A exc, new, pattern, mods :
    [ByLine!NetworkLine(exc, pattern, mods) EXCEPT !.exc = new]
      = ByLine!NetworkLine(new, pattern, mods)
BY DEF ByLine!NetworkLine

(* Whatever kind of line is loaded, network lines come of it.              *)
LEMMA LoadedLines ==
  ASSUME ExchangesOK, NEW l \in ByLine!Loaded
  PROVE  \E exc, pattern, mods : l = ByLine!NetworkLine(exc, pattern, mods)
<1>1. PICK lt \in applied : l \in ByLine!NetworkLines(lt[1])
  BY DEF ByLine!Loaded
<1>2. CASE lt[1].kind = "network"
  BY <1>1, <1>2 DEF ExchangesOK, ByLine!NetworkLines
<1>3. CASE lt[1].kind # "network"
  BY <1>1, <1>3 DEF ByLine!NetworkLines
<1>4. QED
  BY <1>2, <1>3

(* A request is matched with rules that match it.                          *)
LEMMA RequestFinds ==
  ASSUME ExchangesOK, NEW c \in Clients, NEW req,
         ByLine!Request(c, req, ByLine!Matching(FALSE, ByLine!RenderURL(req)))
  PROVE  /\ allowed' = allowed /\ client' = [client EXCEPT ![c] = client'[c]]
         /\ ExchangeOK(client[c])'
<1> DEFINE matching == ByLine!Matching(FALSE, ByLine!RenderURL(req))
           found == {r \in matching : ByLine!ShouldMatchReq(r.mods, req)}
<1>1. /\ client' = [client EXCEPT ![c] =
             [step |-> IF found = {} THEN "pass" ELSE "matched", req |-> req, found |-> found,
              excs |-> {}, before |-> allowed]]
      /\ allowed' = allowed
  BY DEF ByLine!Request
<1>2. ASSUME NEW r \in found  PROVE FoundFor(r, req)
  <2>1. PICK l \in ByLine!Loaded : /\ r = ByLine!RuleOf(l) /\ ByLine!ParseModifiers(l.mods).ok
                                   /\ PatternMatches(l.pattern, ByLine!RenderURL(req))
    BY <1>2 DEF ByLine!Matching
  <2>2. PICK exc, pattern, mods : l = ByLine!NetworkLine(exc, pattern, mods)
    BY LoadedLines
  <2>3. l.mods = mods /\ l.pattern = pattern
    BY <2>2 DEF ByLine!NetworkLine
  <2>4. QED
    BY <1>2, <2>1, <2>2, <2>3 DEF FoundFor
<1> HIDE DEF found
<1>3. client'[c] = [step |-> IF found = {} THEN "pass" ELSE "matched", req |-> req,
                    found |-> found, excs |-> {}, before |-> allowed]
  BY <1>1 DEF ExchangesOK
<1>4. client' = [client EXCEPT ![c] = client'[c]]
  BY <1>1, <1>3
<1>5. client'[c].step = "matched" =>
        client'[c].before = allowed /\ client'[c].found = found /\ client'[c].req = req
  BY <1>3
<1>6. client'[c].step \notin {"page", "blocked"}
  BY <1>3
<1>7. ExchangeOK(client[c])'
  BY <1>1, <1>2, <1>5, <1>6 DEF ExchangeOK, FoundFor
<1>8. QED
  BY <1>1, <1>4, <1>7

(* A rule that stops a request was not allowed when the request began: its  *)
(* exception would have been found with it, and cancelled it.               *)
LEMMA StoppedByTheRest ==
  ASSUME ExchangesOK, NEW c \in Clients, client[c].step = "matched",
         ByLine!ModifyReq(c, ByLine!Matching(TRUE, ByLine!RenderURL(client[c].req)))
  PROVE  /\ allowed' = allowed /\ client' = [client EXCEPT ![c] = client'[c]]
         /\ ExchangeOK(client[c])'
<1> DEFINE k == client[c]
           matching == ByLine!Matching(TRUE, ByLine!RenderURL(k.req))
           excs == {r \in matching : ByLine!ShouldMatchReq(r.mods, k.req)}
           left == ByLine!Survivors(k.found, excs)
<1>1. ASSUME NEW r \in left  PROVE r.line \notin k.before
  <2>1. SUFFICES ASSUME r.line \in allowed  PROVE FALSE
    BY DEF ExchangesOK, ExchangeOK
  <2>2. r \in k.found /\ \A e \in excs : ~ByLine!Cancels(e.mods, r.mods)
    BY <1>1 DEF ByLine!Survivors
  <2>3. PICK exc, pattern, mods :
          /\ r = ByLine!RuleOf(ByLine!NetworkLine(exc, pattern, mods))
          /\ ByLine!ParseModifiers(mods).ok
          /\ PatternMatches(pattern, ByLine!RenderURL(k.req))
          /\ ByLine!ShouldMatchReq(r.mods, k.req)
    BY <2>2 DEF ExchangesOK, ExchangeOK, FoundFor
  <2> DEFINE e == ByLine!NetworkLine(TRUE, pattern, mods)
  <2>4. /\ r.line = ByLine!NetworkLine(exc, pattern, mods)
        /\ r.mods = ByLine!ParseModifiers(mods).mods
    BY <2>3 DEF ByLine!RuleOf, ByLine!NetworkLine
  <2>5. e = [r.line EXCEPT !.exc = TRUE]
    <3>1. [ByLine!NetworkLine(exc, pattern, mods) EXCEPT !.exc = TRUE] = e
      <4>1. \A new : [ByLine!NetworkLine(exc, pattern, mods) EXCEPT !.exc = new]
                       = ByLine!NetworkLine(new, pattern, mods)
        BY AsException
      <4>2. QED
        BY <4>1, Zenon
    <3>2. r.line = ByLine!NetworkLine(exc, pattern, mods)
      BY <2>4
    <3> HIDE DEF e
    <3>3. QED
      BY <3>1, <3>2, Zenon
  <2>6. e \in ByLine!Exceptions
    BY <2>1, <2>5 DEF ByLine!Exceptions
  <2>7. e.exc = TRUE /\ e.mods = mods /\ e.pattern = pattern
    BY DEF ByLine!NetworkLine
  <2>8. ByLine!RuleOf(e) \in matching /\ ByLine!RuleOf(e).mods = r.mods
    BY <2>3, <2>4, <2>6, <2>7 DEF ByLine!Matching, ByLine!RuleOf
  <2>9. ByLine!RuleOf(e) \in excs
    BY <2>3, <2>8
  <2>10. QED
    BY <2>2, <2>8, <2>9, LikeCancelsLike
<1>2. /\ allowed' = allowed
      /\ \/ \E r \in left, step \in {"page", "blocked"} :
              client' = [client EXCEPT ![c] = [step |-> step, req |-> k.req, excs |-> excs,
                                               before |-> k.before, by |-> r.line]]
         \/ \E req : \E step \in {"redirect", "pass"} :
              client' = [client EXCEPT ![c] = [step |-> step, req |-> req, excs |-> excs,
                                               before |-> k.before]]
  BY DEF ByLine!ModifyReq
<1> HIDE DEF excs, left
<1>3. CASE \E r \in left, step \in {"page", "blocked"} :
              client' = [client EXCEPT ![c] = [step |-> step, req |-> k.req, excs |-> excs,
                                               before |-> k.before, by |-> r.line]]
  BY <1>1, <1>2, <1>3 DEF ExchangesOK, ExchangeOK
<1>4. CASE \E req : \E step \in {"redirect", "pass"} :
              client' = [client EXCEPT ![c] = [step |-> step, req |-> req, excs |-> excs,
                                               before |-> k.before]]
  BY <1>2, <1>4 DEF ExchangesOK, ExchangeOK
<1>5. QED
  BY <1>2, <1>3, <1>4

(* Each step keeps the exchanges as ExchangesOK says.                      *)
LEMMA ExchangesStep == ExchangesOK /\ [ByLine!Next]_<<phase, applied, ByLine!exchanges>> => ExchangesOK'
<1> SUFFICES ASSUME ExchangesOK, [ByLine!Next]_<<phase, applied, ByLine!exchanges>>
             PROVE  ExchangesOK'
  OBVIOUS
<1>1. CASE ByLine!Apply
  <2>1. /\ UNCHANGED <<client, allowed>>
        /\ \A lt \in applied' :
             lt \in applied \/ (lt[1].kind = "network" =>
                                  \E exc, pattern, mods : lt[1] = ByLine!NetworkLine(exc, pattern, mods))
    BY <1>1 DEF ByLine!Apply, ByLine!exchanges
  <2>2. \A lt \in applied' :
          lt[1].kind = "network" =>
            \E exc, pattern, mods : lt[1] = ByLine!NetworkLine(exc, pattern, mods)
    BY <2>1 DEF ExchangesOK
  <2>3. \A c \in Clients : ExchangeOK(client[c])'
    BY <2>1 DEF ExchangesOK, ExchangeOK, FoundFor
  <2>4. QED
    BY <2>1, <2>2, <2>3 DEF ExchangesOK
<1>2. CASE ByLine!Serve
  BY <1>2 DEF ByLine!Serve, ByLine!exchanges, ExchangesOK, ExchangeOK
<1>3. ASSUME NEW c \in Clients, ByLine!Handle(c), UNCHANGED <<phase, applied>>
      PROVE  ExchangesOK'
  <2>1. SUFFICES /\ allowed \subseteq allowed' /\ client' = [client EXCEPT ![c] = client'[c]]
                 /\ ExchangeOK(client[c])'
    BY <1>3 DEF ExchangesOK, ExchangeOK
  <2>2. ASSUME NEW req, ByLine!Request(c, req, ByLine!Matching(FALSE, ByLine!RenderURL(req)))
        PROVE  /\ allowed' = allowed /\ client' = [client EXCEPT ![c] = client'[c]]
               /\ ExchangeOK(client[c])'
    BY <2>2, RequestFinds
  <2>3. CASE /\ client[c].step = "matched"
             /\ ByLine!ModifyReq(c, ByLine!Matching(TRUE, ByLine!RenderURL(client[c].req)))
    BY <2>3, StoppedByTheRest
  <2>4. CASE ByLine!Allow(c)
    BY <2>4 DEF ByLine!Allow, ExchangesOK, ExchangeOK
  <2>5. ASSUME NEW res, NEW matching, NEW assets, ByLine!Respond(c, res, matching, assets)
        PROVE  /\ allowed' = allowed /\ client' = [client EXCEPT ![c] = client'[c]]
               /\ ExchangeOK(client[c])'
    BY <2>5 DEF ByLine!Respond, ExchangesOK, ExchangeOK
  <2>6. ASSUME NEW matching, ByLine!ModifyRes(c, matching)
        PROVE  /\ allowed' = allowed /\ client' = [client EXCEPT ![c] = client'[c]]
               /\ ExchangeOK(client[c])'
    BY <2>6 DEF ByLine!ModifyRes, ExchangesOK, ExchangeOK
  <2>7. CASE ByLine!Finish(c)
    BY <2>7 DEF ByLine!Finish, ByLine!Idle, ExchangesOK, ExchangeOK
  <2>8. QED
    BY <1>3, <2>2, <2>3, <2>4, <2>5, <2>6, <2>7 DEF ByLine!Handle
<1>4. CASE UNCHANGED <<phase, applied, ByLine!exchanges>>
  BY <1>4 DEF ByLine!exchanges, ExchangesOK, ExchangeOK
<1>5. QED
  BY <1>1, <1>2, <1>3, <1>4 DEF ByLine!Next

(* Whoever allowed a rule from a block page is not stopped by it again,     *)
(* whatever the patterns and the modifiers, on whichever connection         *)
(* (handleAllow, ExceptionRule.Cancels, NetworkRules.ModifyReq).            *)
THEOREM AllowedStaysAllowed == ByLine!Spec => []AllowUnblocks
<1>1. ByLine!Init => ExchangesOK
  BY DEF ByLine!Init, ByLine!NoExchanges, ByLine!Idle, ExchangesOK, ExchangeOK
<1>2. ExchangesOK => AllowUnblocks
  BY DEF ExchangesOK, ExchangeOK, AllowUnblocks
<1>3. QED
  BY <1>1, <1>2, ExchangesStep, PTL DEF ByLine!Spec

-----------------------------------------------------------------------------
(* Which data apply to a host: HostMatch, for any lists and hosts          *)

(* Every non-empty set of numbers has a least one.                         *)
LEMMA Least ==
  ASSUME NEW T, T \subseteq Nat, T # {}
  PROVE  \E n \in T : \A m \in T : ~(m < n)
<1>1. IsWellFoundedOn(OpToRel(<, Nat), Nat)
  BY NatLessThanWellFounded
<1>2. \E x \in T : \A y \in T : <<y, x>> \notin OpToRel(<, Nat)
  BY <1>1, WFMin
<1>3. QED
  BY <1>2 DEF OpToRel

(* Induction, for a set of numbers.                                        *)
LEMMA Induction ==
  ASSUME NEW S, 0 \in S, \A n \in Nat : n \in S => n + 1 \in S
  PROVE  \A n \in Nat : n \in S
<1> DEFINE T == Nat \ S
<1>1. SUFFICES ASSUME T # {} PROVE FALSE
  OBVIOUS
<1>2. \E n \in T : \A m \in T : ~(m < n)
  <2> HIDE DEF T
  <2>1. T \subseteq Nat
    BY DEF T
  <2>2. QED
    BY <1>1, <2>1, Least
<1>3. PICK n \in T : \A m \in T : ~(m < n)
  BY <1>2
<1>4. n # 0 /\ n - 1 \in Nat
  OBVIOUS
<1>5. n - 1 \in S
  BY <1>3, <1>4
<1>6. QED
  BY <1>4, <1>5

(* A recursive definition up to n: its steps, and what they make of b.     *)
StepsIn(V, n, step) == \A k \in 1..n : \A v \in V : step[k][v] \in V
Iterates(f, b, n, step) == f[0] = b /\ \A k \in 1..n : f[k] = step[k][f[k - 1]]

(* A function is defined by it if the steps stay in a set of values.       *)
LEMMA Recursion ==
  ASSUME NEW n \in Nat, NEW V, NEW b \in V, NEW step, StepsIn(V, n, step)
  PROVE  \E f \in [0..n -> V] : Iterates(f, b, n, step)
<1> DEFINE S == {m \in Nat : m <= n => \E f \in [0..m -> V] : Iterates(f, b, m, step)}
<1>1. 0 \in S
  <2> DEFINE f == [k \in 0..0 |-> b]
  <2>1. f \in [0..0 -> V] /\ f[0] = b /\ 1..0 = {}
    OBVIOUS
  <2> HIDE DEF f
  <2>2. QED
    BY <2>1 DEF Iterates
<1>2. ASSUME NEW m \in Nat, m \in S  PROVE m + 1 \in S
  <2>1. SUFFICES ASSUME m + 1 <= n PROVE \E f \in [0..m + 1 -> V] : Iterates(f, b, m + 1, step)
    OBVIOUS
  <2>2. PICK f \in [0..m -> V] : Iterates(f, b, m, step)
    BY <1>2, <2>1
  <2> DEFINE g == [k \in 0..(m + 1) |-> IF k = m + 1 THEN step[m + 1][f[m]] ELSE f[k]]
  <2>3. step[m + 1][f[m]] \in V
    BY <2>1 DEF StepsIn
  <2>4. g \in [0..(m + 1) -> V]
    BY <2>3
  <2>5. g[0] = b
    BY <2>2 DEF Iterates
  <2>6. ASSUME NEW k \in 1..(m + 1)  PROVE g[k] = step[k][g[k - 1]]
    <3>1. k - 1 \in 0..m /\ g[k - 1] = f[k - 1]
      OBVIOUS
    <3>2. CASE k = m + 1
      BY <3>1, <3>2
    <3>3. CASE k # m + 1
      <4>1. k \in 1..m /\ g[k] = f[k]
        BY <3>3
      <4>2. QED
        BY <2>2, <3>1, <4>1 DEF Iterates
    <3>4. QED
      BY <3>2, <3>3
  <2>7. Iterates(g, b, m + 1, step)
    BY <2>5, <2>6 DEF Iterates
  <2>8. QED
    BY <2>4, <2>7
<1>3. \A m \in Nat : m \in S
  <2> HIDE DEF S
  <2>1. QED
    BY <1>1, <1>2, Induction
<1>4. QED
  BY <1>3

-----------------------------------------------------------------------------
(* The pattern p takes the first k segments of h.                          *)
Laid(p, h, k) ==
  \E at \in [0..Len(p) -> 0..Len(h)] : LaidAlong(at, p, h) /\ at[Len(p)] = k

(* Only the empty pattern takes no segment.                                *)
LEMMA LaidNothing ==
  ASSUME NEW Segment, NEW p \in Seq(Segment), NEW h \in Seq(Segment)
  PROVE  Laid(p, h, 0) <=> p = <<>>
<1>1. ASSUME p = <<>>  PROVE Laid(p, h, 0)
  <2> DEFINE at == [i \in 0..0 |-> 0]
  <2>1. at \in [0..0 -> 0..Len(h)] /\ at[0] = 0 /\ Len(p) = 0 /\ 1..0 = {}
    BY <1>1
  <2> HIDE DEF at
  <2>2. QED
    BY <2>1 DEF Laid, LaidAlong
<1>2. ASSUME Laid(p, h, 0), p # <<>>  PROVE FALSE
  <2>1. PICK at \in [0..Len(p) -> 0..Len(h)] : LaidAlong(at, p, h) /\ at[Len(p)] = 0
    BY <1>2 DEF Laid
  <2>2. Len(p) \in 1..Len(p) /\ at[Len(p) - 1] \in Nat
    BY <1>2
  <2>3. at[Len(p)] > at[Len(p) - 1]
    BY <2>1, <2>2 DEF LaidAlong
  <2>4. QED
    BY <2>1, <2>2, <2>3
<1>3. QED
  BY <1>1, <1>2

(* A pattern followed by the next segment, or by *, takes that one too.    *)
LEMMA LaidFurther ==
  ASSUME NEW Segment, NEW q \in Seq(Segment), NEW h \in Seq(Segment), NEW k \in 1..Len(h),
         NEW c \in {"*", h[k]}, c \in Segment, Laid(q, h, k - 1)
  PROVE  Laid(Append(q, c), h, k)
<1> DEFINE n == Len(q)
<1>1. PICK at \in [0..n -> 0..Len(h)] : LaidAlong(at, q, h) /\ at[n] = k - 1
  BY DEF Laid
<1> DEFINE p == Append(q, c)
           on == [i \in 0..(n + 1) |-> IF i = n + 1 THEN k ELSE at[i]]
<1>2. n \in Nat /\ Len(p) = n + 1 /\ p[n + 1] = c /\ \A i \in 1..n : p[i] = q[i]
  OBVIOUS
<1>3. on \in [0..(n + 1) -> 0..Len(h)]
  OBVIOUS
<1>4. on[0] = 0 /\ on[n + 1] = k /\ \A i \in 0..n : on[i] = at[i]
  BY <1>1 DEF LaidAlong
<1> HIDE DEF p, on
<1>5. ASSUME NEW i \in 1..(n + 1)
      PROVE  IF p[i] = "*" THEN on[i] > on[i - 1]
                           ELSE on[i] = on[i - 1] + 1 /\ h[on[i]] = p[i]
  <2>1. CASE i = n + 1
    BY <1>1, <1>2, <1>4, <2>1
  <2>2. CASE i # n + 1
    <3>1. i \in 1..n /\ p[i] = q[i] /\ on[i] = at[i] /\ on[i - 1] = at[i - 1]
      BY <1>2, <1>4, <2>2
    <3>2. QED
      BY <1>1, <3>1 DEF LaidAlong
  <2>3. QED
    BY <2>1, <2>2
<1>6. LaidAlong(on, p, h)
  BY <1>2, <1>4, <1>5 DEF LaidAlong
<1>7. Laid(p, h, k)
  BY <1>2, <1>3, <1>4, <1>6 DEF Laid
<1>8. QED
  BY <1>7 DEF p

(* A * that ends a pattern takes one segment more.                         *)
LEMMA LaidWider ==
  ASSUME NEW Segment, NEW p \in Seq(Segment), NEW h \in Seq(Segment), NEW k \in 1..Len(h),
         p # <<>>, p[Len(p)] = "*", Laid(p, h, k - 1)
  PROVE  Laid(p, h, k)
<1> DEFINE n == Len(p)
<1>1. PICK at \in [0..n -> 0..Len(h)] : LaidAlong(at, p, h) /\ at[n] = k - 1
  BY DEF Laid
<1> DEFINE on == [at EXCEPT ![n] = k]
<1>2. n \in 1..n
  OBVIOUS
<1>3. on \in [0..n -> 0..Len(h)] /\ on[n] = k /\ \A i \in 0..(n - 1) : on[i] = at[i]
  BY <1>2
<1> HIDE DEF on
<1>4. ASSUME NEW i \in 1..n
      PROVE  IF p[i] = "*" THEN on[i] > on[i - 1]
                           ELSE on[i] = on[i - 1] + 1 /\ h[on[i]] = p[i]
  <2>1. CASE i = n
    <3>1. at[n] > at[n - 1]
      BY <1>1, <1>2 DEF LaidAlong
    <3>a. n - 1 \in 0..(n - 1) /\ n - 1 \in 0..n
      BY <1>2
    <3>b. at[n - 1] \in 0..Len(h) /\ on[n - 1] = at[n - 1]
      BY <1>3, <3>a
    <3>2. on[i] = k /\ on[i - 1] = at[i - 1] /\ at[i - 1] \in Nat /\ p[i] = "*"
      BY <1>3, <2>1, <3>b
    <3>3. QED
      BY <1>1, <2>1, <3>1, <3>2
  <2>2. CASE i # n
    BY <1>1, <1>3, <2>2 DEF LaidAlong
  <2>3. QED
    BY <2>1, <2>2
<1>5. LaidAlong(on, p, h)
  BY <1>1, <1>2, <1>3, <1>4 DEF LaidAlong
<1>6. QED
  BY <1>3, <1>5 DEF Laid

(* There is no other way for a pattern to take one segment more.           *)
LEMMA LaidBack ==
  ASSUME NEW Segment, NEW p \in Seq(Segment), NEW h \in Seq(Segment), NEW k \in 1..Len(h),
         Laid(p, h, k)
  PROVE  \/ \E q \in Seq(Segment) : \E c \in {"*", h[k]} : p = Append(q, c) /\ Laid(q, h, k - 1)
         \/ p # <<>> /\ p[Len(p)] = "*" /\ Laid(p, h, k - 1)
<1> DEFINE n == Len(p)
<1>1. PICK at \in [0..n -> 0..Len(h)] : LaidAlong(at, p, h) /\ at[n] = k
  BY DEF Laid
<1>2. n \in 1..n
  BY <1>1 DEF LaidAlong
<1> DEFINE q == [i \in 1..(n - 1) |-> p[i]]
           back == [i \in 0..(n - 1) |-> at[i]]
<1>3. q \in Seq(Segment) /\ Len(q) = n - 1 /\ p = Append(q, p[n]) /\ \A i \in 1..(n - 1) : q[i] = p[i]
  <2>1. q \in Seq(Segment) /\ Len(q) = n - 1
    BY <1>2
  <2>2. \A i \in 1..(n - 1) : q[i] = p[i]
    BY <1>2
  <2>3. p[n] \in Segment
    BY <1>2
  <2> HIDE DEF q
  <2>4. Append(q, p[n]) \in Seq(Segment) /\ Len(Append(q, p[n])) = n
    BY <1>2, <2>1, <2>3
  <2>5. ASSUME NEW i \in 1..n  PROVE Append(q, p[n])[i] = p[i]
    BY <1>2, <2>1, <2>2, <2>3
  <2>6. p = Append(q, p[n])
    BY <2>4, <2>5, SeqEqual
  <2>7. QED
    BY <2>1, <2>2, <2>6
<1>4. back \in [0..(n - 1) -> 0..Len(h)] /\ \A i \in 0..(n - 1) : back[i] = at[i]
  BY <1>2
<1> HIDE DEF q, back
<1>5. LaidAlong(back, q, h)
  BY <1>1, <1>2, <1>3, <1>4 DEF LaidAlong
<1>6. Laid(q, h, at[n - 1])
  BY <1>2, <1>3, <1>4, <1>5 DEF Laid
<1>7. IF p[n] = "*" THEN at[n - 1] < k ELSE at[n - 1] = k - 1 /\ p[n] = h[k]
  <2>1. IF p[n] = "*" THEN at[n] > at[n - 1] ELSE at[n] = at[n - 1] + 1 /\ h[at[n]] = p[n]
    BY <1>1, <1>2 DEF LaidAlong
  <2>2. at[n - 1] \in Nat
    BY <1>2
  <2>3. QED
    BY <1>1, <2>1, <2>2
<1>8. CASE at[n - 1] = k - 1
  BY <1>3, <1>6, <1>7, <1>8
<1>9. CASE at[n - 1] # k - 1
  <2> DEFINE on == [at EXCEPT ![n] = k - 1]
  <2>1. on \in [0..n -> 0..Len(h)] /\ on[n] = k - 1 /\ \A i \in 0..(n - 1) : on[i] = at[i]
    BY <1>2
  <2> HIDE DEF on
  <2>2. at[n - 1] < k - 1 /\ p[n] = "*"
    BY <1>7, <1>9, <1>2
  <2>3. ASSUME NEW i \in 1..n
        PROVE  IF p[i] = "*" THEN on[i] > on[i - 1]
                             ELSE on[i] = on[i - 1] + 1 /\ h[on[i]] = p[i]
    <3>1. CASE i = n
      BY <1>2, <2>1, <2>2, <3>1
    <3>2. CASE i # n
      BY <1>1, <2>1, <3>2 DEF LaidAlong
    <3>3. QED
      BY <3>1, <3>2
  <2>4. LaidAlong(on, p, h)
    BY <1>1, <1>2, <2>1, <2>3 DEF LaidAlong
  <2>5. Laid(p, h, k - 1)
    BY <2>1, <2>4 DEF Laid
  <2>6. QED
    BY <1>2, <2>2, <2>5
<1>10. QED
  BY <1>8, <1>9

(* The nodes of a trie: all that lies between the root and a pattern.      *)
NodesOK(trie, Segment) ==
  /\ DOMAIN trie \subseteq Seq(Segment) /\ <<>> \in DOMAIN trie
  /\ \A q \in Seq(Segment) : \A c \in Segment : Append(q, c) \in DOMAIN trie => q \in DOMAIN trie

(* Reached follows its definition, one segment after the other.            *)
LEMMA ReachedSteps ==
  ASSUME NEW trie, <<>> \in DOMAIN trie, NEW Segment, NEW h \in Seq(Segment)
  PROVE  /\ Reached(trie, h)[0] = {<<>>}
         /\ \A k \in 1..Len(h) : Reached(trie, h)[k] = Onward(trie, Reached(trie, h)[k - 1], h[k])
<1> DEFINE n == Len(h)
           V == SUBSET DOMAIN trie
           step == [k \in 1..n |-> [from \in V |-> Onward(trie, from, h[k])]]
           Body(r) == [k \in 0..n |-> IF k = 0 THEN {<<>>} ELSE Onward(trie, r[k - 1], h[k])]
<1>1. n \in Nat /\ {<<>>} \in V
  OBVIOUS
<1>2. \A k \in 1..n : \A from \in V : step[k][from] = Onward(trie, from, h[k]) /\ step[k][from] \in V
  BY DEF Onward
<1>3. PICK f \in [0..n -> V] : Iterates(f, {<<>>}, n, step)
  <2>1. StepsIn(V, n, step)
    BY <1>2 DEF StepsIn
  <2> HIDE DEF n, V, step
  <2>2. QED
    BY <1>1, <2>1, Recursion
<1>4. f[0] = {<<>>} /\ \A k \in 1..n : f[k] = step[k][f[k - 1]]
  BY <1>3 DEF Iterates
<1>5. f = Body(f)
  <2>1. ASSUME NEW k \in 1..n  PROVE f[k] = Onward(trie, f[k - 1], h[k])
    <3>1. f[k - 1] \in V
      BY <1>1
    <3> HIDE DEF V, step
    <3>2. QED
      BY <1>2, <1>4, <3>1
  <2> HIDE DEF V, step
  <2>2. QED
    BY <1>1, <1>4, <2>1
<1> DEFINE R == Reached(trie, h)
<1>6. R = Body(R)
  <2>1. R = CHOOSE r : r = Body(r)
    BY DEF Reached
  <2> HIDE DEF R, Body
  <2>2. QED
    BY <1>5, <2>1
<1> HIDE DEF R
<1>7. R[0] = {<<>>} /\ \A k \in 1..n : R[k] = Onward(trie, R[k - 1], h[k])
  <2>1. \A k \in 0..n : Body(R)[k] = IF k = 0 THEN {<<>>} ELSE Onward(trie, R[k - 1], h[k])
    OBVIOUS
  <2> HIDE DEF Body
  <2>2. \A k \in 0..n : R[k] = IF k = 0 THEN {<<>>} ELSE Onward(trie, R[k - 1], h[k])
    BY <1>6, <2>1
  <2>3. QED
    BY <1>1, <2>2
<1>8. QED
  BY <1>7 DEF R

(* The nodes reached by k segments are those whose path takes k of them.   *)
LEMMA ReachedAreLaid ==
  ASSUME NEW Segment, "*" \in Segment, NEW trie, NodesOK(trie, Segment), NEW h \in Seq(Segment)
  PROVE  \A k \in 0..Len(h) : Reached(trie, h)[k] = {p \in DOMAIN trie : Laid(p, h, k)}
<1> DEFINE n == Len(h)
           D == DOMAIN trie
           R == Reached(trie, h)
           S == {k \in Nat : k <= n => R[k] = {p \in D : Laid(p, h, k)}}
<1>1. D \subseteq Seq(Segment) /\ <<>> \in D /\ n \in Nat
      /\ \A q \in Seq(Segment) : \A c \in Segment : Append(q, c) \in D => q \in D
  BY DEF NodesOK
<1>2. R[0] = {<<>>} /\ \A k \in 1..n : R[k] = Onward(trie, R[k - 1], h[k])
  BY <1>1, ReachedSteps
<1> HIDE DEF R
<1>3. 0 \in S
  <2>1. \A p \in D : Laid(p, h, 0) <=> p = <<>>
    BY <1>1, LaidNothing
  <2>2. QED
    BY <1>1, <1>2, <2>1
<1>4. ASSUME NEW i \in Nat, i \in S  PROVE i + 1 \in S
  <2>1. SUFFICES ASSUME i + 1 <= n PROVE R[i + 1] = {p \in D : Laid(p, h, i + 1)}
    OBVIOUS
  <2> DEFINE k == i + 1
  <2>2. k \in 1..n /\ k - 1 = i
    BY <2>1
  <2>a. R[k - 1] = {p \in D : Laid(p, h, k - 1)}
    BY <1>4, <2>1, <2>2
  <2>3. R[k] = Onward(trie, {p \in D : Laid(p, h, k - 1)}, h[k])
    BY <1>2, <2>2, <2>a
  <2> HIDE DEF k
  <2>4. h[k] \in Segment
    BY <2>2
  <2>5. ASSUME NEW p \in R[k]  PROVE p \in D /\ Laid(p, h, k)
    <3>1. /\ p \in D
          /\ \/ \E q \in D : \E c \in {"*", h[k]} : Laid(q, h, k - 1) /\ p = Append(q, c)
             \/ p # <<>> /\ p[Len(p)] = "*" /\ Laid(p, h, k - 1)
      BY <2>3 DEF Onward
    <3>2. CASE \E q \in D : \E c \in {"*", h[k]} : Laid(q, h, k - 1) /\ p = Append(q, c)
      BY <1>1, <2>2, <2>4, <3>1, <3>2, LaidFurther
    <3>3. CASE p # <<>> /\ p[Len(p)] = "*" /\ Laid(p, h, k - 1)
      BY <1>1, <2>2, <3>1, <3>3, LaidWider
    <3>4. QED
      BY <3>1, <3>2, <3>3
  <2>6. ASSUME NEW p \in D, Laid(p, h, k)  PROVE p \in R[k]
    <3>1. \/ \E q \in Seq(Segment) : \E c \in {"*", h[k]} : p = Append(q, c) /\ Laid(q, h, k - 1)
          \/ p # <<>> /\ p[Len(p)] = "*" /\ Laid(p, h, k - 1)
      BY <1>1, <2>2, <2>6, LaidBack
    <3>2. \A q \in Seq(Segment) : \A c \in {"*", h[k]} : p = Append(q, c) => q \in D
      BY <1>1, <2>4
    <3>3. QED
      BY <2>3, <3>1, <3>2 DEF Onward
  <2>7. QED
    BY <2>5, <2>6 DEF k
<1>5. \A k \in Nat : k \in S
  <2> HIDE DEF S
  <2>1. QED
    BY <1>3, <1>4, Induction
<1>6. QED
  BY <1>1, <1>5 DEF R

(* Reverse keeps the length, and undoes itself.                            *)
LEMMA ReverseFacts ==
  ASSUME NEW Segment, NEW s \in Seq(Segment)
  PROVE  /\ Reverse(s) \in Seq(Segment) /\ Len(Reverse(s)) = Len(s)
         /\ Reverse(Reverse(s)) = s
BY DEF Reverse

(* Looking up a host finds the nodes whose path is laid along it.          *)
LEMMA TrieGetReaches ==
  ASSUME NEW Segment, "*" \in Segment, NEW trie, NodesOK(trie, Segment), NEW host \in Seq(Segment)
  PROVE  TrieGet(trie, host) = UNION {trie[p] : p \in {q \in DOMAIN trie : Reaches(q, Reverse(host))}}
<1> DEFINE h == Reverse(host)
<1>1. h \in Seq(Segment) /\ Len(h) = Len(host)
  BY ReverseFacts
<1>2. \A k \in 0..Len(h) : Reached(trie, h)[k] = {p \in DOMAIN trie : Laid(p, h, k)}
  BY <1>1, ReachedAreLaid
<1>3. TrieGet(trie, host) = UNION {trie[p] : p \in UNION {Reached(trie, h)[k] : k \in 0..Len(h)}}
  BY <1>1 DEF TrieGet
<1> HIDE DEF h
<1>4. ASSUME NEW p \in DOMAIN trie  PROVE Reaches(p, h) <=> \E k \in 0..Len(h) : Laid(p, h, k)
  <2>1. Len(p) \in 0..Len(p)
    BY DEF NodesOK
  <2>2. QED
    BY <2>1 DEF Reaches, Laid
<1>5. UNION {Reached(trie, h)[k] : k \in 0..Len(h)} = {p \in DOMAIN trie : Reaches(p, h)}
  BY <1>2, <1>4
<1>6. QED
  BY <1>3, <1>5 DEF h

-----------------------------------------------------------------------------
(* What a trie holds, as pairs of a pattern and its data.                  *)
Holds(trie, held) ==
  /\ \A p \in DOMAIN trie : trie[p] = {e[2] : e \in {x \in held : Reverse(x[1]) = p}}
  /\ \A e \in held : Reverse(e[1]) \in DOMAIN trie

(* What pairs give a host, each by itself.                                 *)
Fitting(held, host) == {e[2] : e \in {x \in held : HostMatches(x[1], host)}}

(* A trie gives a host the data of each pattern it holds that matches.     *)
LEMMA GetsWhatItHolds ==
  ASSUME NEW Segment, "*" \in Segment, NEW Data, NEW held \in SUBSET (Seq(Segment) \X Data),
         NEW trie, NodesOK(trie, Segment), Holds(trie, held), NEW host \in Seq(Segment)
  PROVE  TrieGet(trie, host) = Fitting(held, host)
<1>1. TrieGet(trie, host) = UNION {trie[p] : p \in {q \in DOMAIN trie : Reaches(q, Reverse(host))}}
  BY TrieGetReaches
<1>2. ASSUME NEW v
      PROVE  v \in TrieGet(trie, host) <=> \E e \in held : HostMatches(e[1], host) /\ e[2] = v
  <2>1. v \in TrieGet(trie, host) <=>
          \E p \in DOMAIN trie : Reaches(p, Reverse(host)) /\ v \in trie[p]
    BY <1>1
  <2>2. \A p \in DOMAIN trie : v \in trie[p] <=> \E e \in held : Reverse(e[1]) = p /\ e[2] = v
    BY DEF Holds
  <2>3. QED
    BY <2>1, <2>2 DEF Holds, HostMatches
<1>3. QED
  BY <1>2 DEF Fitting

(* Adding to a trie leaves it a trie.                                      *)
LEMMA AddKeepsNodes ==
  ASSUME NEW Segment, NEW trie, NodesOK(trie, Segment),
         NEW patterns \in SUBSET Seq(Segment), NEW data
  PROVE  NodesOK(Add(trie, patterns, data), Segment)
<1> DEFINE paths == {Reverse(p) : p \in patterns}
           new == UNION {{SubSeq(p, 1, n) : n \in 0..Len(p)} : p \in paths}
           nodes == DOMAIN trie \cup new
<1>1. DOMAIN Add(trie, patterns, data) = nodes
  BY DEF Add
<1>2. paths \subseteq Seq(Segment)
  BY ReverseFacts
<1> HIDE DEF paths
<1>3. ASSUME NEW p \in paths, NEW n \in 0..Len(p)
      PROVE  SubSeq(p, 1, n) \in Seq(Segment) /\ Len(SubSeq(p, 1, n)) = n
             /\ \A i \in 1..n : SubSeq(p, 1, n)[i] = p[i]
  <2>1. p \in Seq(Segment) /\ n \in Nat /\ n <= Len(p)
    BY <1>2
  <2>2. \A i \in 1..n : p[i] \in Segment
    BY <2>1
  <2>3. /\ SubSeq(p, 1, n) \in Seq(Segment)
        /\ Len(SubSeq(p, 1, n)) = IF 1 <= n THEN n - 1 + 1 ELSE 0
        /\ \A i \in 1..(n - 1 + 1) : SubSeq(p, 1, n)[i] = p[1 + i - 1]
    BY <2>1, <2>2, SubSeqProperties
  <2>4. QED
    BY <2>1, <2>3
<1>4. nodes \subseteq Seq(Segment) /\ <<>> \in nodes
  BY <1>3 DEF NodesOK
<1>5. ASSUME NEW q \in Seq(Segment), NEW c \in Segment, Append(q, c) \in new  PROVE q \in new
  <2>0. PICK p \in paths : \E n \in 0..Len(p) : Append(q, c) = SubSeq(p, 1, n)
    BY <1>5
  <2>1. PICK n \in 0..Len(p) : Append(q, c) = SubSeq(p, 1, n)
    BY <2>0
  <2>2. Len(Append(q, c)) = Len(q) + 1 /\ \A i \in 1..Len(q) : Append(q, c)[i] = q[i]
    OBVIOUS
  <2>3. p \in Seq(Segment) /\ n = Len(q) + 1 /\ Len(q) \in 0..Len(p)
    BY <1>2, <1>3, <2>1, <2>2
  <2>4. \A i \in 1..Len(q) : q[i] = p[i]
    BY <1>3, <2>1, <2>2, <2>3
  <2>5. q = SubSeq(p, 1, Len(q))
    <3>1. SubSeq(p, 1, Len(q)) \in Seq(Segment) /\ Len(SubSeq(p, 1, Len(q))) = Len(q)
          /\ \A i \in 1..Len(q) : SubSeq(p, 1, Len(q))[i] = p[i]
      BY <1>3, <2>3
    <3>2. QED
      BY <2>4, <3>1, SeqEqual
  <2>6. q \in {SubSeq(p, 1, m) : m \in 0..Len(p)}
    BY <2>3, <2>5
  <2>7. QED
    BY <2>6
<1>6. QED
  BY <1>1, <1>4, <1>5 DEF NodesOK

(* After patterns were added for data, a trie holds these as well.         *)
LEMMA AddHolds ==
  ASSUME NEW Segment, NEW trie, NodesOK(trie, Segment), NEW Data,
         NEW held \in SUBSET (Seq(Segment) \X Data), Holds(trie, held),
         NEW patterns \in SUBSET Seq(Segment), NEW data \in Data
  PROVE  Holds(Add(trie, patterns, data), held \cup (patterns \X {data}))
<1> DEFINE paths == {Reverse(p) : p \in patterns}
           nodes == DOMAIN trie \cup UNION {{SubSeq(p, 1, n) : n \in 0..Len(p)} : p \in paths}
           more == held \cup (patterns \X {data})
           T == Add(trie, patterns, data)
<1>1. /\ DOMAIN T = nodes
      /\ \A p \in nodes : T[p] = (IF p \in DOMAIN trie THEN trie[p] ELSE {})
                                  \cup (IF p \in paths THEN {data} ELSE {})
  BY DEF Add
<1>2. \A p \in paths : p \in nodes
  <2>1. ASSUME NEW p \in paths  PROVE p = SubSeq(p, 1, Len(p)) /\ Len(p) \in 0..Len(p)
    BY ReverseFacts, SubSeqFull
  <2>2. QED
    BY <2>1
<1> HIDE DEF nodes, T
<1>3. ASSUME NEW p \in nodes
      PROVE  T[p] = {e[2] : e \in {x \in more : Reverse(x[1]) = p}}
  <2>1. ASSUME NEW v
        PROVE  v \in T[p] <=> \E e \in more : Reverse(e[1]) = p /\ e[2] = v
    <3>1. v \in T[p] <=> \/ p \in DOMAIN trie /\ v \in trie[p]
                         \/ p \in paths /\ v = data
      BY <1>1
    <3>2. (p \in DOMAIN trie /\ v \in trie[p]) <=> \E e \in held : Reverse(e[1]) = p /\ e[2] = v
      BY DEF Holds
    <3>3. (p \in paths /\ v = data) <=>
             \E e \in patterns \X {data} : Reverse(e[1]) = p /\ e[2] = v
      <4>1. \A q \in patterns : <<q, data>> \in patterns \X {data}
        OBVIOUS
      <4>2. \A e \in patterns \X {data} : e[1] \in patterns /\ e[2] = data
        OBVIOUS
      <4>3. p \in paths <=> \E q \in patterns : Reverse(q) = p
        OBVIOUS
      <4>4. ASSUME p \in paths, v = data
            PROVE  \E e \in patterns \X {data} : Reverse(e[1]) = p /\ e[2] = v
        <5>1. PICK q \in patterns : Reverse(q) = p
          BY <4>3, <4>4
        <5>2. <<q, data>>[1] = q /\ <<q, data>>[2] = data
          OBVIOUS
        <5>3. QED
          BY <4>1, <4>4, <5>1, <5>2
      <4>5. QED
        BY <4>2, <4>3, <4>4
    <3>4. QED
      BY <3>1, <3>2, <3>3
  <2> HIDE DEF more
  <2>2. QED
    BY <2>1
<1>4. ASSUME NEW e \in more  PROVE Reverse(e[1]) \in nodes
  <2>1. CASE e \in held
    BY <2>1 DEF Holds, nodes
  <2>2. CASE e \in patterns \X {data}
    BY <1>2, <2>2
  <2>3. QED
    BY <2>1, <2>2
<1>5. QED
  BY <1>1, <1>3, <1>4 DEF Holds, T

-----------------------------------------------------------------------------
(* The lines, and the matchers they make.                                  *)
Pattern(Segment) == [neg : BOOLEAN, host : Seq(Segment)]
AssetLines(Segment, Data) == [exc : BOOLEAN, patterns : Seq(Pattern(Segment)), data : Data]

Tries(Segment, Data) == UNION {[nodes -> SUBSET Data] : nodes \in SUBSET Seq(Segment)}
Matchers(Segment, Data) ==
  [generic : SUBSET Data, genericExceptions : SUBSET Data,
   primary : Tries(Segment, Data), exceptions : Tries(Segment, Data)]

(* What the two tries of a matcher hold for a set of lines.                *)
Given(lines, Segment, Data) ==
  {e \in Seq(Segment) \X Data : \E l \in lines :
     ~l.exc /\ e[1] \in Hosts(FALSE, l.patterns, FALSE) /\ e[2] = l.data}
Taken(lines, Segment, Data) ==
  {e \in Seq(Segment) \X Data : \E l \in lines :
     e[1] \in Hosts(l.exc, l.patterns, ~l.exc) /\ e[2] = l.data}

(* A matcher holds a set of lines, those without patterns in its sets.     *)
MatcherOK(hm, lines, Segment, Data) ==
  /\ hm \in Matchers(Segment, Data)
  /\ hm.generic = {l.data : l \in {x \in lines : ~x.exc /\ x.patterns = <<>>}}
  /\ hm.genericExceptions = {l.data : l \in {x \in lines : x.exc /\ x.patterns = <<>>}}
  /\ NodesOK(hm.primary, Segment) /\ NodesOK(hm.exceptions, Segment)
  /\ Holds(hm.primary, Given(lines, Segment, Data))
  /\ Holds(hm.exceptions, Taken(lines, Segment, Data))

(* A new matcher holds no lines.                                           *)
LEMMA NewMatcherOK ==
  ASSUME NEW Segment, NEW Data
  PROVE  MatcherOK(NewHostMatcher, {}, Segment, Data)
<1>1. <<>> \in Seq(Segment)
  OBVIOUS
<1>2. NewTrie \in [{<<>>} -> SUBSET Data] /\ DOMAIN NewTrie = {<<>>} /\ NewTrie[<<>>] = {}
  BY DEF NewTrie
<1>3. NewTrie \in Tries(Segment, Data)
  BY <1>1, <1>2 DEF Tries
<1>4. NodesOK(NewTrie, Segment)
  <2>1. \A q \in Seq(Segment) : \A c \in Segment : Append(q, c) # <<>>
    <3>1. \A q \in Seq(Segment) : \A c \in Segment : Len(Append(q, c)) = Len(q) + 1 /\ Len(q) \in Nat
      OBVIOUS
    <3>2. Len(<<>>) = 0
      OBVIOUS
    <3>3. QED
      BY <3>1, <3>2
  <2>2. QED
    BY <1>1, <1>2, <2>1 DEF NodesOK
<1>5. Holds(NewTrie, {})
  BY <1>2 DEF Holds
<1>6. Given({}, Segment, Data) = {} /\ Taken({}, Segment, Data) = {}
  BY DEF Given, Taken
<1>7. QED
  BY <1>3, <1>4, <1>5, <1>6 DEF MatcherOK, Matchers, NewHostMatcher

(* The hosts of a line are sequences of segments.                          *)
LEMMA HostsAreHosts ==
  ASSUME NEW Segment, NEW patterns \in Seq(Pattern(Segment)), NEW exc, NEW neg
  PROVE  Hosts(exc, patterns, neg) \in SUBSET Seq(Segment)
         /\ (patterns = <<>> => Hosts(exc, patterns, neg) = {})
<1>1. \A i \in DOMAIN patterns : patterns[i].host \in Seq(Segment)
  <2>1. \A i \in DOMAIN patterns : patterns[i] \in Pattern(Segment)
    OBVIOUS
  <2>2. \A p \in Pattern(Segment) : p.host \in Seq(Segment)
    BY DEF Pattern
  <2>3. QED
    BY <2>1, <2>2
<1>2. patterns = <<>> => DOMAIN patterns = {}
  OBVIOUS
<1>3. QED
  BY <1>1, <1>2 DEF Hosts

(* The data of the nodes stay data of lines.                               *)
LEMMA AddStaysTrie ==
  ASSUME NEW Segment, NEW Data, NEW trie \in Tries(Segment, Data), NodesOK(trie, Segment),
         NEW patterns \in SUBSET Seq(Segment), NEW data \in Data
  PROVE  Add(trie, patterns, data) \in Tries(Segment, Data)
<1> DEFINE T == Add(trie, patterns, data)
<1>1. DOMAIN T \in SUBSET Seq(Segment)
  BY AddKeepsNodes DEF NodesOK
<1>2. \A p \in DOMAIN trie : trie[p] \in SUBSET Data
  BY DEF Tries
<1>3. T = [p \in DOMAIN T |-> T[p]] /\ \A p \in DOMAIN T : T[p] \in SUBSET Data
  BY <1>2 DEF Add
<1> HIDE DEF T
<1>4. T \in [DOMAIN T -> SUBSET Data]
  BY <1>3
<1>5. QED
  BY <1>1, <1>4 DEF Tries, T

(* A matcher that is given a line holds it as well.                        *)
LEMMA AddAssetOK ==
  ASSUME NEW Segment, NEW Data, NEW lines \in SUBSET AssetLines(Segment, Data),
         NEW line \in AssetLines(Segment, Data), NEW hm, MatcherOK(hm, lines, Segment, Data)
  PROVE  MatcherOK(AddAsset(hm, line), lines \cup {line}, Segment, Data)
<1> DEFINE more == lines \cup {line}
           M == AddAsset(hm, line)
           given == Given(lines, Segment, Data)
           taken == Taken(lines, Segment, Data)
<1>1. /\ line.exc \in BOOLEAN /\ line.data \in Data
      /\ line.patterns \in Seq(Pattern(Segment))
  BY DEF AssetLines
<1>2. /\ hm \in Matchers(Segment, Data)
      /\ NodesOK(hm.primary, Segment) /\ NodesOK(hm.exceptions, Segment)
      /\ Holds(hm.primary, given) /\ Holds(hm.exceptions, taken)
      /\ hm.generic = {l.data : l \in {x \in lines : ~x.exc /\ x.patterns = <<>>}}
      /\ hm.genericExceptions = {l.data : l \in {x \in lines : x.exc /\ x.patterns = <<>>}}
  BY DEF MatcherOK
<1>3. /\ given \in SUBSET (Seq(Segment) \X Data) /\ taken \in SUBSET (Seq(Segment) \X Data)
      /\ hm.primary \in Tries(Segment, Data) /\ hm.exceptions \in Tries(Segment, Data)
  BY <1>2 DEF Given, Taken, Matchers
<1>4. \A exc, neg : /\ Hosts(exc, line.patterns, neg) \in SUBSET Seq(Segment)
                    /\ (line.patterns = <<>> => Hosts(exc, line.patterns, neg) = {})
  BY <1>1, HostsAreHosts
<1>5. Given(more, Segment, Data) =
        IF line.exc THEN given ELSE given \cup (Hosts(FALSE, line.patterns, FALSE) \X {line.data})
  <2>1. ASSUME NEW e
        PROVE  e \in Given(more, Segment, Data) <=>
                 \/ e \in given
                 \/ ~line.exc /\ e \in Hosts(FALSE, line.patterns, FALSE) \X {line.data}
    <3>1. e \in Hosts(FALSE, line.patterns, FALSE) \X {line.data} <=>
            e \in Seq(Segment) \X Data /\ e[1] \in Hosts(FALSE, line.patterns, FALSE) /\ e[2] = line.data
      BY <1>1, <1>4
    <3>2. QED
      BY <3>1 DEF Given
  <2>2. QED
    BY <1>1, <2>1
<1>6. Taken(more, Segment, Data) =
        taken \cup (Hosts(line.exc, line.patterns, ~line.exc) \X {line.data})
  <2>1. ASSUME NEW e
        PROVE  e \in Taken(more, Segment, Data) <=>
                 \/ e \in taken
                 \/ e \in Hosts(line.exc, line.patterns, ~line.exc) \X {line.data}
    <3>1. e \in Hosts(line.exc, line.patterns, ~line.exc) \X {line.data} <=>
            e \in Seq(Segment) \X Data /\ e[1] \in Hosts(line.exc, line.patterns, ~line.exc)
            /\ e[2] = line.data
      BY <1>1, <1>4
    <3>2. QED
      BY <3>1 DEF Taken
  <2>2. QED
    BY <2>1
<1> DEFINE Generic(ls, exc) == {l.data : l \in {x \in ls : x.exc = exc /\ x.patterns = <<>>}}
<1>7. /\ hm.generic = Generic(lines, FALSE) /\ hm.genericExceptions = Generic(lines, TRUE)
  BY <1>2 DEF AssetLines
<1>8. ASSUME NEW exc \in BOOLEAN
      PROVE  Generic(more, exc) = Generic(lines, exc) \cup
               (IF line.exc = exc /\ line.patterns = <<>> THEN {line.data} ELSE {})
  OBVIOUS
<1>9. MatcherOK(M, more, Segment, Data) <=>
        /\ M \in Matchers(Segment, Data)
        /\ M.generic = Generic(more, FALSE) /\ M.genericExceptions = Generic(more, TRUE)
        /\ NodesOK(M.primary, Segment) /\ NodesOK(M.exceptions, Segment)
        /\ Holds(M.primary, Given(more, Segment, Data))
        /\ Holds(M.exceptions, Taken(more, Segment, Data))
  BY <1>1 DEF MatcherOK, AssetLines
<1> HIDE DEF more, M, given, taken, Generic
<1>10. CASE line.patterns = <<>>
  <2>1. Given(more, Segment, Data) = given /\ Taken(more, Segment, Data) = taken
    BY <1>4, <1>5, <1>6, <1>10
  <2>2. CASE line.exc
    <3>1. M = [hm EXCEPT !.genericExceptions = @ \cup {line.data}]
      BY <1>10, <2>2 DEF M, AddAsset, AddExceptionRule
    <3>2. /\ M.generic = hm.generic /\ M.primary = hm.primary /\ M.exceptions = hm.exceptions
          /\ M.genericExceptions = hm.genericExceptions \cup {line.data}
          /\ M \in Matchers(Segment, Data)
      BY <1>1, <1>2, <3>1 DEF Matchers
    <3>3. Generic(more, FALSE) = Generic(lines, FALSE)
          /\ Generic(more, TRUE) = Generic(lines, TRUE) \cup {line.data}
      BY <1>1, <1>8, <1>10, <2>2
    <3>4. QED
      BY <1>2, <1>7, <1>9, <2>1, <3>2, <3>3 DEF M, more
  <2>3. CASE ~line.exc
    <3>1. M = [hm EXCEPT !.generic = @ \cup {line.data}]
      BY <1>10, <2>3 DEF M, AddAsset, AddPrimaryRule
    <3>2. /\ M.genericExceptions = hm.genericExceptions
          /\ M.primary = hm.primary /\ M.exceptions = hm.exceptions
          /\ M.generic = hm.generic \cup {line.data}
          /\ M \in Matchers(Segment, Data)
      BY <1>1, <1>2, <3>1 DEF Matchers
    <3>3. Generic(more, TRUE) = Generic(lines, TRUE)
          /\ Generic(more, FALSE) = Generic(lines, FALSE) \cup {line.data}
      BY <1>1, <1>8, <1>10, <2>3
    <3>4. QED
      BY <1>2, <1>7, <1>9, <2>1, <3>2, <3>3 DEF M, more
  <2>4. QED
    BY <1>1, <2>2, <2>3
<1>11. CASE line.patterns # <<>>
  <2>1. Generic(more, TRUE) = Generic(lines, TRUE) /\ Generic(more, FALSE) = Generic(lines, FALSE)
    BY <1>8, <1>11
  <2> DEFINE P(neg) == Hosts(line.exc, line.patterns, neg)
             primary == Add(hm.primary, P(FALSE), line.data)
             exceptions == Add(hm.exceptions, P(~line.exc), line.data)
  <2>2. /\ exceptions \in Tries(Segment, Data) /\ NodesOK(exceptions, Segment)
        /\ Holds(exceptions, Taken(more, Segment, Data))
    BY <1>1, <1>2, <1>3, <1>4, <1>6, AddStaysTrie, AddKeepsNodes, AddHolds
  <2>3. CASE line.exc
    <3>1. M = [hm EXCEPT !.exceptions = exceptions]
      BY <1>11, <2>3 DEF M, AddAsset, AddExceptionRule
    <3> HIDE DEF exceptions
    <3>2. /\ M.generic = hm.generic /\ M.genericExceptions = hm.genericExceptions
          /\ M.primary = hm.primary /\ M.exceptions = exceptions
          /\ M \in Matchers(Segment, Data)
      BY <1>2, <2>2, <3>1 DEF Matchers
    <3>3. Given(more, Segment, Data) = given
      BY <1>5, <2>3
    <3>4. QED
      BY <1>2, <1>7, <1>9, <2>1, <2>2, <3>2, <3>3 DEF M, more
  <2>4. CASE ~line.exc
    <3>1. M = [hm EXCEPT !.primary = primary, !.exceptions = exceptions]
      BY <1>1, <1>11, <2>4 DEF M, AddAsset, AddPrimaryRule
    <3>2. /\ primary \in Tries(Segment, Data) /\ NodesOK(primary, Segment)
          /\ Holds(primary, Given(more, Segment, Data))
      <4>1. line.exc = FALSE
        BY <1>1, <2>4
      <4>2. P(FALSE) = Hosts(FALSE, line.patterns, FALSE) /\ P(FALSE) \in SUBSET Seq(Segment)
        BY <1>4, <4>1
      <4>3. Given(more, Segment, Data) = given \cup (P(FALSE) \X {line.data})
        BY <1>5, <2>4, <4>2
      <4> HIDE DEF P
      <4>4. primary \in Tries(Segment, Data)
        BY <1>1, <1>2, <1>3, <4>2, AddStaysTrie
      <4>5. NodesOK(primary, Segment)
        BY <1>2, <4>2, AddKeepsNodes
      <4>6. Holds(primary, given \cup (P(FALSE) \X {line.data}))
        BY <1>1, <1>2, <1>3, <4>2, AddHolds
      <4>7. QED
        BY <4>3, <4>4, <4>5, <4>6
    <3> HIDE DEF primary, exceptions
    <3>3. /\ M.generic = hm.generic /\ M.genericExceptions = hm.genericExceptions
          /\ M.primary = primary /\ M.exceptions = exceptions
          /\ M \in Matchers(Segment, Data)
      BY <1>2, <2>2, <3>1, <3>2 DEF Matchers
    <3>4. QED
      BY <1>2, <1>7, <1>9, <2>1, <2>2, <3>2, <3>3 DEF M, more
  <2>5. QED
    BY <1>1, <2>3, <2>4
<1>12. QED
  BY <1>10, <1>11 DEF M, more

(* The matcher a list of lines makes holds those lines.                    *)
LEMMA ListMatcherOK ==
  ASSUME NEW Segment, NEW Data, NEW lines \in Seq(AssetLines(Segment, Data))
  PROVE  MatcherOK(Matcher(lines), ToSet(lines), Segment, Data)
<1> DEFINE n == Len(lines)
           V == Matchers(Segment, Data)
           First(i) == {lines[j] : j \in 1..i}
           step == [i \in 1..n |-> [m \in V |-> IF MatcherOK(m, First(i - 1), Segment, Data)
                                              THEN AddAsset(m, lines[i]) ELSE m]]
           Body(f) == [i \in 0..n |-> IF i = 0 THEN NewHostMatcher ELSE AddAsset(f[i - 1], lines[i])]
           S(f) == {i \in Nat : i <= n => MatcherOK(f[i], First(i), Segment, Data)}
<1>1. n \in Nat /\ NewHostMatcher \in V /\ \A i \in 1..n : lines[i] \in AssetLines(Segment, Data)
  BY NewMatcherOK DEF MatcherOK
<1>2. \A i \in 0..n : First(i) \in SUBSET AssetLines(Segment, Data)
  BY <1>1
<1>3. \A i \in 1..n : First(i) = First(i - 1) \cup {lines[i]}
  OBVIOUS
<1>4. First(0) = {} /\ First(n) = ToSet(lines)
  BY DEF ToSet
<1>5. ASSUME NEW i \in 1..n, NEW m, MatcherOK(m, First(i - 1), Segment, Data)
      PROVE  MatcherOK(AddAsset(m, lines[i]), First(i), Segment, Data)
  <2>1. i - 1 \in 0..n
    OBVIOUS
  <2> HIDE DEF First, n
  <2>2. QED
    BY <1>1, <1>2, <1>3, <1>5, <2>1, AddAssetOK
<1> HIDE DEF First
<1>6. \A i \in 1..n : \A m \in V :
         step[i][m] = IF MatcherOK(m, First(i - 1), Segment, Data) THEN AddAsset(m, lines[i]) ELSE m
  OBVIOUS
<1>7. StepsIn(V, n, step)
  <2> HIDE DEF V, step
  <2>1. \A i \in 1..n : \A m : MatcherOK(m, First(i), Segment, Data) => m \in V
    BY DEF MatcherOK, V
  <2>2. QED
    BY <1>5, <1>6, <2>1 DEF StepsIn
<1>8. PICK f \in [0..n -> V] : Iterates(f, NewHostMatcher, n, step)
  <2> HIDE DEF n, V, step
  <2>1. QED
    BY <1>1, <1>7, Recursion
<1> HIDE DEF V, step
<1>9. f[0] = NewHostMatcher /\ \A i \in 1..n : f[i] = step[i][f[i - 1]] /\ f[i - 1] \in V
  BY <1>1, <1>8 DEF Iterates
<1>10. \A i \in Nat : i \in S(f)
  <2>1. 0 \in S(f)
    <3>0. f[0] = NewHostMatcher /\ First(0) = {}
      BY <1>4, <1>9
    <3>1. MatcherOK(f[0], First(0), Segment, Data)
      BY <3>0, NewMatcherOK, Zenon
    <3>2. QED
      BY <3>1
  <2>2. ASSUME NEW i \in Nat, i \in S(f)  PROVE i + 1 \in S(f)
    <3>1. SUFFICES ASSUME i + 1 <= n PROVE MatcherOK(f[i + 1], First(i + 1), Segment, Data)
      OBVIOUS
    <3>2. i + 1 \in 1..n /\ (i + 1) - 1 = i /\ MatcherOK(f[i], First(i), Segment, Data)
      BY <1>1, <2>2, <3>1
    <3>3. f[i + 1] = AddAsset(f[i], lines[i + 1])
      BY <1>6, <1>9, <3>2
    <3>4. QED
      BY <1>5, <3>2, <3>3
  <2> HIDE DEF S
  <2>3. QED
    BY <2>1, <2>2, Induction
<1>11. f = Body(f)
  <2>1. ASSUME NEW i \in 1..n  PROVE f[i] = AddAsset(f[i - 1], lines[i])
    <3>1. i - 1 \in Nat /\ i - 1 <= n
      OBVIOUS
    <3>2. MatcherOK(f[i - 1], First(i - 1), Segment, Data)
      BY <1>10, <3>1
    <3>3. QED
      BY <1>6, <1>9, <3>2
  <2>2. QED
    BY <1>1, <1>9, <2>1, <1>8
<1> DEFINE R == CHOOSE g : g = Body(g)
<1>12. R = Body(R)
  <2> HIDE DEF Body
  <2>1. QED
    BY <1>11
<1>13. Matcher(lines) = R[n]
  BY DEF Matcher
<1> HIDE DEF R
<1>14. R[0] = NewHostMatcher /\ \A i \in 1..n : R[i] = AddAsset(R[i - 1], lines[i])
  <2>1. \A i \in 0..n : Body(R)[i] = IF i = 0 THEN NewHostMatcher ELSE AddAsset(R[i - 1], lines[i])
    OBVIOUS
  <2> HIDE DEF Body
  <2>2. \A i \in 0..n : R[i] = IF i = 0 THEN NewHostMatcher ELSE AddAsset(R[i - 1], lines[i])
    BY <1>12, <2>1
  <2>3. QED
    BY <1>1, <2>2
<1>15. \A i \in Nat : i \in S(R)
  <2>1. 0 \in S(R)
    BY <1>4, <1>14, NewMatcherOK
  <2>2. ASSUME NEW i \in Nat, i \in S(R)  PROVE i + 1 \in S(R)
    <3>1. SUFFICES ASSUME i + 1 <= n PROVE MatcherOK(R[i + 1], First(i + 1), Segment, Data)
      OBVIOUS
    <3>2. i + 1 \in 1..n /\ (i + 1) - 1 = i /\ MatcherOK(R[i], First(i), Segment, Data)
      BY <1>1, <2>2, <3>1
    <3>3. QED
      BY <1>5, <1>14, <3>2
  <2> HIDE DEF S
  <2>3. QED
    BY <2>1, <2>2, Induction
<1>16. QED
  BY <1>1, <1>4, <1>13, <1>15

(* The two tries of a matcher each give a host what fits it of what they   *)
(* hold.                                                                   *)
LEMMA MatcherGets ==
  ASSUME NEW Segment, "*" \in Segment, NEW Data, NEW hm, NEW L, NEW host \in Seq(Segment),
         MatcherOK(hm, L, Segment, Data)
  PROVE  /\ TrieGet(hm.primary, host) = Fitting(Given(L, Segment, Data), host)
         /\ TrieGet(hm.exceptions, host) = Fitting(Taken(L, Segment, Data), host)
<1>1. ASSUME NEW held, held \in SUBSET (Seq(Segment) \X Data),
             NEW trie, NodesOK(trie, Segment), Holds(trie, held)
      PROVE  TrieGet(trie, host) = Fitting(held, host)
  BY <1>1, GetsWhatItHolds, Zenon
<1>2. /\ Given(L, Segment, Data) \in SUBSET (Seq(Segment) \X Data)
      /\ Taken(L, Segment, Data) \in SUBSET (Seq(Segment) \X Data)
  BY DEF Given, Taken
<1>3. /\ NodesOK(hm.primary, Segment) /\ NodesOK(hm.exceptions, Segment)
      /\ Holds(hm.primary, Given(L, Segment, Data)) /\ Holds(hm.exceptions, Taken(L, Segment, Data))
  BY DEF MatcherOK
<1>4. QED
  BY <1>1, <1>2, <1>3

(* For any list of lines, in any order, and any host, the tries of the two *)
(* stores give what the lines looked at one by one give: a pattern for a   *)
(* host or its subdomains, * for one segment or more, exceptions and ~     *)
(* taken away wherever they come (hostmatch, HostMatcher.Get).             *)
THEOREM HostTriesAgree ==
  ASSUME NEW Segment, "*" \in Segment, NEW Data, NEW lines \in Seq(AssetLines(Segment, Data)),
         NEW host \in Seq(Segment)
  PROVE  HostGet(Matcher(lines), host) = Wanted(ToSet(lines), host)
<1> DEFINE hm == Matcher(lines)
           L == ToSet(lines)
           given == Given(L, Segment, Data)
           taken == Taken(L, Segment, Data)
<1>1. MatcherOK(hm, L, Segment, Data)
  BY ListMatcherOK
<1>2. L \in SUBSET AssetLines(Segment, Data)
  BY DEF ToSet
<1>3. \A l \in L : /\ l.exc \in BOOLEAN /\ l.data \in Data
                   /\ l.patterns \in Seq(Pattern(Segment))
  BY <1>2 DEF AssetLines
<1> HIDE DEF hm, L
<1> HIDE DEF given, taken
<1>5. /\ TrieGet(hm.primary, host) = Fitting(given, host)
      /\ TrieGet(hm.exceptions, host) = Fitting(taken, host)
  BY <1>1, MatcherGets DEF given, taken
<1> DEFINE Names(l, neg) == \E p \in Hosts(l.exc, l.patterns, neg) : HostMatches(p, host)
<1>6. ASSUME NEW v
      PROVE  v \in TrieGet(hm.primary, host) <=> \E l \in L : ~l.exc /\ Names(l, FALSE) /\ l.data = v
  <2>1. v \in TrieGet(hm.primary, host) <=> \E e \in given : HostMatches(e[1], host) /\ e[2] = v
    BY <1>5 DEF Fitting, given
  <2>2. ASSUME NEW l \in L, ~l.exc, NEW p \in Hosts(l.exc, l.patterns, FALSE)
        PROVE  <<p, l.data>> \in given
    BY <1>3, <2>2, HostsAreHosts DEF Given, given
  <2>3. QED
    BY <1>3, <2>1, <2>2 DEF Given, given
<1>7. ASSUME NEW v
      PROVE  v \in TrieGet(hm.exceptions, host) <=> \E l \in L : Names(l, ~l.exc) /\ l.data = v
  <2>1. v \in TrieGet(hm.exceptions, host) <=> \E e \in taken : HostMatches(e[1], host) /\ e[2] = v
    BY <1>5 DEF Fitting, taken
  <2>2. ASSUME NEW l \in L, NEW p \in Hosts(l.exc, l.patterns, ~l.exc)
        PROVE  <<p, l.data>> \in taken
    BY <1>3, <2>2, HostsAreHosts DEF Taken, taken
  <2>3. ASSUME NEW e \in taken  PROVE \E l \in L : e[1] \in Hosts(l.exc, l.patterns, ~l.exc) /\ l.data = e[2]
    BY DEF Taken, taken
  <2>4. ASSUME NEW l \in L, Names(l, ~l.exc), l.data = v
        PROVE  \E e \in taken : HostMatches(e[1], host) /\ e[2] = v
    <3>1. PICK p \in Hosts(l.exc, l.patterns, ~l.exc) : HostMatches(p, host)
      BY <2>4
    <3>2. <<p, l.data>>[1] = p /\ <<p, l.data>>[2] = l.data
      OBVIOUS
    <3>3. QED
      BY <2>2, <2>4, <3>1, <3>2
  <2> HIDE DEF taken
  <2>5. QED
    BY <2>1, <2>3, <2>4
<1>8. Wanted(L, host) = {l.data : l \in {x \in L : ~x.exc /\ (x.patterns = <<>> \/ Names(x, FALSE))}}
        \ {l.data : l \in {x \in L : (x.exc /\ x.patterns = <<>>) \/ Names(x, ~x.exc)}}
  BY DEF Wanted
<1> HIDE DEF Names
<1>9. ASSUME NEW v  PROVE v \in HostGet(hm, host) <=> v \in Wanted(L, host)
  <2>1. /\ v \in hm.generic <=> \E l \in L : ~l.exc /\ l.patterns = <<>> /\ l.data = v
        /\ v \in hm.genericExceptions <=> \E l \in L : l.exc /\ l.patterns = <<>> /\ l.data = v
    BY <1>1 DEF MatcherOK
  <2>2. v \in Wanted(L, host) <=>
          /\ \E l \in L : ~l.exc /\ (l.patterns = <<>> \/ Names(l, FALSE)) /\ l.data = v
          /\ ~\E l \in L : ((l.exc /\ l.patterns = <<>>) \/ Names(l, ~l.exc)) /\ l.data = v
    BY <1>8
  <2>3. v \in HostGet(hm, host) <=>
          /\ v \in hm.generic \/ v \in TrieGet(hm.primary, host)
          /\ ~(v \in hm.genericExceptions \/ v \in TrieGet(hm.exceptions, host))
    BY DEF HostGet
  <2>4. QED
    BY <1>6, <1>7, <2>1, <2>2, <2>3
<1>10. HostGet(hm, host) = Wanted(L, host)
  BY <1>9
<1>11. QED
  BY <1>10 DEF hm, L

=============================================================================
