----------------------- MODULE FilterListStore_proofs -----------------------
(***************************************************************************)
(* The safety properties of FilterListStore, and that it implements        *)
(* SingleFlight, for any finite set of calls, any set of URLs, any number  *)
(* of slots, retries and versions.                                         *)
(***************************************************************************)
EXTENDS FilterListStore, FiniteSetTheorems, TLAPS

-----------------------------------------------------------------------------
(* The inductive invariant                                                 *)

(* A call under way has its URL, a stream has a body, and a call that has   *)
(* not begun holds nothing.                                                 *)
CallInv ==
  \A g \in Getter :
    /\ pc[g] = "idle" => call[g].stale = NoEntry
    /\ pc[g] \notin Outcome \cup {"idle"} => call[g].url \in Url
    /\ pc[g] = "stream" => call[g].body # 0

(* The map of flights holds the calls that lead one, each under its URL,   *)
(* and a call that waits, waits for one of them.                           *)
FlightInv ==
  /\ \A u \in Url : inflight[u] # NoGetter =>
       /\ Leads(inflight[u])
       /\ call[inflight[u]].url = u
  /\ OneDownload
  /\ \A g \in Getter : pc[g] = "wait" => inflight[call[g].url] # NoGetter

(* With a consistent origin the versions of a list are in order: what a    *)
(* call holds as stale, then the copy in the cache, then the body that is  *)
(* streamed to replace it, then what is published.                         *)
StaleInOrder(g) ==
  call[g].stale # NoEntry =>
    /\ call[g].url \in Url
    /\ call[g].stale.content <= upstream[call[g].url]
    /\ \/ cache[call[g].url] = NoEntry
       \/ call[g].stale.content <= cache[call[g].url].content

StreamInOrder(g) ==
  pc[g] = "stream" =>
    /\ cache[call[g].url].content <= call[g].body
    /\ call[g].body <= upstream[call[g].url]
    /\ \A h \in Getter : call[h].url = call[g].url => call[h].stale.content <= call[g].body

VersionInv ==
  /\ \A u \in Url : cache[u].content <= upstream[u]
  /\ \A g \in Getter : StaleInOrder(g) /\ StreamInOrder(g)

IInv ==
  /\ TypeOK /\ CallInv /\ FlightInv /\ SlotsAreHeld
  /\ ValidatorsMatch /\ (ConsistentOrigin => VersionInv)

-----------------------------------------------------------------------------
(* The types of a call's record under the changes the actions make to it.  *)
LEMMA CallFields ==
  ASSUME NEW c \in Call
  PROVE  /\ c.stale \in Entry \cup {NoEntry}
         /\ c.body \in Version
         /\ c.attempt \in 0 .. Retries
         /\ \A u \in Url, m \in Mode : [c EXCEPT !.url = u, !.mode = m] \in Call
         /\ \A e \in Entry \cup {NoEntry} : [c EXCEPT !.stale = e] \in Call
         /\ \A n \in 0 .. Retries : [c EXCEPT !.attempt = n] \in Call
         /\ \A v \in Version, b \in BOOLEAN :
              [c EXCEPT !.body = v, !.copying = b, !.stale = NoEntry] \in Call
         /\ [c EXCEPT !.copying = FALSE] \in Call
         /\ [c EXCEPT !.ctxDone = TRUE] \in Call
BY DEF Call

(* A call that has not begun has a record too.                             *)
LEMMA NoCallType == NoCall \in Call
BY RetriesAssumption, VersionsAssumption DEF NoCall, Call, Mode, Version

(* What a cache entry is made of; NoEntry is none, by its content.         *)
LEMMA EntryFields ==
  /\ NoEntry \notin Entry /\ NoEntry.content = 0 /\ NoEntry.etag = 0 /\ NoEntry.fresh = FALSE
  /\ \A e \in Entry : e.content \in Version \ {0} /\ e.etag \in Version
BY DEF NoEntry, Entry

(* An entry stays one as it expires, is refreshed or is replaced.          *)
LEMMA EntryChanges ==
  ASSUME NEW e \in Entry, NEW v \in Version
  PROVE  /\ [e EXCEPT !.fresh = FALSE] \in Entry
         /\ [e EXCEPT !.fresh = TRUE, !.etag = v] \in Entry
         /\ v # 0 => [content |-> v, etag |-> v, fresh |-> TRUE] \in Entry
BY DEF Entry

(* An origin answers with a version that was published.                    *)
LEMMA ReplyType ==
  ASSUME TypeOK, NEW g \in Getter, call[g].url \in Url
  PROVE  \A v \in Reply(g) : v \in Version \ {0} /\ v <= upstream[call[g].url]
BY VersionsAssumption DEF TypeOK, Reply, Version

(* A download that backs off has attempts left.                            *)
LEMMA AttemptsBound ==
  ASSUME TypeOK, NEW g \in Getter, BackOff(g)
  PROVE  call[g].attempt + 1 \in 0 .. Retries
<1>1. call[g].attempt \in 0 .. Retries
  BY CallFields DEF TypeOK
<1>2. call[g].attempt + 1 < Attempts(g)
  BY DEF BackOff
<1>3. Attempts(g) = 1 \/ Attempts(g) = Retries + 1
  BY DEF Attempts
<1>4. QED
  BY <1>1, <1>2, <1>3, RetriesAssumption

(* The types of the store's own state.                                     *)
StoreOK ==
  /\ cache \in [Url -> Entry \cup {NoEntry}]
  /\ upstream \in [Url -> Version \ {0}]
  /\ sem \in 0..Slots
  /\ inflight \in [Url -> Getter \cup {NoGetter}]
  /\ pc \in [Getter -> Step]

(* A step keeps the types of the store's state.                            *)
LEMMA StoreStep ==
  ASSUME TypeOK, CallInv, [Next]_vars
  PROVE  StoreOK'
<1> USE SlotsAssumption, GetterAssumption
  DEF TypeOK, StoreOK, CallInv, Step, Waiting, Outcome, Goto, ExitFlight, Finish
<1>1. ASSUME NEW g \in Getter, Get(g)  PROVE StoreOK'
  BY <1>1 DEF Get
<1>2. ASSUME NEW g \in Getter, LoadServes(g)  PROVE StoreOK'
  BY <1>2 DEF LoadServes
<1>3. ASSUME NEW g \in Getter, LoadHolds(g)  PROVE StoreOK'
  BY <1>3 DEF LoadHolds
<1>4. ASSUME NEW g \in Getter, LoadMisses(g)  PROVE StoreOK'
  BY <1>4 DEF LoadMisses
<1>5. ASSUME NEW g \in Getter, EnterFlight(g)  PROVE StoreOK'
  BY <1>5 DEF EnterFlight, Holding, Leading
<1>6. ASSUME NEW g \in Getter, FlightLanded(g)  PROVE StoreOK'
  BY <1>6 DEF FlightLanded
<1>7. ASSUME NEW g \in Getter, WaitCancelled(g)  PROVE StoreOK'
  BY <1>7 DEF WaitCancelled
<1>8. ASSUME NEW g \in Getter, AcquireSlot(g)  PROVE StoreOK'
  BY <1>8 DEF AcquireSlot, Holding, Leading
<1>9. ASSUME NEW g \in Getter, AcquireCancelled(g)  PROVE StoreOK'
  BY <1>9 DEF AcquireCancelled
<1>10. ASSUME NEW g \in Getter, BackOff(g)  PROVE StoreOK'
  BY <1>10 DEF BackOff, Holding, Leading
<1>11. ASSUME NEW g \in Getter, SleepEnds(g)  PROVE StoreOK'
  BY <1>11 DEF SleepEnds, Holding, Leading
<1>12. ASSUME NEW g \in Getter, GiveUp(g)  PROVE StoreOK'
  BY <1>12 DEF GiveUp
<1>13. ASSUME NEW g \in Getter, FallBack(g)  PROVE StoreOK'
  BY <1>13 DEF FallBack
<1>14. ASSUME NEW g \in Getter, NotModified(g)  PROVE StoreOK'
  BY <1>14, CallFields, EntryFields, EntryChanges DEF NotModified, Holding, Leading
<1>15. ASSUME NEW g \in Getter, ServeConfirmed(g)  PROVE StoreOK'
  BY <1>15 DEF ServeConfirmed
<1>16. ASSUME NEW g \in Getter, Fetched(g)  PROVE StoreOK'
  BY <1>16 DEF Fetched, Holding, Leading
<1>17. ASSUME NEW g \in Getter, ReadEOF(g)  PROVE StoreOK'
  <2>1. call[g].url \in Url /\ call[g].body \in Version \ {0}
    BY <1>17, CallFields DEF ReadEOF
  <2>2. [content |-> call[g].body, etag |-> call[g].body, fresh |-> TRUE] \in Entry
    BY <2>1 DEF Entry
  <2>3. cache' \in [Url -> Entry \cup {NoEntry}]
    BY <1>17, <2>1, <2>2 DEF ReadEOF
  <2>4. QED
    BY <1>17, <2>3 DEF ReadEOF, Holding, Leading
<1>18. ASSUME NEW g \in Getter, Terminate(g)  PROVE StoreOK'
  BY <1>18 DEF Terminate
<1>19. ASSUME NEW g \in Getter, ReadBreaks(g)  PROVE StoreOK'
  BY <1>19 DEF ReadBreaks
<1>20. ASSUME NEW g \in Getter, CloseReader(g)  PROVE StoreOK'
  BY <1>20 DEF CloseReader
<1>21. ASSUME NEW g \in Getter, CopyFails(g)  PROVE StoreOK'
  BY <1>21 DEF CopyFails
<1>22. ASSUME NEW g \in Getter, CtxEnds(g)  PROVE StoreOK'
  BY <1>22 DEF CtxEnds
<1>23. ASSUME NEW u \in Url, Publish(u)  PROVE StoreOK'
  BY <1>23, VersionsAssumption DEF Publish, Version
<1>24. ASSUME NEW u \in Url, Expire(u)  PROVE StoreOK'
  BY <1>24, EntryFields, EntryChanges DEF Expire
<1>25. ASSUME NEW u \in Url, Purge(u)  PROVE StoreOK'
  BY <1>25 DEF Purge
<1>26. ASSUME UNCHANGED vars  PROVE StoreOK'
  BY <1>26 DEF vars
<1>27. QED
  BY <1>1, <1>2, <1>3, <1>4, <1>5, <1>6, <1>7, <1>8, <1>9, <1>10, <1>11,
     <1>12, <1>13, <1>14, <1>15, <1>16, <1>17, <1>18, <1>19, <1>20, <1>21,
     <1>22, <1>23, <1>24, <1>25, <1>26
  DEF Next, Progress, AllDone

(* A step keeps the type of every call's record.                           *)
LEMMA CallsStep ==
  ASSUME TypeOK, CallInv, [Next]_vars
  PROVE  call' \in [Getter -> Call]
<1> USE CallFields, NoCallType DEF TypeOK, Forget, CopyOf
<1>1. ASSUME NEW g \in Getter, Get(g)  PROVE call' \in [Getter -> Call]
  <2>1. PICK u \in Url, m \in Mode :
          call' = [call EXCEPT ![g] = [@ EXCEPT !.url = u, !.mode = m]]
    BY <1>1 DEF Get
  <2>2. QED
    BY <2>1
<1>2. ASSUME NEW g \in Getter, LoadServes(g)  PROVE call' \in [Getter -> Call]
  BY <1>2 DEF LoadServes
<1>3. ASSUME NEW g \in Getter, LoadHolds(g)  PROVE call' \in [Getter -> Call]
  BY <1>3 DEF LoadHolds, CallInv, Outcome
<1>4. ASSUME NEW g \in Getter, LoadMisses(g)  PROVE call' \in [Getter -> Call]
  BY <1>4 DEF LoadMisses
<1>5. ASSUME NEW g \in Getter, EnterFlight(g)  PROVE call' \in [Getter -> Call]
  <2>1. call' = call \/ call' = [call EXCEPT ![g] = [@ EXCEPT !.stale = NoEntry]]
    BY <1>5 DEF EnterFlight
  <2>2. [call[g] EXCEPT !.stale = NoEntry] \in Call
    OBVIOUS
  <2>3. QED
    BY <2>1, <2>2
<1>6. ASSUME NEW g \in Getter, FlightLanded(g)  PROVE call' \in [Getter -> Call]
  BY <1>6 DEF FlightLanded
<1>7. ASSUME NEW g \in Getter, WaitCancelled(g)  PROVE call' \in [Getter -> Call]
  BY <1>7 DEF WaitCancelled
<1>8. ASSUME NEW g \in Getter, AcquireSlot(g)  PROVE call' \in [Getter -> Call]
  BY <1>8 DEF AcquireSlot
<1>9. ASSUME NEW g \in Getter, AcquireCancelled(g)  PROVE call' \in [Getter -> Call]
  BY <1>9 DEF AcquireCancelled
<1>10. ASSUME NEW g \in Getter, BackOff(g)  PROVE call' \in [Getter -> Call]
  <2>2. call[g].attempt + 1 \in 0 .. Retries
    BY <1>10, AttemptsBound
  <2>3. call' = [call EXCEPT ![g] = [@ EXCEPT !.attempt = call[g].attempt + 1]]
    BY <1>10 DEF BackOff
  <2>4. QED
    BY <2>2, <2>3
<1>11. ASSUME NEW g \in Getter, SleepEnds(g)  PROVE call' \in [Getter -> Call]
  BY <1>11 DEF SleepEnds
<1>12. ASSUME NEW g \in Getter, GiveUp(g)  PROVE call' \in [Getter -> Call]
  BY <1>12 DEF GiveUp
<1>13. ASSUME NEW g \in Getter, FallBack(g)  PROVE call' \in [Getter -> Call]
  BY <1>13 DEF FallBack
<1>14. ASSUME NEW g \in Getter, NotModified(g)  PROVE call' \in [Getter -> Call]
  BY <1>14 DEF NotModified
<1>15. ASSUME NEW g \in Getter, ServeConfirmed(g)  PROVE call' \in [Getter -> Call]
  BY <1>15 DEF ServeConfirmed
<1>16. ASSUME NEW g \in Getter, Fetched(g)  PROVE call' \in [Getter -> Call]
  <2>1. PICK v \in Reply(g), b \in BOOLEAN :
          call' = [call EXCEPT ![g].body = v, ![g].copying = b, ![g].stale = NoEntry]
    BY <1>16 DEF Fetched
  <2>2. v \in Version
    BY <1>16, ReplyType DEF Fetched, CallInv, Outcome
  <2>3. [call[g] EXCEPT !.body = v, !.copying = b, !.stale = NoEntry] \in Call
    BY <2>2
  <2>4. QED
    BY <2>1, <2>3
<1>17. ASSUME NEW g \in Getter, ReadEOF(g)  PROVE call' \in [Getter -> Call]
  BY <1>17 DEF ReadEOF
<1>18. ASSUME NEW g \in Getter, Terminate(g)  PROVE call' \in [Getter -> Call]
  BY <1>18 DEF Terminate
<1>19. ASSUME NEW g \in Getter, ReadBreaks(g)  PROVE call' \in [Getter -> Call]
  BY <1>19 DEF ReadBreaks
<1>20. ASSUME NEW g \in Getter, CloseReader(g)  PROVE call' \in [Getter -> Call]
  BY <1>20 DEF CloseReader
<1>21. ASSUME NEW g \in Getter, CopyFails(g)  PROVE call' \in [Getter -> Call]
  BY <1>21 DEF CopyFails
<1>22. ASSUME NEW g \in Getter, CtxEnds(g)  PROVE call' \in [Getter -> Call]
  BY <1>22 DEF CtxEnds
<1>23. ASSUME NEW u \in Url, Publish(u)  PROVE call' \in [Getter -> Call]
  BY <1>23 DEF Publish
<1>24. ASSUME NEW u \in Url, Expire(u)  PROVE call' \in [Getter -> Call]
  BY <1>24 DEF Expire
<1>25. ASSUME NEW u \in Url, Purge(u)  PROVE call' \in [Getter -> Call]
  BY <1>25 DEF Purge
<1>26. ASSUME UNCHANGED vars  PROVE call' \in [Getter -> Call]
  BY <1>26 DEF vars
<1>27. QED
  BY <1>1, <1>2, <1>3, <1>4, <1>5, <1>6, <1>7, <1>8, <1>9, <1>10, <1>11,
     <1>12, <1>13, <1>14, <1>15, <1>16, <1>17, <1>18, <1>19, <1>20, <1>21,
     <1>22, <1>23, <1>24, <1>25, <1>26
  DEF Next, Progress, AllDone

(* A call under way keeps its URL, and a stream its body.                  *)
LEMMA CallInvStep ==
  ASSUME TypeOK, CallInv, [Next]_vars
  PROVE  CallInv'
<1> USE DEF TypeOK, CallInv, Call, Step, Waiting, Outcome, Goto, Forget, ExitFlight, Finish
<1>1. ASSUME NEW g \in Getter, Get(g)  PROVE CallInv'
  BY <1>1 DEF Get
<1>2. ASSUME NEW g \in Getter, LoadServes(g)  PROVE CallInv'
  BY <1>2 DEF LoadServes
<1>3. ASSUME NEW g \in Getter, LoadHolds(g)  PROVE CallInv'
  BY <1>3 DEF LoadHolds
<1>4. ASSUME NEW g \in Getter, LoadMisses(g)  PROVE CallInv'
  BY <1>4 DEF LoadMisses
<1>5. ASSUME NEW g \in Getter, EnterFlight(g)  PROVE CallInv'
  BY <1>5 DEF EnterFlight
<1>6. ASSUME NEW g \in Getter, FlightLanded(g)  PROVE CallInv'
  BY <1>6 DEF FlightLanded
<1>7. ASSUME NEW g \in Getter, WaitCancelled(g)  PROVE CallInv'
  BY <1>7 DEF WaitCancelled
<1>8. ASSUME NEW g \in Getter, AcquireSlot(g)  PROVE CallInv'
  BY <1>8 DEF AcquireSlot
<1>9. ASSUME NEW g \in Getter, AcquireCancelled(g)  PROVE CallInv'
  BY <1>9 DEF AcquireCancelled
<1>10. ASSUME NEW g \in Getter, BackOff(g)  PROVE CallInv'
  BY <1>10 DEF BackOff
<1>11. ASSUME NEW g \in Getter, SleepEnds(g)  PROVE CallInv'
  BY <1>11 DEF SleepEnds
<1>12. ASSUME NEW g \in Getter, GiveUp(g)  PROVE CallInv'
  BY <1>12 DEF GiveUp
<1>13. ASSUME NEW g \in Getter, FallBack(g)  PROVE CallInv'
  BY <1>13 DEF FallBack
<1>14. ASSUME NEW g \in Getter, NotModified(g)  PROVE CallInv'
  BY <1>14 DEF NotModified
<1>15. ASSUME NEW g \in Getter, ServeConfirmed(g)  PROVE CallInv'
  BY <1>15 DEF ServeConfirmed
<1>16. ASSUME NEW g \in Getter, Fetched(g)  PROVE CallInv'
  BY <1>16, ReplyType DEF Fetched
<1>17. ASSUME NEW g \in Getter, ReadEOF(g)  PROVE CallInv'
  BY <1>17 DEF ReadEOF
<1>18. ASSUME NEW g \in Getter, Terminate(g)  PROVE CallInv'
  BY <1>18 DEF Terminate
<1>19. ASSUME NEW g \in Getter, ReadBreaks(g)  PROVE CallInv'
  BY <1>19 DEF ReadBreaks
<1>20. ASSUME NEW g \in Getter, CloseReader(g)  PROVE CallInv'
  BY <1>20 DEF CloseReader
<1>21. ASSUME NEW g \in Getter, CopyFails(g)  PROVE CallInv'
  BY <1>21 DEF CopyFails
<1>22. ASSUME NEW g \in Getter, CtxEnds(g)  PROVE CallInv'
  BY <1>22 DEF CtxEnds
<1>23. ASSUME NEW u \in Url, Publish(u)  PROVE CallInv'
  BY <1>23 DEF Publish
<1>24. ASSUME NEW u \in Url, Expire(u)  PROVE CallInv'
  BY <1>24 DEF Expire
<1>25. ASSUME NEW u \in Url, Purge(u)  PROVE CallInv'
  BY <1>25 DEF Purge
<1>26. ASSUME UNCHANGED vars  PROVE CallInv'
  BY <1>26 DEF vars
<1>27. QED
  BY <1>1, <1>2, <1>3, <1>4, <1>5, <1>6, <1>7, <1>8, <1>9, <1>10, <1>11,
     <1>12, <1>13, <1>14, <1>15, <1>16, <1>17, <1>18, <1>19, <1>20, <1>21,
     <1>22, <1>23, <1>24, <1>25, <1>26
  DEF Next, Progress, AllDone

(* The types and what a call under way has are kept together.              *)
LEMMA TypeStep ==
  ASSUME TypeOK, CallInv, [Next]_vars
  PROVE  TypeOK' /\ CallInv'
BY StoreStep, CallsStep, CallInvStep DEF TypeOK, StoreOK

-----------------------------------------------------------------------------
(* The map of flights keeps step with the calls that lead one.             *)
LEMMA FlightStep ==
  ASSUME TypeOK, CallInv, FlightInv, [Next]_vars
  PROVE  FlightInv'
<1> USE GetterAssumption
  DEF TypeOK, CallInv, FlightInv, OneDownload, Leads, Leading, Holding, Waiting, Outcome,
      Call, Goto, Forget, ExitFlight, Finish
<1>1. ASSUME NEW g \in Getter, Get(g)  PROVE FlightInv'
  BY <1>1 DEF Get
<1>2. ASSUME NEW g \in Getter, LoadServes(g)  PROVE FlightInv'
  BY <1>2 DEF LoadServes
<1>3. ASSUME NEW g \in Getter, LoadHolds(g)  PROVE FlightInv'
  BY <1>3 DEF LoadHolds
<1>4. ASSUME NEW g \in Getter, LoadMisses(g)  PROVE FlightInv'
  BY <1>4 DEF LoadMisses
<1>5. ASSUME NEW g \in Getter, EnterFlight(g)  PROVE FlightInv'
  <2>1. CASE inflight[call[g].url] = NoGetter
    <3>1. /\ inflight' = [inflight EXCEPT ![call[g].url] = g]
          /\ pc' = [pc EXCEPT ![g] = "acquire"]
          /\ call' = call /\ pc[g] = "enter" /\ call[g].url \in Url
      BY <1>5, <2>1 DEF EnterFlight
    <3>2. \A u \in Url : inflight[u] # g
      BY <3>1
    <3>3. QED
      BY <2>1, <3>1, <3>2
  <2>2. CASE inflight[call[g].url] # NoGetter
    <3>1. /\ inflight' = inflight
          /\ pc' = [pc EXCEPT ![g] = "wait"]
          /\ call' = [call EXCEPT ![g] = [@ EXCEPT !.stale = NoEntry]]
      BY <1>5, <2>2 DEF EnterFlight
    <3>2. \A x \in Getter : call'[x].url = call[x].url
      BY <3>1
    <3>3. pc[g] = "enter"
      BY <1>5 DEF EnterFlight
    <3>4. QED
      BY <2>2, <3>1, <3>2, <3>3
  <2>3. QED
    BY <2>1, <2>2
<1>6. ASSUME NEW g \in Getter, FlightLanded(g)  PROVE FlightInv'
  BY <1>6 DEF FlightLanded
<1>7. ASSUME NEW g \in Getter, WaitCancelled(g)  PROVE FlightInv'
  BY <1>7 DEF WaitCancelled
<1>8. ASSUME NEW g \in Getter, AcquireSlot(g)  PROVE FlightInv'
  BY <1>8 DEF AcquireSlot
<1>9. ASSUME NEW g \in Getter, AcquireCancelled(g)  PROVE FlightInv'
  BY <1>9 DEF AcquireCancelled
<1>10. ASSUME NEW g \in Getter, BackOff(g)  PROVE FlightInv'
  BY <1>10 DEF BackOff
<1>11. ASSUME NEW g \in Getter, SleepEnds(g)  PROVE FlightInv'
  BY <1>11 DEF SleepEnds
<1>12. ASSUME NEW g \in Getter, GiveUp(g)  PROVE FlightInv'
  <2>1. PICK s \in {"failed", "fallback"} : ExitFlight(g, s)
    BY <1>12 DEF GiveUp
  <2>2. \A x \in Getter \ {g} : call'[x] = call[x]
    BY <1>12 DEF GiveUp
  <2>3. pc[g] = "attempt" /\ inflight[call[g].url] = g
    BY <1>12 DEF GiveUp
  <2>4. QED
    BY <2>1, <2>2, <2>3
<1>13. ASSUME NEW g \in Getter, FallBack(g)  PROVE FlightInv'
  BY <1>13 DEF FallBack
<1>14. ASSUME NEW g \in Getter, NotModified(g)  PROVE FlightInv'
  BY <1>14 DEF NotModified
<1>15. ASSUME NEW g \in Getter, ServeConfirmed(g)  PROVE FlightInv'
  BY <1>15 DEF ServeConfirmed
<1>16. ASSUME NEW g \in Getter, Fetched(g)  PROVE FlightInv'
  BY <1>16 DEF Fetched
<1>17. ASSUME NEW g \in Getter, ReadEOF(g)  PROVE FlightInv'
  BY <1>17 DEF ReadEOF
<1>18. ASSUME NEW g \in Getter, Terminate(g)  PROVE FlightInv'
  BY <1>18 DEF Terminate
<1>19. ASSUME NEW g \in Getter, ReadBreaks(g)  PROVE FlightInv'
  BY <1>19 DEF ReadBreaks
<1>20. ASSUME NEW g \in Getter, CloseReader(g)  PROVE FlightInv'
  BY <1>20 DEF CloseReader
<1>21. ASSUME NEW g \in Getter, CopyFails(g)  PROVE FlightInv'
  BY <1>21 DEF CopyFails
<1>22. ASSUME NEW g \in Getter, CtxEnds(g)  PROVE FlightInv'
  BY <1>22 DEF CtxEnds
<1>23. ASSUME NEW u \in Url, Publish(u)  PROVE FlightInv'
  BY <1>23 DEF Publish
<1>24. ASSUME NEW u \in Url, Expire(u)  PROVE FlightInv'
  BY <1>24 DEF Expire
<1>25. ASSUME NEW u \in Url, Purge(u)  PROVE FlightInv'
  BY <1>25 DEF Purge
<1>26. ASSUME UNCHANGED vars  PROVE FlightInv'
  BY <1>26 DEF vars
<1>27. QED
  BY <1>1, <1>2, <1>3, <1>4, <1>5, <1>6, <1>7, <1>8, <1>9, <1>10, <1>11,
     <1>12, <1>13, <1>14, <1>15, <1>16, <1>17, <1>18, <1>19, <1>20, <1>21,
     <1>22, <1>23, <1>24, <1>25, <1>26
  DEF Next, Progress, AllDone

Holders == {g \in Getter : HoldsSlot(g)}

(* A step that takes a slot adds one holder, and one that gives it back     *)
(* takes one away.                                                         *)
LEMMA HoldersChange ==
  ASSUME SlotsAreHeld, NEW g \in Getter, NEW S, S = Holders'
  PROVE  /\ S = Holders /\ sem' = sem => SlotsAreHeld'
         /\ g \notin Holders /\ S = Holders \cup {g} /\ sem' = sem + 1 => SlotsAreHeld'
         /\ g \in Holders /\ S = Holders \ {g} /\ sem' = sem - 1 => SlotsAreHeld'
<1>1. IsFiniteSet(Holders)
  BY GetterAssumption, FS_Subset DEF Holders
<1>2. sem = Cardinality(Holders) /\ (SlotsAreHeld' <=> sem' = Cardinality(S))
  BY DEF SlotsAreHeld, Holders
<1>3. QED
  BY <1>1, <1>2, FS_AddElement, FS_RemoveElement

(* A slot stays with what holds it.                                        *)
LEMMA SlotStep ==
  ASSUME TypeOK, CallInv, SlotsAreHeld, [Next]_vars
  PROVE  SlotsAreHeld'
<1> USE DEF TypeOK, Holders, HoldsSlot, Holding, Waiting, Outcome, Goto, ExitFlight, Finish
<1>1. ASSUME NEW g \in Getter, Get(g)  PROVE SlotsAreHeld'
  <2>1. Holders' = Holders /\ sem' = sem
    BY <1>1 DEF Get
  <2>2. QED
    BY <2>1, HoldersChange
<1>2. ASSUME NEW g \in Getter, LoadServes(g)  PROVE SlotsAreHeld'
  <2>1. Holders' = Holders /\ sem' = sem
    BY <1>2 DEF LoadServes
  <2>2. QED
    BY <2>1, HoldersChange
<1>3. ASSUME NEW g \in Getter, LoadHolds(g)  PROVE SlotsAreHeld'
  <2>1. Holders' = Holders /\ sem' = sem
    BY <1>3 DEF LoadHolds
  <2>2. QED
    BY <2>1, HoldersChange
<1>4. ASSUME NEW g \in Getter, LoadMisses(g)  PROVE SlotsAreHeld'
  <2>1. Holders' = Holders /\ sem' = sem
    BY <1>4 DEF LoadMisses
  <2>2. QED
    BY <2>1, HoldersChange
<1>5. ASSUME NEW g \in Getter, EnterFlight(g)  PROVE SlotsAreHeld'
  <2>1. Holders' = Holders /\ sem' = sem
    BY <1>5 DEF EnterFlight
  <2>2. QED
    BY <2>1, HoldersChange
<1>6. ASSUME NEW g \in Getter, FlightLanded(g)  PROVE SlotsAreHeld'
  <2>1. Holders' = Holders /\ sem' = sem
    BY <1>6 DEF FlightLanded
  <2>2. QED
    BY <2>1, HoldersChange
<1>7. ASSUME NEW g \in Getter, WaitCancelled(g)  PROVE SlotsAreHeld'
  <2>1. Holders' = Holders /\ sem' = sem
    BY <1>7 DEF WaitCancelled
  <2>2. QED
    BY <2>1, HoldersChange
<1>8. ASSUME NEW g \in Getter, AcquireSlot(g)  PROVE SlotsAreHeld'
  <2>1. g \notin Holders /\ Holders' = Holders \cup {g} /\ sem' = sem + 1
    BY <1>8 DEF AcquireSlot
  <2>2. QED
    BY <2>1, HoldersChange
<1>9. ASSUME NEW g \in Getter, AcquireCancelled(g)  PROVE SlotsAreHeld'
  <2>1. Holders' = Holders /\ sem' = sem
    BY <1>9 DEF AcquireCancelled
  <2>2. QED
    BY <2>1, HoldersChange
<1>10. ASSUME NEW g \in Getter, BackOff(g)  PROVE SlotsAreHeld'
  <2>1. g \in Holders /\ Holders' = Holders \ {g} /\ sem' = sem - 1
    BY <1>10 DEF BackOff
  <2>2. QED
    BY <2>1, HoldersChange
<1>11. ASSUME NEW g \in Getter, SleepEnds(g)  PROVE SlotsAreHeld'
  <2>1. Holders' = Holders /\ sem' = sem
    BY <1>11 DEF SleepEnds
  <2>2. QED
    BY <2>1, HoldersChange
<1>12. ASSUME NEW g \in Getter, GiveUp(g)  PROVE SlotsAreHeld'
  <2>1. g \in Holders /\ Holders' = Holders \ {g} /\ sem' = sem - 1
    BY <1>12 DEF GiveUp
  <2>2. QED
    BY <2>1, HoldersChange
<1>13. ASSUME NEW g \in Getter, FallBack(g)  PROVE SlotsAreHeld'
  <2>1. Holders' = Holders /\ sem' = sem
    BY <1>13 DEF FallBack
  <2>2. QED
    BY <2>1, HoldersChange
<1>14. ASSUME NEW g \in Getter, NotModified(g)  PROVE SlotsAreHeld'
  <2>1. Holders' = Holders /\ sem' = sem
    BY <1>14 DEF NotModified
  <2>2. QED
    BY <2>1, HoldersChange
<1>15. ASSUME NEW g \in Getter, ServeConfirmed(g)  PROVE SlotsAreHeld'
  <2>1. g \in Holders /\ Holders' = Holders \ {g} /\ sem' = sem - 1
    BY <1>15 DEF ServeConfirmed
  <2>2. QED
    BY <2>1, HoldersChange
<1>16. ASSUME NEW g \in Getter, Fetched(g)  PROVE SlotsAreHeld'
  <2>1. Holders' = Holders /\ sem' = sem
    BY <1>16 DEF Fetched
  <2>2. QED
    BY <2>1, HoldersChange
<1>17. ASSUME NEW g \in Getter, ReadEOF(g)  PROVE SlotsAreHeld'
  <2>1. Holders' = Holders /\ sem' = sem
    BY <1>17 DEF ReadEOF
  <2>2. QED
    BY <2>1, HoldersChange
<1>18. ASSUME NEW g \in Getter, Terminate(g)  PROVE SlotsAreHeld'
  <2>1. g \in Holders /\ Holders' = Holders \ {g} /\ sem' = sem - 1
    BY <1>18 DEF Terminate
  <2>2. QED
    BY <2>1, HoldersChange
<1>19. ASSUME NEW g \in Getter, ReadBreaks(g)  PROVE SlotsAreHeld'
  <2>1. g \in Holders /\ Holders' = Holders \ {g} /\ sem' = sem - 1
    BY <1>19 DEF ReadBreaks
  <2>2. QED
    BY <2>1, HoldersChange
<1>20. ASSUME NEW g \in Getter, CloseReader(g)  PROVE SlotsAreHeld'
  <2>1. \/ Holders' = Holders /\ sem' = sem
        \/ g \in Holders /\ Holders' = Holders \ {g} /\ sem' = sem - 1
    BY <1>20 DEF CloseReader
  <2>2. QED
    BY <2>1, HoldersChange
<1>21. ASSUME NEW g \in Getter, CopyFails(g)  PROVE SlotsAreHeld'
  <2>1. Holders' = Holders /\ sem' = sem
    BY <1>21 DEF CopyFails
  <2>2. QED
    BY <2>1, HoldersChange
<1>22. ASSUME NEW g \in Getter, CtxEnds(g)  PROVE SlotsAreHeld'
  <2>1. Holders' = Holders /\ sem' = sem
    BY <1>22 DEF CtxEnds
  <2>2. QED
    BY <2>1, HoldersChange
<1>23. ASSUME NEW u \in Url, Publish(u)  PROVE SlotsAreHeld'
  BY <1>23 DEF Publish, SlotsAreHeld
<1>24. ASSUME NEW u \in Url, Expire(u)  PROVE SlotsAreHeld'
  BY <1>24 DEF Expire, SlotsAreHeld
<1>25. ASSUME NEW u \in Url, Purge(u)  PROVE SlotsAreHeld'
  BY <1>25 DEF Purge, SlotsAreHeld
<1>26. ASSUME UNCHANGED vars  PROVE SlotsAreHeld'
  BY <1>26 DEF vars, SlotsAreHeld
<1>27. QED
  BY <1>1, <1>2, <1>3, <1>4, <1>5, <1>6, <1>7, <1>8, <1>9, <1>10, <1>11,
     <1>12, <1>13, <1>14, <1>15, <1>16, <1>17, <1>18, <1>19, <1>20, <1>21,
     <1>22, <1>23, <1>24, <1>25, <1>26
  DEF Next, Progress, AllDone

-----------------------------------------------------------------------------
(* The steps of SingleFlight.                                              *)
Parts == [g \in Getter |-> Part(g)]
Simulated == Flights!Next \/ Parts' = Parts

(* A step of one call changes its part alone.                              *)
LEMMA PartChange ==
  ASSUME NEW g \in Getter, \A x \in Getter \ {g} : pc'[x] = pc[x] /\ call'[x] = call[x]
  PROVE  Parts' = [Parts EXCEPT ![g] = Part(g)']
BY DEF Parts, Part

(* SingleFlight counts as this module does.                                *)
LEMMA SameCardinality == \A S : Flights!Cardinality(S) = Cardinality(S)
BY DEF Flights!Cardinality, Cardinality

(* The end of a flight is the end of the part of all that take part in it.  *)
LEMMA LeaveStep ==
  ASSUME TypeOK, CallInv, NEW g \in Getter, pc[g] \in Leading,
         NEW s \in {"failed", "fallback", "served", "ended"}, ExitFlight(g, s),
         \A x \in Getter \ {g} : call'[x] = call[x]
  PROVE  Flights!Next
<1>1. call[g].url \in Url
  BY DEF CallInv, Leading, Holding, Outcome
<1>2. Flights!Leads(g, call[g].url)
  BY DEF Flights!Leads, Part, Leading, Holding
<1>3. ASSUME NEW x \in Getter
      PROVE  Part(x)' = IF x = g \/ Part(x) = [role |-> "waits", key |-> call[g].url]
                        THEN Flights!None ELSE Part(x)
  <2>1. CASE x = g
    BY <2>1 DEF TypeOK, ExitFlight, Part, Holding, Flights!None
  <2>2. CASE x # g
    BY <2>2 DEF TypeOK, ExitFlight, Part, Holding, Flights!None
  <2>3. QED
    BY <2>1, <2>2
<1>4. Flights!Leave(g, call[g].url)
  BY <1>2, <1>3 DEF Flights!Leave
<1>5. QED
  BY <1>1, <1>4 DEF Flights!Next

(* A step of the store is a step of SingleFlight, or none.                 *)
LEMMA SimulationStep ==
  ASSUME TypeOK, CallInv, FlightInv, SlotsAreHeld, [Next]_vars
  PROVE  Simulated
<1>1. ASSUME NEW g \in Getter, Get(g)  PROVE Simulated
  <2>1. \A x \in Getter : Part(x)' = Part(x)
    BY <1>1 DEF Get, TypeOK, CallInv, Outcome, Goto, Forget, Part, Holding
  <2>2. QED
    BY <2>1 DEF Parts, Simulated
<1>2. ASSUME NEW g \in Getter, LoadServes(g)  PROVE Simulated
  <2>1. \A x \in Getter : Part(x)' = Part(x)
    BY <1>2 DEF LoadServes, TypeOK, CallInv, Outcome, Goto, Forget, Part, Holding
  <2>2. QED
    BY <2>1 DEF Parts, Simulated
<1>3. ASSUME NEW g \in Getter, LoadHolds(g)  PROVE Simulated
  <2>1. \A x \in Getter : Part(x)' = Part(x)
    BY <1>3 DEF LoadHolds, TypeOK, CallInv, Outcome, Goto, Forget, Part, Holding
  <2>2. QED
    BY <2>1 DEF Parts, Simulated
<1>4. ASSUME NEW g \in Getter, LoadMisses(g)  PROVE Simulated
  <2>1. \A x \in Getter : Part(x)' = Part(x)
    BY <1>4 DEF LoadMisses, TypeOK, CallInv, Outcome, Goto, Forget, Part, Holding
  <2>2. QED
    BY <2>1 DEF Parts, Simulated
<1>5. ASSUME NEW g \in Getter, EnterFlight(g)  PROVE Simulated
  <2> DEFINE u == call[g].url
  <2>1. u \in Url /\ pc[g] = "enter" /\ Part(g) = Flights!None
    BY <1>5 DEF EnterFlight, CallInv, Outcome, Part, Holding, Flights!None
  <2>2. (\E x \in Getter : Flights!Leads(x, u)) <=> inflight[u] # NoGetter
    <3>1. \A x \in Getter : Flights!Leads(x, u) <=> Leads(x) /\ call[x].url = u
      BY DEF Flights!Leads, Part, Leads, Leading, Holding
    <3>2. QED
      BY <2>1, <3>1, GetterAssumption DEF FlightInv, OneDownload, TypeOK
  <2>3. CASE inflight[u] = NoGetter
    <3>1. Parts' = [Parts EXCEPT ![g] = [role |-> "leads", key |-> u]]
      BY <1>5, <2>1, <2>3, PartChange DEF EnterFlight, TypeOK, Goto, Part, Holding
    <3>2. Flights!Lead(g, u)
      BY <2>1, <2>2, <2>3, <3>1 DEF Flights!Lead, Flights!Becomes, Parts
    <3>3. QED
      BY <2>1, <3>2 DEF Flights!Next, Simulated
  <2>4. CASE inflight[u] # NoGetter
    <3>1. /\ pc' = [pc EXCEPT ![g] = "wait"]
          /\ call' = [call EXCEPT ![g] = [@ EXCEPT !.stale = NoEntry]]
      BY <1>5, <2>4 DEF EnterFlight, Goto
    <3>2. pc'[g] = "wait" /\ call'[g].url = u
      BY <3>1 DEF TypeOK, Call
    <3>3. Parts' = [Parts EXCEPT ![g] = [role |-> "waits", key |-> u]]
      BY <3>1, <3>2, PartChange DEF Part, Holding
    <3>4. Flights!Join(g, u)
      BY <2>1, <2>2, <2>4, <3>3 DEF Flights!Join, Flights!Becomes, Parts
    <3>5. QED
      BY <2>1, <3>4 DEF Flights!Next, Simulated
  <2>5. QED
    BY <2>3, <2>4
<1>6. ASSUME NEW g \in Getter, FlightLanded(g)  PROVE Simulated
  <2>1. \A x \in Getter : Part(x)' = Part(x)
    BY <1>6 DEF FlightLanded, TypeOK, CallInv, Outcome, Goto, Forget, Part, Holding
  <2>2. QED
    BY <2>1 DEF Parts, Simulated
<1>7. ASSUME NEW g \in Getter, WaitCancelled(g)  PROVE Simulated
  <2>1. Part(g)' = Flights!None /\ Parts' = [Parts EXCEPT ![g] = Flights!None]
    BY <1>7, PartChange DEF WaitCancelled, TypeOK, Goto, Forget, Part, Holding, Flights!None
  <2>2. CASE pc[g] = "wait"
    <3>1. Flights!GiveUp(g)
      BY <2>1, <2>2 DEF Flights!GiveUp, Parts, Part, Holding
    <3>2. QED
      BY <3>1 DEF Flights!Next, Simulated
  <2>3. CASE pc[g] = "woken"
    BY <2>1, <2>3 DEF Parts, Part, Holding, Simulated, Flights!None
  <2>4. QED
    BY <1>7, <2>2, <2>3 DEF WaitCancelled, Waiting
<1>8. ASSUME NEW g \in Getter, AcquireSlot(g)  PROVE Simulated
  <2>1. pc[g] = "acquire" /\ pc' = [pc EXCEPT ![g] = "attempt"] /\ call' = call /\ sem < Slots
    BY <1>8 DEF AcquireSlot, Goto
  <2>2. Flights!Active = {x \in Getter : HoldsSlot(x)}
    BY DEF Flights!Active, Part, HoldsSlot, Holding
  <2>3. Flights!Cardinality(Flights!Active) < Slots
    BY <2>1, <2>2, SameCardinality DEF SlotsAreHeld
  <2>4. Parts' = [Parts EXCEPT ![g] = [role |-> "active", key |-> call[g].url]]
    BY <2>1, PartChange DEF TypeOK, Part, Holding
  <2>5. Parts[g].role = "leads" /\ Parts[g].key = call[g].url
    BY <2>1 DEF Parts, Part, Holding
  <2>6. Flights!Activate(g)
    BY <2>3, <2>4, <2>5 DEF Flights!Activate, Flights!Becomes, Parts
  <2>7. QED
    BY <2>6 DEF Flights!Next, Simulated
<1>9. ASSUME NEW g \in Getter, AcquireCancelled(g)  PROVE Simulated
  <2>1. PICK s \in {"failed", "fallback", "served", "ended"} : ExitFlight(g, s)
    BY <1>9 DEF AcquireCancelled, Finish
  <2>2. pc[g] \in Leading /\ \A x \in Getter \ {g} : call'[x] = call[x]
    BY <1>9 DEF AcquireCancelled, TypeOK, Forget, Leading, Holding
  <2>3. QED
    BY <2>1, <2>2, LeaveStep DEF Simulated
<1>10. ASSUME NEW g \in Getter, BackOff(g)  PROVE Simulated
  <2>1. /\ pc[g] = "attempt" /\ pc' = [pc EXCEPT ![g] = "backoff"]
        /\ call' = [call EXCEPT ![g].attempt = @ + 1]
    BY <1>10 DEF BackOff, Goto
  <2>2. Parts' = [Parts EXCEPT ![g] = [role |-> "leads", key |-> call[g].url]]
    BY <2>1, PartChange DEF TypeOK, Part, Holding
  <2>3. Flights!Pause(g)
    BY <2>1, <2>2 DEF Flights!Pause, Flights!Becomes, Parts, Part, Holding
  <2>4. QED
    BY <2>3 DEF Flights!Next, Simulated
<1>11. ASSUME NEW g \in Getter, SleepEnds(g)  PROVE Simulated
  <2>1. \A x \in Getter : Part(x)' = Part(x)
    BY <1>11 DEF SleepEnds, TypeOK, CallInv, Outcome, Goto, Forget, Part, Holding
  <2>2. QED
    BY <2>1 DEF Parts, Simulated
<1>12. ASSUME NEW g \in Getter, GiveUp(g)  PROVE Simulated
  <2>1. PICK s \in {"failed", "fallback", "served", "ended"} : ExitFlight(g, s)
    BY <1>12 DEF GiveUp, Finish
  <2>2. pc[g] \in Leading /\ \A x \in Getter \ {g} : call'[x] = call[x]
    BY <1>12 DEF GiveUp, TypeOK, Forget, Leading, Holding
  <2>3. QED
    BY <2>1, <2>2, LeaveStep DEF Simulated
<1>13. ASSUME NEW g \in Getter, FallBack(g)  PROVE Simulated
  <2>1. \A x \in Getter : Part(x)' = Part(x)
    BY <1>13 DEF FallBack, TypeOK, CallInv, Outcome, Goto, Forget, Part, Holding
  <2>2. QED
    BY <2>1 DEF Parts, Simulated
<1>14. ASSUME NEW g \in Getter, NotModified(g)  PROVE Simulated
  <2>1. \A x \in Getter : Part(x)' = Part(x)
    BY <1>14 DEF NotModified, TypeOK, CallInv, Outcome, Goto, Forget, Part, Holding
  <2>2. QED
    BY <2>1 DEF Parts, Simulated
<1>15. ASSUME NEW g \in Getter, ServeConfirmed(g)  PROVE Simulated
  <2>1. PICK s \in {"failed", "fallback", "served", "ended"} : ExitFlight(g, s)
    BY <1>15 DEF ServeConfirmed, Finish
  <2>2. pc[g] \in Leading /\ \A x \in Getter \ {g} : call'[x] = call[x]
    BY <1>15 DEF ServeConfirmed, TypeOK, Forget, Leading, Holding
  <2>3. QED
    BY <2>1, <2>2, LeaveStep DEF Simulated
<1>16. ASSUME NEW g \in Getter, Fetched(g)  PROVE Simulated
  <2>1. \A x \in Getter : Part(x)' = Part(x)
    BY <1>16 DEF Fetched, TypeOK, CallInv, Outcome, Goto, Forget, Part, Holding
  <2>2. QED
    BY <2>1 DEF Parts, Simulated
<1>17. ASSUME NEW g \in Getter, ReadEOF(g)  PROVE Simulated
  <2>1. \A x \in Getter : Part(x)' = Part(x)
    BY <1>17 DEF ReadEOF, TypeOK, CallInv, Outcome, Goto, Forget, Part, Holding
  <2>2. QED
    BY <2>1 DEF Parts, Simulated
<1>18. ASSUME NEW g \in Getter, Terminate(g)  PROVE Simulated
  <2>1. PICK s \in {"failed", "fallback", "served", "ended"} : ExitFlight(g, s)
    BY <1>18 DEF Terminate, Finish
  <2>2. pc[g] \in Leading /\ \A x \in Getter \ {g} : call'[x] = call[x]
    BY <1>18 DEF Terminate, TypeOK, Forget, Leading, Holding
  <2>3. QED
    BY <2>1, <2>2, LeaveStep DEF Simulated
<1>19. ASSUME NEW g \in Getter, ReadBreaks(g)  PROVE Simulated
  <2>1. PICK s \in {"failed", "fallback", "served", "ended"} : ExitFlight(g, s)
    BY <1>19 DEF ReadBreaks, Finish
  <2>2. pc[g] \in Leading /\ \A x \in Getter \ {g} : call'[x] = call[x]
    BY <1>19 DEF ReadBreaks, TypeOK, Forget, Leading, Holding
  <2>3. QED
    BY <2>1, <2>2, LeaveStep DEF Simulated
<1>20. ASSUME NEW g \in Getter, CloseReader(g)  PROVE Simulated
  <2>1. CASE pc[g] = "ended"
    <3>1. \A x \in Getter : Part(x)' = Part(x)
      BY <1>20, <2>1 DEF CloseReader, TypeOK, Goto, Forget, Part, Holding
    <3>2. QED
      BY <3>1 DEF Parts, Simulated
  <2>2. CASE pc[g] = "stream"
    <3>1. ExitFlight(g, "served") /\ \A x \in Getter \ {g} : call'[x] = call[x]
      BY <1>20, <2>2 DEF CloseReader, Finish, TypeOK, Forget
    <3>2. QED
      BY <2>2, <3>1, LeaveStep DEF Simulated, Leading, Holding
  <2>3. QED
    BY <1>20, <2>1, <2>2 DEF CloseReader
<1>21. ASSUME NEW g \in Getter, CopyFails(g)  PROVE Simulated
  <2>1. \A x \in Getter : Part(x)' = Part(x)
    BY <1>21 DEF CopyFails, TypeOK, CallInv, Outcome, Goto, Forget, Part, Holding
  <2>2. QED
    BY <2>1 DEF Parts, Simulated
<1>22. ASSUME NEW g \in Getter, CtxEnds(g)  PROVE Simulated
  <2>1. \A x \in Getter : Part(x)' = Part(x)
    BY <1>22 DEF CtxEnds, TypeOK, CallInv, Outcome, Goto, Forget, Part, Holding
  <2>2. QED
    BY <2>1 DEF Parts, Simulated
<1>23. ASSUME NEW u \in Url, Publish(u)  PROVE Simulated
  BY <1>23 DEF Publish, Simulated, Parts, Part
<1>24. ASSUME NEW u \in Url, Expire(u)  PROVE Simulated
  BY <1>24 DEF Expire, Simulated, Parts, Part
<1>25. ASSUME NEW u \in Url, Purge(u)  PROVE Simulated
  BY <1>25 DEF Purge, Simulated, Parts, Part
<1>26. ASSUME UNCHANGED vars  PROVE Simulated
  BY <1>26 DEF vars, Simulated, Parts, Part
<1>27. QED
  BY <1>1, <1>2, <1>3, <1>4, <1>5, <1>6, <1>7, <1>8, <1>9, <1>10, <1>11,
     <1>12, <1>13, <1>14, <1>15, <1>16, <1>17, <1>18, <1>19, <1>20, <1>21,
     <1>22, <1>23, <1>24, <1>25, <1>26
  DEF Next, Progress, AllDone

-----------------------------------------------------------------------------
(* The order of the versions                                               *)

(* What is compared is numbers.                                            *)
NumbersOK ==
  /\ \A u \in Url : /\ upstream[u] \in Nat /\ cache[u].content \in Nat
                    /\ cache[u] = NoEntry <=> cache[u].content = 0
  /\ \A g \in Getter : /\ call[g].stale.content \in Nat /\ call[g].body \in Nat
                       /\ call[g].stale = NoEntry <=> call[g].stale.content = 0

(* They are, by the types.                                                 *)
LEMMA Numbers == TypeOK => NumbersOK
<1> SUFFICES ASSUME TypeOK
             PROVE  NumbersOK
  OBVIOUS
<1>1. \A e \in Entry \cup {NoEntry} : e.content \in Nat /\ (e = NoEntry <=> e.content = 0)
  BY EntryFields DEF Version
<1>2. ASSUME NEW u \in Url
      PROVE  upstream[u] \in Nat /\ cache[u] \in Entry \cup {NoEntry}
  BY <1>2 DEF TypeOK, Version
<1>3. ASSUME NEW g \in Getter
      PROVE  call[g].stale \in Entry \cup {NoEntry} /\ call[g].body \in Nat
  <2>1. call[g] \in Call
    BY <1>3 DEF TypeOK
  <2>2. QED
    BY <2>1 DEF Call, Version
<1>4. QED
  BY <1>1, <1>2, <1>3 DEF NumbersOK

(* A call keeps the stale copy it holds, or gives it up, and begins no      *)
(* stream.                                                                 *)
Keeps(g) ==
  /\ \/ call'[g].stale = NoEntry
     \/ call'[g].stale = call[g].stale /\ call'[g].url = call[g].url
  /\ pc'[g] = "stream" =>
       pc[g] = "stream" /\ call'[g].body = call[g].body /\ call'[g].url = call[g].url

(* A list keeps the bytes of its copy, or loses it; what is published does  *)
(* not get older.                                                          *)
KeepsCopy(u) ==
  /\ \/ cache'[u] = NoEntry
     \/ cache[u] # NoEntry /\ cache'[u] # NoEntry /\ cache'[u].content = cache[u].content
  /\ upstream[u] <= upstream'[u]

Quiet == (\A g \in Getter : Keeps(g)) /\ (\A u \in Url : KeepsCopy(u))

(* A quiet step keeps the order: what a call holds as stale only goes, as does*)
(* a copy, and what is published only grows.                               *)
LEMMA QuietKeepsOrder ==
  ASSUME NumbersOK, NumbersOK', CallInv', VersionInv, Quiet
  PROVE  VersionInv'
<1>1. ASSUME NEW u \in Url
      PROVE  cache'[u].content <= upstream'[u]
  BY <1>1 DEF VersionInv, Quiet, KeepsCopy, NumbersOK
<1>2. ASSUME NEW g \in Getter
      PROVE  StaleInOrder(g)'
  BY <1>2 DEF VersionInv, StaleInOrder, Quiet, KeepsCopy, Keeps, NumbersOK
<1>3. ASSUME NEW g \in Getter
      PROVE  StreamInOrder(g)'
  <2>1. pc'[g] = "stream" => call'[g].url \in Url
    BY <1>3 DEF CallInv, Outcome
  <2>2. QED
    BY <1>3, <2>1 DEF VersionInv, StreamInOrder, Quiet, KeepsCopy, Keeps, NumbersOK
<1>4. QED
  BY <1>1, <1>2, <1>3 DEF VersionInv

(* The steps that are not: a call takes hold of a stale copy, a body is    *)
(* received, and one is promoted.                                          *)
Moves == \E g \in Getter : LoadHolds(g) \/ Fetched(g) \/ ReadEOF(g)

(* A step of one call that leaves the cache and the rest of the calls.       *)
Alone(g) ==
  /\ cache' = cache /\ upstream' = upstream
  /\ \A x \in Getter \ {g} : call'[x] = call[x] /\ (pc'[x] = "stream" => pc[x] = "stream")

(* Such a step is quiet when its call keeps, too.                          *)
LEMMA AloneIsQuiet ==
  ASSUME NumbersOK, NEW g \in Getter, Alone(g), Keeps(g)
  PROVE  Quiet
BY DEF Quiet, Alone, Keeps, KeepsCopy, NumbersOK

(* Most steps are quiet.                                                    *)
LEMMA QuietStep ==
  ASSUME TypeOK, NumbersOK, CallInv, [Next]_vars
  PROVE  Quiet \/ Moves
<1>1. ASSUME NEW g \in Getter, Get(g)  PROVE Quiet
  <2>1. Alone(g)
    BY <1>1 DEF Get, TypeOK, Forget, Alone, Goto
  <2>2. Keeps(g)
    BY <1>1 DEF Get, TypeOK, Call, NoCall, Forget, Keeps, Goto, CallInv
  <2>3. QED
    BY <2>1, <2>2, AloneIsQuiet
<1>2. ASSUME NEW g \in Getter, LoadServes(g)  PROVE Quiet
  <2>1. Alone(g)
    BY <1>2 DEF LoadServes, TypeOK, Forget, Alone, Goto
  <2>2. Keeps(g)
    BY <1>2 DEF LoadServes, TypeOK, Call, NoCall, Forget, Keeps, Goto
  <2>3. QED
    BY <2>1, <2>2, AloneIsQuiet
<1>3. ASSUME NEW g \in Getter, LoadMisses(g)  PROVE Quiet
  <2>1. Alone(g)
    BY <1>3 DEF LoadMisses, TypeOK, Forget, Alone, Goto
  <2>2. Keeps(g)
    BY <1>3 DEF LoadMisses, TypeOK, Call, NoCall, Forget, Keeps, Goto
  <2>3. QED
    BY <2>1, <2>2, AloneIsQuiet
<1>4. ASSUME NEW g \in Getter, EnterFlight(g)  PROVE Quiet
  <2>1. Alone(g)
    BY <1>4 DEF EnterFlight, TypeOK, Forget, Alone, Goto
  <2>2. Keeps(g)
    BY <1>4 DEF EnterFlight, TypeOK, Call, NoCall, Forget, Keeps, Goto
  <2>3. QED
    BY <2>1, <2>2, AloneIsQuiet
<1>5. ASSUME NEW g \in Getter, FlightLanded(g)  PROVE Quiet
  <2>1. Alone(g)
    BY <1>5 DEF FlightLanded, TypeOK, Forget, Alone, Goto
  <2>2. Keeps(g)
    BY <1>5 DEF FlightLanded, TypeOK, Call, NoCall, Forget, Keeps, Goto
  <2>3. QED
    BY <2>1, <2>2, AloneIsQuiet
<1>6. ASSUME NEW g \in Getter, WaitCancelled(g)  PROVE Quiet
  <2>1. Alone(g)
    BY <1>6 DEF WaitCancelled, TypeOK, Forget, Alone, Goto
  <2>2. Keeps(g)
    BY <1>6 DEF WaitCancelled, TypeOK, Call, NoCall, Forget, Keeps, Goto
  <2>3. QED
    BY <2>1, <2>2, AloneIsQuiet
<1>7. ASSUME NEW g \in Getter, AcquireSlot(g)  PROVE Quiet
  <2>1. Alone(g)
    BY <1>7 DEF AcquireSlot, TypeOK, Forget, Alone, Goto
  <2>2. Keeps(g)
    BY <1>7 DEF AcquireSlot, TypeOK, Call, NoCall, Forget, Keeps, Goto
  <2>3. QED
    BY <2>1, <2>2, AloneIsQuiet
<1>8. ASSUME NEW g \in Getter, AcquireCancelled(g)  PROVE Quiet
  <2>1. Alone(g)
    BY <1>8 DEF AcquireCancelled, TypeOK, Forget, Alone, ExitFlight
  <2>2. Keeps(g)
    BY <1>8 DEF AcquireCancelled, TypeOK, Call, NoCall, Forget, Keeps, ExitFlight
  <2>3. QED
    BY <2>1, <2>2, AloneIsQuiet
<1>9. ASSUME NEW g \in Getter, BackOff(g)  PROVE Quiet
  <2>1. Alone(g)
    BY <1>9 DEF BackOff, TypeOK, Forget, Alone, Goto
  <2>2. Keeps(g)
    BY <1>9 DEF BackOff, TypeOK, Call, NoCall, Forget, Keeps, Goto
  <2>3. QED
    BY <2>1, <2>2, AloneIsQuiet
<1>10. ASSUME NEW g \in Getter, SleepEnds(g)  PROVE Quiet
  <2>1. Alone(g)
    BY <1>10 DEF SleepEnds, TypeOK, Forget, Alone, Goto
  <2>2. Keeps(g)
    BY <1>10 DEF SleepEnds, TypeOK, Call, NoCall, Forget, Keeps, Goto
  <2>3. QED
    BY <2>1, <2>2, AloneIsQuiet
<1>11. ASSUME NEW g \in Getter, GiveUp(g)  PROVE Quiet
  <2>1. Alone(g)
    BY <1>11 DEF GiveUp, TypeOK, Forget, Alone, Finish, ExitFlight, Goto
  <2>2. Keeps(g)
    BY <1>11 DEF GiveUp, TypeOK, Call, NoCall, Forget, Keeps, Finish, ExitFlight, Goto
  <2>3. QED
    BY <2>1, <2>2, AloneIsQuiet
<1>12. ASSUME NEW g \in Getter, FallBack(g)  PROVE Quiet
  <2>1. Alone(g)
    BY <1>12 DEF FallBack, TypeOK, Forget, Alone, Goto
  <2>2. Keeps(g)
    BY <1>12 DEF FallBack, TypeOK, Call, NoCall, Forget, Keeps, Goto
  <2>3. QED
    BY <2>1, <2>2, AloneIsQuiet
<1>13. ASSUME NEW g \in Getter, ServeConfirmed(g)  PROVE Quiet
  <2>1. Alone(g)
    BY <1>13 DEF ServeConfirmed, TypeOK, Forget, Alone, Finish, ExitFlight
  <2>2. Keeps(g)
    BY <1>13 DEF ServeConfirmed, TypeOK, Call, NoCall, Forget, Keeps, Finish, ExitFlight
  <2>3. QED
    BY <2>1, <2>2, AloneIsQuiet
<1>14. ASSUME NEW g \in Getter, Terminate(g)  PROVE Quiet
  <2>1. Alone(g)
    BY <1>14 DEF Terminate, TypeOK, Forget, Alone, Finish, ExitFlight
  <2>2. Keeps(g)
    BY <1>14 DEF Terminate, TypeOK, Call, NoCall, Forget, Keeps, Finish, ExitFlight
  <2>3. QED
    BY <2>1, <2>2, AloneIsQuiet
<1>15. ASSUME NEW g \in Getter, ReadBreaks(g)  PROVE Quiet
  <2>1. Alone(g)
    BY <1>15 DEF ReadBreaks, TypeOK, Forget, Alone, Finish, ExitFlight
  <2>2. Keeps(g)
    BY <1>15 DEF ReadBreaks, TypeOK, Call, NoCall, Forget, Keeps, Finish, ExitFlight
  <2>3. QED
    BY <2>1, <2>2, AloneIsQuiet
<1>16. ASSUME NEW g \in Getter, CloseReader(g)  PROVE Quiet
  <2>1. Alone(g)
    BY <1>16 DEF CloseReader, TypeOK, Forget, Alone, Finish, ExitFlight, Goto
  <2>2. Keeps(g)
    BY <1>16 DEF CloseReader, TypeOK, Call, NoCall, Forget, Keeps, Finish, ExitFlight, Goto
  <2>3. QED
    BY <2>1, <2>2, AloneIsQuiet
<1>17. ASSUME NEW g \in Getter, CopyFails(g)  PROVE Quiet
  <2>1. Alone(g)
    BY <1>17 DEF CopyFails, TypeOK, Forget, Alone, Goto
  <2>2. Keeps(g)
    BY <1>17 DEF CopyFails, TypeOK, Call, NoCall, Forget, Keeps, Goto
  <2>3. QED
    BY <2>1, <2>2, AloneIsQuiet
<1>18. ASSUME NEW g \in Getter, CtxEnds(g)  PROVE Quiet
  <2>1. Alone(g)
    BY <1>18 DEF CtxEnds, TypeOK, Forget, Alone, Goto
  <2>2. Keeps(g)
    BY <1>18 DEF CtxEnds, TypeOK, Call, NoCall, Forget, Keeps, Goto
  <2>3. QED
    BY <2>1, <2>2, AloneIsQuiet
<1>19. ASSUME NEW g \in Getter, NotModified(g)  PROVE Quiet
  <2>1. \A u \in Url : KeepsCopy(u)
    <3>1. \A e \in Entry, v \in Version :
            /\ [e EXCEPT !.fresh = TRUE, !.etag = v] \in Entry
            /\ [e EXCEPT !.fresh = TRUE, !.etag = v].content = e.content
      BY DEF Entry
    <3>2. call[g].stale.etag \in Version
      <4>1. call[g].stale \in Entry \cup {NoEntry}
        BY DEF TypeOK, Call
      <4>2. QED
        BY <4>1, EntryFields, VersionsAssumption DEF Version
    <3>3. \A u \in Url : cache[u] \in Entry \cup {NoEntry} /\ upstream[u] \in Nat
      BY DEF TypeOK, Version
    <3>4. upstream' = upstream
      BY <1>19 DEF NotModified
    <3>5. ASSUME NEW u \in Url
          PROVE  \/ cache'[u] = cache[u]
                 \/ cache[u] \in Entry /\ cache'[u] = [cache[u] EXCEPT !.fresh = TRUE, !.etag = call[g].stale.etag]
      BY <1>19, <3>3 DEF NotModified, TypeOK
    <3>6. ASSUME NEW u \in Url
          PROVE  \/ cache'[u] = NoEntry
                 \/ cache[u] # NoEntry /\ cache'[u] # NoEntry /\ cache'[u].content = cache[u].content
      <4>1. CASE cache'[u] = cache[u]
        BY <4>1
      <4>2. CASE cache[u] \in Entry /\ cache'[u] = [cache[u] EXCEPT !.fresh = TRUE, !.etag = call[g].stale.etag]
        BY <3>1, <3>2, <4>2, EntryFields
      <4>3. QED
        BY <3>5, <4>1, <4>2
    <3>7. QED
      BY <3>3, <3>4, <3>6 DEF KeepsCopy
  <2>2. \A x \in Getter : Keeps(x)
    BY <1>19 DEF NotModified, TypeOK, Goto, Keeps
  <2>3. QED
    BY <2>1, <2>2 DEF Quiet
<1>20. ASSUME NEW u \in Url, Publish(u)  PROVE Quiet
  <2>1. \A w \in Url : KeepsCopy(w)
    BY <1>20, VersionsAssumption DEF Publish, TypeOK, Version, KeepsCopy
  <2>2. \A x \in Getter : Keeps(x)
    BY <1>20 DEF Publish, Keeps
  <2>3. QED
    BY <2>1, <2>2 DEF Quiet
<1>21. ASSUME NEW u \in Url, Expire(u)  PROVE Quiet
  <2>1. \A w \in Url : KeepsCopy(w)
    <3>1. \A e \in Entry : [e EXCEPT !.fresh = FALSE] \in Entry /\ [e EXCEPT !.fresh = FALSE].content = e.content
      BY DEF Entry
    <3>2. cache[u] \in Entry
      BY <1>21, EntryFields DEF Expire, TypeOK
    <3>3. cache'[u] = [cache[u] EXCEPT !.fresh = FALSE] /\ \A w \in Url \ {u} : cache'[w] = cache[w]
      BY <1>21 DEF Expire, TypeOK
    <3>4. upstream' = upstream /\ \A w \in Url : upstream[w] \in Nat
      BY <1>21 DEF Expire, TypeOK, Version
    <3>5. ASSUME NEW w \in Url
          PROVE  \/ cache'[w] = NoEntry
                 \/ cache[w] # NoEntry /\ cache'[w] # NoEntry /\ cache'[w].content = cache[w].content
      <4>1. CASE w = u
        BY <3>1, <3>2, <3>3, <4>1, EntryFields
      <4>2. CASE w # u
        BY <3>3, <4>2
      <4>3. QED
        BY <4>1, <4>2
    <3>6. QED
      BY <3>4, <3>5 DEF KeepsCopy
  <2>2. \A x \in Getter : Keeps(x)
    BY <1>21 DEF Expire, Keeps
  <2>3. QED
    BY <2>1, <2>2 DEF Quiet
<1>22. ASSUME NEW u \in Url, Purge(u)  PROVE Quiet
  <2>1. \A w \in Url : KeepsCopy(w)
    BY <1>22 DEF Purge, TypeOK, Version, KeepsCopy
  <2>2. \A x \in Getter : Keeps(x)
    BY <1>22 DEF Purge, Keeps
  <2>3. QED
    BY <2>1, <2>2 DEF Quiet
<1>23. ASSUME UNCHANGED vars  PROVE Quiet
  BY <1>23 DEF vars, Quiet, Keeps, KeepsCopy, NumbersOK
<1>24. QED
  BY <1>1, <1>2, <1>3, <1>4, <1>5, <1>6, <1>7, <1>8, <1>9, <1>10, <1>11, <1>12, <1>13, <1>14, <1>15, <1>16, <1>17, <1>18, <1>19, <1>20, <1>21, <1>22, <1>23
  DEF Next, Progress, AllDone, Moves

(* What becomes a call's stale copy is the list's copy, which is in order. *)
LEMMA LoadHoldsKeepsOrder ==
  ASSUME TypeOK, NumbersOK, NumbersOK', CallInv, CallInv', VersionInv, NEW g \in Getter, LoadHolds(g)
  PROVE  VersionInv'
<1>1. /\ cache' = cache /\ upstream' = upstream /\ pc[g] = "load" /\ pc' = [pc EXCEPT ![g] = "enter"]
      /\ call' = [call EXCEPT ![g] = [@ EXCEPT !.stale = cache[call[g].url]]]
      /\ call[g].url \in Url
  BY DEF LoadHolds, Goto, CopyOf, CallInv, Outcome
<1>2. /\ call'[g].stale = cache[call[g].url] /\ call'[g].url = call[g].url /\ pc'[g] = "enter"
      /\ \A x \in Getter : call'[x].url = call[x].url
      /\ \A x \in Getter \ {g} : call'[x] = call[x] /\ pc'[x] = pc[x]
  BY <1>1 DEF TypeOK, Call
<1>3. ASSUME NEW x \in Getter
      PROVE  StaleInOrder(x)'
  BY <1>1, <1>2 DEF VersionInv, StaleInOrder, NumbersOK
<1>4. ASSUME NEW x \in Getter
      PROVE  StreamInOrder(x)'
  BY <1>1, <1>2 DEF VersionInv, StreamInOrder, NumbersOK
<1>5. QED
  BY <1>1, <1>3, <1>4 DEF VersionInv

(* What is received from a consistent origin is the latest version, and no *)
(* other call receives a body of that list: it has one download.           *)
LEMMA FetchedKeepsOrder ==
  ASSUME ConsistentOrigin, TypeOK, NumbersOK, NumbersOK', CallInv, CallInv', VersionInv,
         NEW g \in Getter, Fetched(g)
  PROVE  VersionInv'
<1> DEFINE v == upstream[call[g].url]
<1>1. /\ cache' = cache /\ upstream' = upstream /\ pc[g] = "attempt" /\ pc' = [pc EXCEPT ![g] = "stream"]
      /\ call[g].url \in Url
      /\ \E b \in BOOLEAN :
           call' = [call EXCEPT ![g] = [@ EXCEPT !.body = v, !.copying = b, !.stale = NoEntry]]
  BY DEF Fetched, Reply, Goto, CallInv, Outcome
<1>2. /\ call'[g].stale = NoEntry /\ call'[g].url = call[g].url /\ call'[g].body = v
      /\ \A x \in Getter \ {g} : call'[x] = call[x] /\ pc'[x] = pc[x]
  BY <1>1 DEF TypeOK, Call
<1>3. ASSUME NEW x \in Getter
      PROVE  StaleInOrder(x)'
  BY <1>1, <1>2 DEF VersionInv, StaleInOrder
<1>4. ASSUME NEW x \in Getter
      PROVE  StreamInOrder(x)'
  BY <1>1, <1>2, EntryFields DEF VersionInv, StreamInOrder, StaleInOrder, NumbersOK
<1>5. QED
  BY <1>1, <1>3, <1>4 DEF VersionInv

(* The body that is promoted is no older than the copy it replaces, nor than*)
(* what any call holds as stale; and no other stream is for its list.      *)
LEMMA ReadEOFKeepsOrder ==
  ASSUME TypeOK, NumbersOK, NumbersOK', CallInv, CallInv', FlightInv, VersionInv,
         NEW g \in Getter, ReadEOF(g)
  PROVE  VersionInv'
<1> DEFINE u == call[g].url
           v == call[g].body
<1>1. /\ upstream' = upstream /\ pc[g] = "stream" /\ pc' = [pc EXCEPT ![g] = "promoted"]
      /\ u \in Url
      /\ call' = [call EXCEPT ![g] = [@ EXCEPT !.copying = FALSE]]
      /\ \/ cache' = cache
         \/ cache' = [cache EXCEPT ![u] = [content |-> v, etag |-> v, fresh |-> TRUE]]
  BY DEF ReadEOF, Goto, CallInv, Outcome
<1>2. /\ \A x \in Getter : /\ call'[x].stale = call[x].stale /\ call'[x].url = call[x].url
                            /\ call'[x].body = call[x].body
      /\ \A x \in Getter : pc'[x] = "stream" => x # g /\ pc[x] = "stream"
  BY <1>1 DEF TypeOK, Call
<1>3. /\ \A w \in Url \ {u} : cache'[w] = cache[w]
      /\ cache'[u] = cache[u] \/ cache'[u].content = v
  BY <1>1 DEF TypeOK
<1>4. \A x \in Getter : pc'[x] = "stream" => call[x].url # u
  BY <1>1, <1>2 DEF FlightInv, OneDownload, Leads, Leading, Holding
<1>5. v <= upstream[u]
  BY <1>1 DEF VersionInv, StreamInOrder
<1>6. ASSUME NEW x \in Getter
      PROVE  StaleInOrder(x)'
  BY <1>1, <1>2, <1>3 DEF VersionInv, StaleInOrder, StreamInOrder, NumbersOK
<1>7. ASSUME NEW x \in Getter
      PROVE  StreamInOrder(x)'
  <2>1. pc'[x] = "stream" => call[x].url \in Url \ {u}
    BY <1>2, <1>4 DEF CallInv, Outcome
  <2>2. QED
    BY <1>1, <1>2, <1>3, <2>1 DEF VersionInv, StreamInOrder
<1>8. QED
  BY <1>1, <1>3, <1>5, <1>6, <1>7 DEF VersionInv

(* Every step keeps the order.                                             *)
LEMMA VersionStep ==
  ASSUME ConsistentOrigin, TypeOK, CallInv, FlightInv, VersionInv, [Next]_vars
  PROVE  VersionInv'
<1>1. TypeOK' /\ CallInv' /\ NumbersOK
  BY TypeStep, Numbers
<1>2. NumbersOK'
  <2>1. (TypeOK => NumbersOK)'
    BY Numbers, PTL
  <2>2. QED
    BY <1>1, <2>1
<1>3. CASE Quiet
  BY <1>1, <1>2, <1>3, QuietKeepsOrder
<1>4. ASSUME NEW g \in Getter, LoadHolds(g)  PROVE VersionInv'
  BY <1>1, <1>2, <1>4, LoadHoldsKeepsOrder
<1>5. ASSUME NEW g \in Getter, Fetched(g)  PROVE VersionInv'
  BY <1>1, <1>2, <1>5, FetchedKeepsOrder
<1>6. ASSUME NEW g \in Getter, ReadEOF(g)  PROVE VersionInv'
  BY <1>1, <1>2, <1>6, ReadEOFKeepsOrder
<1>7. QED
  BY <1>1, <1>3, <1>4, <1>5, <1>6, QuietStep DEF Moves

-----------------------------------------------------------------------------
(* The validators                                                          *)

(* A validator kept with a copy is of its bytes.                           *)
Matches(e) == e.etag \in {0, e.content}

(* Few steps change the cache.                                             *)
LEMMA CacheStep ==
  ASSUME [Next]_vars
  PROVE  \/ cache' = cache
         \/ \E g \in Getter : NotModified(g) \/ ReadEOF(g)
         \/ \E u \in Url : Expire(u) \/ Purge(u)
BY DEF Next, Progress, AllDone, vars, Get, LoadServes, LoadHolds, LoadMisses, EnterFlight,
       FlightLanded, WaitCancelled, AcquireSlot, AcquireCancelled, BackOff, SleepEnds, GiveUp,
       FallBack, ServeConfirmed, Fetched, Terminate, ReadBreaks, CloseReader, CopyFails,
       CtxEnds, Publish

(* An answer "not modified" confirms the very version the cache has: what  *)
(* the request took its validators from is not newer than the copy, and    *)
(* the copy not newer than what the origin has.                            *)
LEMMA ConfirmedIsCurrent ==
  ASSUME ConsistentOrigin, TypeOK, NumbersOK, CallInv, VersionInv, ValidatorsMatch,
         NEW g \in Getter, NotModified(g), CopyOf(g) # NoEntry
  PROVE  call[g].stale.etag = CopyOf(g).content
<1> DEFINE u == call[g].url
<1>1. u \in Url /\ call[g].stale.etag # 0 /\ call[g].stale.etag = upstream[u]
  BY DEF NotModified, CallInv, Outcome, Reply
<1>2. call[g].stale # NoEntry
  BY <1>1, EntryFields
<1>3. call[g].stale.content = upstream[u]
  BY <1>1 DEF ValidatorsMatch
<1>4. call[g].stale.content <= cache[u].content /\ cache[u].content <= upstream[u]
  BY <1>1, <1>2 DEF VersionInv, StaleInOrder, CopyOf
<1>5. QED
  BY <1>1, <1>3, <1>4 DEF NumbersOK, CopyOf

(* Copies keep the validators of their bytes.                              *)
LEMMA CopiesStep ==
  ASSUME ConsistentOrigin, TypeOK, NumbersOK, CallInv, VersionInv, ValidatorsMatch, [Next]_vars
  PROVE  \A u \in Url : Matches(cache'[u])
<1>1. \A u \in Url : Matches(cache[u]) /\ cache[u] \in Entry \cup {NoEntry}
  BY DEF ValidatorsMatch, Matches, TypeOK
<1>2. Matches(NoEntry)
  BY EntryFields DEF Matches
<1>3. ASSUME NEW g \in Getter, NotModified(g), NEW u \in Url
      PROVE  Matches(cache'[u])
  <2> DEFINE etag == call[g].stale.etag
  <2>1. cache'[u] = cache[u] \/ /\ u = call[g].url /\ cache[u] \in Entry
                                /\ cache'[u] = [cache[u] EXCEPT !.fresh = TRUE, !.etag = etag]
    BY <1>3, <1>1 DEF NotModified, TypeOK
  <2>2. CASE cache'[u] = cache[u]
    BY <1>1, <2>2
  <2>3. CASE /\ u = call[g].url /\ cache[u] \in Entry
             /\ cache'[u] = [cache[u] EXCEPT !.fresh = TRUE, !.etag = etag]
    <3>1. etag = cache[u].content
      BY <1>3, <2>3, ConfirmedIsCurrent, EntryFields DEF CopyOf
    <3>2. \A e \in Entry : [e EXCEPT !.fresh = TRUE, !.etag = etag].etag = etag
                           /\ [e EXCEPT !.fresh = TRUE, !.etag = etag].content = e.content
      BY DEF Entry
    <3>3. QED
      BY <2>3, <3>1, <3>2 DEF Matches
  <2>4. QED
    BY <2>1, <2>2, <2>3
<1>4. ASSUME NEW g \in Getter, ReadEOF(g), NEW u \in Url
      PROVE  Matches(cache'[u])
  <2> DEFINE v == call[g].body
  <2>1. cache'[u] = cache[u] \/ cache'[u] = [content |-> v, etag |-> v, fresh |-> TRUE]
    BY <1>4 DEF ReadEOF, TypeOK
  <2>2. QED
    BY <1>1, <2>1 DEF Matches
<1>5. ASSUME NEW w \in Url, Expire(w) \/ Purge(w), NEW u \in Url
      PROVE  Matches(cache'[u])
  <2>1. \/ cache'[u] = cache[u] \/ cache'[u] = NoEntry
        \/ cache[u] \in Entry /\ cache'[u] = [cache[u] EXCEPT !.fresh = FALSE]
    BY <1>1, <1>5, EntryFields DEF Expire, Purge, TypeOK
  <2>2. \A e \in Entry : [e EXCEPT !.fresh = FALSE].etag = e.etag
                         /\ [e EXCEPT !.fresh = FALSE].content = e.content
    BY DEF Entry
  <2>3. QED
    BY <1>1, <1>2, <2>1, <2>2 DEF Matches
<1>6. QED
  BY <1>1, <1>3, <1>4, <1>5, CacheStep

(* So do those that calls hold.                                            *)
LEMMA StaleStep ==
  ASSUME ConsistentOrigin, TypeOK, NumbersOK, CallInv, ValidatorsMatch, [Next]_vars
  PROVE  \A g \in Getter : Matches(call'[g].stale)
<1>1. /\ \A g \in Getter : Matches(call[g].stale)
      /\ \A u \in Url : Matches(cache[u])
      /\ Matches(NoEntry)
  BY EntryFields DEF ValidatorsMatch, Matches
<1>2. CASE Quiet
  BY <1>1, <1>2 DEF Quiet, Keeps
<1>3. ASSUME NEW g \in Getter, LoadHolds(g)
      PROVE  \A x \in Getter : Matches(call'[x].stale)
  <2>1. call[g].url \in Url
    BY <1>3 DEF LoadHolds, CallInv, Outcome
  <2>2. call'[g].stale = cache[call[g].url] /\ \A x \in Getter \ {g} : call'[x] = call[x]
    BY <1>3 DEF LoadHolds, CopyOf, TypeOK, Call
  <2>3. QED
    BY <1>1, <2>1, <2>2
<1>4. ASSUME NEW g \in Getter, Fetched(g) \/ ReadEOF(g)
      PROVE  \A x \in Getter : Matches(call'[x].stale)
  <2>1. /\ call'[g].stale \in {NoEntry, call[g].stale}
        /\ \A x \in Getter \ {g} : call'[x] = call[x]
    BY <1>4 DEF Fetched, ReadEOF, TypeOK, Call
  <2>2. QED
    BY <1>1, <2>1
<1>5. QED
  BY <1>2, <1>3, <1>4, QuietStep DEF Moves

(* Every step keeps validators with their bytes.                           *)
LEMMA ValidatorStep ==
  ASSUME ConsistentOrigin, TypeOK, CallInv, VersionInv, ValidatorsMatch, [Next]_vars
  PROVE  ValidatorsMatch'
BY Numbers, CopiesStep, StaleStep DEF ValidatorsMatch, Matches

-----------------------------------------------------------------------------
(* The theorems                                                            *)

(* The invariant holds at the start.                                        *)
LEMMA InitInvariant == Init => IInv
<1> SUFFICES ASSUME Init
             PROVE  IInv
  OBVIOUS
<1>1. \A u \in Url : cache[u] \in Entry \cup {NoEntry} /\ cache[u].content \in {0, 1} /\ Matches(cache[u])
  <2>1. \A e \in {0, 1}, f \in BOOLEAN :
          LET c == [content |-> 1, etag |-> e, fresh |-> f]
          IN  c \in Entry /\ c.content = 1 /\ Matches(c)
    BY VersionsAssumption DEF Entry, Version, Matches
  <2>2. \A u \in Url : \/ cache[u] = NoEntry
                       \/ \E e \in {0, 1}, f \in BOOLEAN : cache[u] = [content |-> 1, etag |-> e, fresh |-> f]
    BY DEF Init
  <2>3. QED
    <3>1. NoEntry.content = 0 /\ Matches(NoEntry)
      BY EntryFields DEF Matches
    <3>2. ASSUME NEW u \in Url
          PROVE  cache[u] \in Entry \cup {NoEntry} /\ cache[u].content \in {0, 1} /\ Matches(cache[u])
      <4>1. CASE cache[u] = NoEntry
        BY <3>1, <4>1
      <4>2. ASSUME NEW e \in {0, 1}, NEW f \in BOOLEAN,
                   cache[u] = [content |-> 1, etag |-> e, fresh |-> f]
            PROVE  cache[u] \in Entry \cup {NoEntry} /\ cache[u].content \in {0, 1} /\ Matches(cache[u])
        BY <2>1, <4>2
      <4>3. QED
        BY <2>2, <4>1, <4>2
    <3>3. QED
      BY <3>2
<1>2. TypeOK
  <2>1. cache \in [Url -> Entry \cup {NoEntry}]
    BY <1>1 DEF Init
  <2>2. upstream \in [Url -> Version \ {0}] /\ sem \in 0..Slots
    BY VersionsAssumption, SlotsAssumption DEF Init, Version
  <2>3. inflight \in [Url -> Getter \cup {NoGetter}] /\ pc \in [Getter -> Step]
    BY DEF Init, Step
  <2>4. call \in [Getter -> Call]
    BY NoCallType DEF Init
  <2>5. QED
    BY <2>1, <2>2, <2>3, <2>4 DEF TypeOK
<1>3. CallInv /\ FlightInv
  BY DEF Init, NoCall, CallInv, FlightInv, OneDownload, Leads, Leading, Holding, Outcome
<1>4. SlotsAreHeld
  <2>1. {g \in Getter : HoldsSlot(g)} = {}
    BY DEF Init, HoldsSlot, Holding
  <2>2. QED
    BY <2>1, FS_EmptySet DEF Init, SlotsAreHeld
<1>5. ValidatorsMatch
  BY <1>1, EntryFields DEF Init, NoCall, ValidatorsMatch, Matches
<1>6. VersionInv
  BY <1>1 DEF Init, NoCall, VersionInv, StaleInOrder, StreamInOrder
<1>7. QED
  BY <1>2, <1>3, <1>4, <1>5, <1>6 DEF IInv

(* Every step keeps the invariant.                                         *)
LEMMA StepInvariant == IInv /\ [Next]_vars => IInv'
<1> SUFFICES ASSUME IInv, [Next]_vars
             PROVE  IInv'
  OBVIOUS
<1> USE DEF IInv
<1>1. TypeOK' /\ CallInv'
  BY TypeStep
<1>2. FlightInv' /\ SlotsAreHeld'
  BY FlightStep, SlotStep
<1>3. (ConsistentOrigin => VersionInv)'
  BY VersionStep
<1>4. ValidatorsMatch'
  BY ValidatorStep DEF ValidatorsMatch
<1>5. QED
  BY <1>1, <1>2, <1>3, <1>4

(* The invariant on which the theorems below rest holds in every state.     *)
THEOREM Invariance == Spec => []IInv
BY InitInvariant, StepInvariant, PTL DEF Spec

(* Every variable has its type.                                            *)
THEOREM TypeCorrect == Spec => []TypeOK
<1>1. IInv => TypeOK
  BY DEF IInv
<1>2. QED
  BY Invariance, <1>1, PTL

(* A URL has one download at a time, and a call only waits for a download  *)
(* that is under way, whatever ends the downloads (inflight in Get, and    *)
(* exitFlight in fetch and in the reader's finish).                        *)
THEOREM DownloadsAreSingle == Spec => [](OneDownload /\ WaitersHaveALeader)
<1>1. IInv => OneDownload /\ WaitersHaveALeader
  <2> SUFFICES ASSUME IInv
               PROVE  OneDownload /\ WaitersHaveALeader
    OBVIOUS
  <2>1. OneDownload
    BY DEF IInv, FlightInv
  <2>2. ASSUME NEW g \in Getter, pc[g] = "wait"
        PROVE  \E l \in Getter : Leads(l) /\ inflight[call[g].url] = l
    <3>1. call[g].url \in Url /\ inflight[call[g].url] # NoGetter
      BY <2>2 DEF IInv, CallInv, FlightInv, Outcome
    <3>2. QED
      BY <3>1 DEF IInv, TypeOK, FlightInv
  <2>3. QED
    BY <2>1, <2>2 DEF WaitersHaveALeader
<1>2. QED
  BY Invariance, <1>1, PTL

(* The slots taken are those of the requests and streams under way: none   *)
(* is lost and none is given up twice (sem in fetch and finish).           *)
THEOREM SlotsAreCounted == Spec => []SlotsAreHeld
<1>1. IInv => SlotsAreHeld
  BY DEF IInv
<1>2. QED
  BY Invariance, <1>1, PTL

(* With a consistent origin the validators kept for a list are those of    *)
(* its bytes, through every interleaving of downloads, confirmations,      *)
(* expiry and purges (Refresh and Save as Get uses them).                  *)
THEOREM ValidatorsAreRight == Spec => []ValidatorsMatch
<1>1. IInv => ValidatorsMatch
  BY DEF IInv
<1>2. QED
  BY Invariance, <1>1, PTL

(* A step of the store puts no older copy in place of a newer one.          *)
Newer == ConsistentOrigin =>
           \A u \in Url : cache'[u] # NoEntry => cache'[u].content >= cache[u].content

(* Where the invariant holds, no step downgrades a copy.                   *)
LEMMA NewerStep == IInv /\ [Next]_vars => Newer
<1> SUFFICES ASSUME IInv, [Next]_vars, ConsistentOrigin, NEW u \in Url, cache'[u] # NoEntry
             PROVE  cache'[u].content >= cache[u].content
  BY DEF Newer
<1>1. TypeOK /\ NumbersOK /\ CallInv /\ VersionInv
  BY Numbers DEF IInv
<1>2. CASE Quiet
  BY <1>1, <1>2 DEF Quiet, KeepsCopy, NumbersOK
<1>3. ASSUME NEW g \in Getter, LoadHolds(g) \/ Fetched(g)
      PROVE  cache'[u].content >= cache[u].content
  <2>1. cache' = cache
    BY <1>3 DEF LoadHolds, Fetched
  <2>2. QED
    BY <1>1, <2>1 DEF NumbersOK
<1>4. ASSUME NEW g \in Getter, ReadEOF(g)
      PROVE  cache'[u].content >= cache[u].content
  <2>1. cache[call[g].url].content <= call[g].body
    BY <1>1, <1>4 DEF ReadEOF, VersionInv, StreamInOrder
  <2>2. \/ cache'[u] = cache[u]
        \/ u = call[g].url /\ cache'[u].content = call[g].body
    <3>1. \/ cache' = cache
          \/ cache' = [cache EXCEPT ![call[g].url] =
                         [content |-> call[g].body, etag |-> call[g].body, fresh |-> TRUE]]
      BY <1>4 DEF ReadEOF
    <3>2. cache \in [Url -> Entry \cup {NoEntry}]
      BY <1>1 DEF TypeOK
    <3>3. QED
      BY <3>1, <3>2
  <2>3. QED
    BY <1>1, <2>1, <2>2 DEF NumbersOK
<1>5. QED
  BY <1>1, <1>2, <1>3, <1>4, QuietStep DEF Moves

(* With a consistent origin, downloads of a list are promoted in the order *)
(* in which they were made: none replaces a newer copy.                    *)
THEOREM NoCopyIsDowngraded == Spec => NeverDowngraded
<1>1. IInv /\ [Next]_vars => [Newer]_vars
  BY NewerStep
<1>2. QED
  BY Invariance, <1>1, PTL DEF Spec, NeverDowngraded, Newer

(* The store's flights and fetch slots implement single flight.            *)
THEOREM Refinement == Spec => ImplementsSingleFlight
<1>1. Init => Flights!Init
  BY DEF Init, Flights!Init, Flights!None, Part, Holding
<1>2. IInv /\ [Next]_vars => [Flights!Next]_([g \in Getter |-> Part(g)])
  BY SimulationStep DEF IInv, Simulated, Parts
<1>3. QED
  BY Invariance, <1>1, <1>2, PTL DEF Spec, ImplementsSingleFlight, Flights!Spec

=============================================================================
