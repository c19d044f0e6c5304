-------------------------------- MODULE Rules -------------------------------
(* internal/networkrules/rule and its modifiers: what the text after "$"     *)
(* makes of a rule, which requests and responses it applies to, and which    *)
(* rules an exception cancels.  A modifier is [name, neg, val], neg for one  *)
(* written with "~"; a request and a response are records of the headers     *)
(* the code reads.                                                           *)
EXTENDS Integers, Sequences, FiniteSets, SequencesExt, TLC

\* The content types; the ones left out behave like "script".
Types == {"document", "subdocument", "script", "xmlhttprequest", "websocket", "ping", "other"}
Unknown == "unknown"   \* has no bit in a mask

ConditionNames == {"domain", "method", "third-party", "header"}
Flags == {"important", "all"}
ForbiddenHeaders == {"Origin"}   \* and some fifty more
-----------------------------------------------------------------------------
MaskMatches(mask, t) == mask = {} \/ t \in mask

FromRequest(req) ==
  LET byDest == "document" :> "document" @@ "iframe" :> "subdocument" @@ "script" :> "script"
                  @@ "empty" :> "xmlhttprequest"
  IN CASE req.ping -> "ping"
       [] ~req.ping /\ req.dest = "" -> IF req.upgrade THEN "websocket" ELSE Unknown
       [] ~req.ping /\ req.dest # "" ->
            IF req.dest \in DOMAIN byDest THEN byDest[req.dest] ELSE "other"

FromResponse(req, res) ==
  CASE FromRequest(req) # Unknown -> FromRequest(req)
    [] FromRequest(req) = Unknown /\ res.mime = "" -> Unknown
    [] OTHER -> IF res.mime = "text/javascript" THEN "script" ELSE "other"

IsUserNavigation(req) == req.dest = "document" /\ (req.mode = "navigate" \/ req.user)
IsUserActivatedNavigation(req) == req.dest = "document" /\ req.user
-----------------------------------------------------------------------------
(* A rule's modifiers: types is the mask, {} for any type; nav says whether  *)
(* it may stop a page load the user asked for.                               *)
NoModifiers == [types |-> {}, nav |-> FALSE, important |-> FALSE,
                conditions |-> {}, actions |-> {}, queries |-> {}]

IsModifier(m) ==
  \/ m.name \in Types \cup ConditionNames \cup {"removeparam"}
  \/ m.name \in Flags \cup {"_"} /\ ~m.neg
  \/ m.name = "removeheader" /\ m.val.header \notin ForbiddenHeaders

\* The mask: negated types alone, or with $all, leave every other type.
TypesOf(included, excluded, all) ==
  IF excluded # {} THEN (IF included = {} \/ all THEN Types ELSE included) \ excluded
  ELSE IF all THEN {} ELSE included

ParseModifiers(ms) ==
  LET named(names) == {m \in ms : m.name \in names}
      included == {m.name : m \in {x \in named(Types) : ~x.neg}}
      excluded == {m.name : m \in {x \in named(Types) : x.neg}}
      all      == named({"all"}) # {}
      types    == TypesOf(included, excluded, all)
  IN [ok   |-> (\A m \in ms : IsModifier(m)) /\ ~(excluded # {} /\ types = {}),
      mods |-> [types |-> types,
                nav |-> all \/ "document" \in included,
                important |-> named({"important"}) # {},
                conditions |-> named(ConditionNames),
                actions |-> named({"removeheader"}),
                queries |-> named({"removeparam"})]]

IsBlockRule(mods) == mods.actions = {} /\ mods.queries = {}
-----------------------------------------------------------------------------
(* Conditions.  A host is a sequence of segments, and the public suffix is   *)
(* its last one.  An unparsable Referer has no source host.                  *)
NoReferer == <<>>
BadReferer == <<"%">>

SourceHost(req) == IF req.referer = NoReferer THEN req.host ELSE req.referer
SourceLabel(req) == LET h == SourceHost(req) IN IF Len(h) > 1 THEN h[Len(h) - 1] ELSE ""

DomainEntryMatches(entry, req) ==
  IF Last(entry) = "*" THEN SourceLabel(req) = entry[Len(entry) - 1]
                       ELSE IsSuffix(entry, SourceHost(req))

ConditionMatchesReq(m, req) ==
  CASE m.name = "domain" ->
         /\ req.referer # BadReferer
         /\ m.neg # (\E entry \in m.val : DomainEntryMatches(entry, req))
    [] m.name = "method" -> m.neg # (req.method \in m.val)
    [] m.name = "third-party" -> \/ req.site = "cross-site" /\ ~m.neg
                                 \/ req.site \in {"same-site", "same-origin"} /\ m.neg
    [] m.name = "header" -> FALSE

ConditionMatchesRes(m, res) == m.name = "header" /\ m.val \in res.headers

ShouldMatchReq(mods, req) ==
  /\ MaskMatches(mods.types, FromRequest(req))
  /\ \A m \in mods.conditions : ConditionMatchesReq(m, req)

ShouldMatchRes(mods, req, res) ==
  /\ MaskMatches(mods.types, FromResponse(req, res))
  /\ \A m \in mods.conditions : ConditionMatchesRes(m, res)
-----------------------------------------------------------------------------
(* What a rule does when nothing cancels it. *)
RemovedHeaders(mods, kind) == {m.val.header : m \in {x \in mods.actions : x.val.kind = kind}}

ModifyQuery(m, params) == CASE m.val = {} -> {}
                            [] m.val # {} /\ m.neg  -> params \cap m.val
                            [] m.val # {} /\ ~m.neg -> params \ m.val

\* The parameters that a set of rules leaves.
ModifyReqQuery(rules, params) ==
  {p \in params : \A m \in UNION {mods.queries : mods \in rules} : p \in ModifyQuery(m, params)}

\* A removeparam or removeheader exception cancels its very like.
CancelsModifier(exc, basic) == exc = basic

\* The exception's own $important is not looked at.
Cancels_wrong(er, r) ==
  /\ ~r.important
  /\ \A exc \in er.actions : \E basic \in r.actions : CancelsModifier(exc, basic)
  /\ \A exc \in er.queries : \E basic \in r.queries : CancelsModifier(exc, basic)

Cancels(er, r) ==
  /\ r.important => er.important
  /\ \A exc \in er.actions : \E basic \in r.actions : CancelsModifier(exc, basic)
  /\ \A exc \in er.queries : \E basic \in r.queries : CancelsModifier(exc, basic)
=============================================================================
