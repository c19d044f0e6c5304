----------------------------- MODULE Exchanges -----------------------------
(***************************************************************************)
(* internal/networkrules and internal/filter: what happens to a request    *)
(* and its response while the user may allow, from a block page, the rule  *)
(* that blocked it.  Which rules have a pattern that matches, and what is  *)
(* injected, is given to the actions: Filter finds it in its stores.       *)
(***************************************************************************)
EXTENDS Rules

CONSTANTS
  Clients,       \* connections whose requests are handled at the same time
  IgnoredHosts,  \* the names a hosts line does not block, such as localhost
  WebRequests, WebResponses

VARIABLES
  client,     \* by client, the exchange in progress
  allowed     \* history: the lines of the rules the user has allowed

exchanges == <<client, allowed>>
-----------------------------------------------------------------------------
(* Lines and rules.  A rule keeps its line, which names it and is parsed      *)
(* again to allow it.  Parsing interns the modifiers, which shares equal      *)
(* values.                                                                   *)
NetworkLine(exc, pattern, mods) ==
  [kind |-> "network", exc |-> exc, pattern |-> pattern, mods |-> mods]

RuleOf(line) == [line |-> line, mods |-> ParseModifiers(line.mods).mods]

\* A hosts line stands for one $all rule per name.
NetworkLines(line) ==
  CASE line.kind = "network" -> {line}
    [] line.kind = "hosts" ->
         {NetworkLine(FALSE, <<"|", "|">> \o h \o <<"^">>, {[name |-> "all", neg |-> FALSE]}) :
            h \in line.hosts \ IgnoredHosts}
    [] OTHER -> {NetworkLine(FALSE, line.text, {})}   \* an asset rule that no injector took

\* The injector takes the asset rules, the JS ones only from a trusted list.
Kinds == {"cosmetic", "js"}
InjectorTakes(line, trust) == line.kind = "cosmetic" \/ (line.kind = "js" /\ trust)
-----------------------------------------------------------------------------
(* Requests. *)
Idle == [step |-> "idle"]
NoExchanges == client = [c \in Clients |-> Idle] /\ allowed = {}

RenderURL(req) == IF req.params = {} THEN req.url ELSE req.url \o <<"?">> \o SetToSeq(req.params)

Survivors(found, excs) == {r \in found : \A e \in excs : ~Cancels(e.mods, r.mods)}

\* The primary store is read under its lock ...
Request(c, req, matching) ==
  LET found == {r \in matching : ShouldMatchReq(r.mods, req)}
  IN /\ client' = [client EXCEPT ![c] =
          [step |-> IF found = {} THEN "pass" ELSE "matched", req |-> req, found |-> found,
           excs |-> {}, before |-> allowed]]
     /\ UNCHANGED allowed

\* ... and the exceptions after that under theirs; the rest is the request's own.
ModifyReq(c, matching) ==
  LET k == client[c]
      excs == {r \in matching : ShouldMatchReq(r.mods, k.req)}
      left == Survivors(k.found, excs)
      stopping == {r \in left : IsBlockRule(r.mods)
                                /\ (IsUserActivatedNavigation(k.req) => r.mods.nav)}
      params == ModifyReqQuery({r.mods : r \in left}, k.req.params)
      headers == k.req.headers \ UNION {RemovedHeaders(r.mods, "request") : r \in left}
  IN /\ k.step = "matched"
     /\ \/ \E r \in stopping :   \* in the order of a Go map
             client' = [client EXCEPT ![c] =
               [step |-> IF IsUserNavigation(k.req) THEN "page" ELSE "blocked",
                req |-> k.req, excs |-> excs, before |-> k.before, by |-> r.line]]
        \/ /\ stopping = {}
           /\ client' = [client EXCEPT ![c] =
                [step |-> IF params # k.req.params THEN "redirect" ELSE "pass",
                 req |-> [k.req EXCEPT !.params = params, !.headers = headers],
                 excs |-> excs, before |-> k.before]]
     /\ UNCHANGED allowed

\* The block page's button: the exception joins the rules, the page is asked for again.
Allow(c) ==
  /\ client[c].step = "page"
  /\ allowed' = allowed \cup {client[c].by}
  /\ client' = [client EXCEPT ![c] = [step |-> "redirect", req |-> client[c].req, excs |-> {}]]
-----------------------------------------------------------------------------
(* Responses. *)
IsDocumentNavigation(req, res) ==
  (req.https => req.dest \in {"document", "iframe"}) /\ res.mime = "text/html"

Respond(c, res, matching, assets) ==
  LET k == client[c]
      found == {r \in matching : r.mods.actions # {} /\ ShouldMatchRes(r.mods, k.req, res)}
  IN /\ k.step = "pass"
     /\ client' = [client EXCEPT ![c] =
          [step |-> IF found = {} THEN "done" ELSE "answered", req |-> k.req, res |-> res,
           found |-> found, excs |-> {},
           injected |-> IF IsDocumentNavigation(k.req, res) THEN assets ELSE {}]]
     /\ UNCHANGED allowed

ModifyRes(c, matching) ==
  LET k == client[c]
      excs == {r \in matching : ShouldMatchRes(r.mods, k.req, k.res)}
      removed == UNION {RemovedHeaders(r.mods, "response") : r \in Survivors(k.found, excs)}
  IN /\ k.step = "answered"
     /\ client' = [client EXCEPT ![c] = [step |-> "done", req |-> k.req, excs |-> excs,
                     res |-> [k.res EXCEPT !.headers = {h \in @ : h[1] \notin removed}]]]
     /\ UNCHANGED allowed

Finish(c) == /\ client[c].step \in {"page", "blocked", "done"}
             /\ client' = [client EXCEPT ![c] = Idle]
             /\ UNCHANGED allowed
-----------------------------------------------------------------------------
\* A rule the user allowed from a block page stops no request that begins
\* afterwards, whatever its modifiers and on whichever connection
\* (whitelistserver.handleAllow, ExceptionRule.Cancels).
AllowUnblocks ==
  \A c \in Clients : client[c].step \in {"page", "blocked"} => client[c].by \notin client[c].before
=============================================================================
