------------------------------- MODULE Filter -------------------------------
(* internal/filter, internal/networkrules and the asset engine: the lines of *)
(* the filter lists become rules in two stores and in the host matchers, in  *)
(* which the rules for each exchange are then looked up.                     *)
EXTENDS RuleTree, HostMatch, Conditions, Directives, Exchanges

CONSTANTS
  Lines,         \* the lines a list may hold
  Regexp,        \* by the text of each regexp that compiles, the URLs it matches
  MaxLines,      \* lines that apply, over all lists
  MaxDepth       \* open !#if blocks

VARIABLES
  phase,      \* "loading" the lists, or "serving"
  trusted,    \* of the list being read; its directives are in dirs
  rules,      \* the primary and the exception store
  hosts,      \* the host matchers of the cosmetic and the JS injector
  seen,       \* the lines seen, or Forgotten
  applied     \* history: the lines that apply, with their list's trust

list == <<trusted, dirs, blocks>>
vars == <<phase, list, rules, hosts, seen, applied, exchanges>>

Forgotten == {[kind |-> "forgotten"]}
NewStore == [generic |-> {}, tree |-> NewTree, regexp |-> {}]

Init ==
  /\ phase = "loading"
  /\ trusted \in BOOLEAN /\ ListBegins
  /\ rules = [primary |-> NewStore, exception |-> NewStore]
  /\ hosts = [k \in Kinds |-> NewHostMatcher]
  /\ seen = {} /\ applied = {} /\ NoExchanges
-----------------------------------------------------------------------------
(* The rule store. *)
IsGeneric(pattern) == \A i \in DOMAIN pattern : pattern[i] = "*"
IsRegexp(pattern) == Len(pattern) > 1 /\ pattern[1] = "/" /\ Last(pattern) = "/"
Body(pattern) == SubSeq(pattern, 2, Len(pattern) - 1)

StoreInsert(store, pattern, rule) ==
  CASE IsGeneric(pattern) -> [store EXCEPT !.generic = @ \cup {rule}]
    [] ~IsGeneric(pattern) /\ IsRegexp(pattern) ->
         IF Body(pattern) \in DOMAIN Regexp   \* or it does not compile
         THEN [store EXCEPT !.regexp = @ \cup {<<Body(pattern), rule>>}] ELSE store
    [] OTHER -> [store EXCEPT !.tree = Insert(@, pattern, rule)]

Match(store, url) ==
  store.generic \cup Get(store.tree, url) \cup {re[2] : re \in {x \in store.regexp : url \in Regexp[x[1]]}}

AddNetworkRule(nr, line) ==
  LET store == IF line.exc THEN "exception" ELSE "primary"
  IN IF ~ParseModifiers(line.mods).ok THEN nr
     ELSE [nr EXCEPT ![store] = StoreInsert(@, line.pattern, RuleOf(line))]

ParseRule(nr, line) == FoldSet(LAMBDA l, acc : AddNetworkRule(acc, l), nr, NetworkLines(line))
-----------------------------------------------------------------------------
(* Reading the lists.  The code reads them on goroutines of their own, which *)
(* share only the stores and seen, each behind its lock: one at a time here. *)
Inject(line) == [hosts EXCEPT ![line.kind] = AddAsset(@, line)]

AddRule(line) ==
  IF InjectorTakes(line, trusted)
  THEN hosts' = Inject(line) /\ UNCHANGED <<rules, seen>>
  ELSE /\ UNCHANGED hosts
       /\ IF line \in seen THEN UNCHANGED <<rules, seen>>
          ELSE seen' = seen \cup {line} /\ rules' = ParseRule(rules, line)

ReadRule(line) ==
  /\ phase = "loading" /\ line.kind \notin {"if", "else", "endif"}
  /\ AllApply => Cardinality(applied \cup {<<line, trusted>>}) <= MaxLines
  /\ IF Skip(dirs) THEN UNCHANGED <<rules, hosts, seen>> ELSE AddRule(line)
  /\ applied' = IF AllApply THEN applied \cup {<<line, trusted>>} ELSE applied
  /\ UNCHANGED <<phase, list, exchanges>>

ReadDirective(line) ==
  /\ phase = "loading"
  /\ \/ line.kind = "if" /\ Len(blocks) < MaxDepth
        /\ IfLine(EvalCondition(line.condition), line.holds)
     \/ line.kind = "else" /\ ElseLine
     \/ line.kind = "endif" /\ EndIfLine
  /\ UNCHANGED <<phase, trusted, rules, hosts, seen, applied, exchanges>>

\* A list ends, with its blocks open or not, and another one begins.
NextList(trust) ==
  /\ phase = "loading"
  /\ trusted' = trust /\ NextListBegins
  /\ UNCHANGED <<phase, rules, hosts, seen, applied, exchanges>>

\* The lines seen are kept.
Finalize_wrong ==
  /\ phase = "loading" /\ phase' = "serving"
  /\ rules' = [s \in DOMAIN rules |-> [rules[s] EXCEPT !.tree = Compact(@)]]
  /\ trusted' = FALSE /\ NextListBegins
  /\ UNCHANGED <<hosts, seen, applied, exchanges>>

Finalize ==
  /\ phase = "loading"
  /\ phase' = "serving" /\ seen' = Forgotten
  /\ rules' = [s \in DOMAIN rules |-> [rules[s] EXCEPT !.tree = Compact(@)]]
  /\ trusted' = FALSE /\ NextListBegins
  /\ UNCHANGED <<hosts, applied, exchanges>>
-----------------------------------------------------------------------------
(* Handling an exchange: what is looked up for it. *)
Primary(req) == Match(rules.primary, RenderURL(req))
Exception(req) == Match(rules.exception, RenderURL(req))
Injected(host) == UNION {{<<kind, data>> : data \in HostGet(hosts[kind], host)} : kind \in Kinds}

Exchange(c) ==
  LET k == client[c] IN
  \/ Allow(c) /\ rules' = ParseRule(rules, [k.by EXCEPT !.exc = TRUE])
  \/ /\ \/ /\ phase = "serving" /\ k.step = "idle"
           /\ \E req \in WebRequests : Request(c, req, Primary(req))
        \/ k.step = "redirect" /\ Request(c, k.req, Primary(k.req))
        \/ k.step = "matched" /\ ModifyReq(c, Exception(k.req))
        \/ /\ k.step = "pass"
           /\ \E res \in WebResponses : Respond(c, res, Primary(k.req), Injected(k.req.host))
        \/ k.step = "answered" /\ ModifyRes(c, Exception(k.req))
        \/ Finish(c)
     /\ UNCHANGED rules

Next == \/ \E line \in Lines : ReadRule(line) \/ ReadDirective(line)
        \/ \E trust \in BOOLEAN : NextList(trust)
        \/ Finalize
        \/ \E c \in Clients : Exchange(c) /\ UNCHANGED <<phase, list, hosts, seen, applied>>

Spec == Init /\ [][Next]_vars
-----------------------------------------------------------------------------
Steps == {"idle", "matched", "pass", "page", "blocked", "redirect", "answered", "done"}

Stored(store) == store.generic \cup {re[2] : re \in store.regexp} \cup {kv[2] : kv \in store.tree.domains \cup store.tree.frozen}

\* Every exchange has its step, each store its own kind of rule, and the lines
\* seen are forgotten when the lists are loaded (the types in filter.go and
\* networkrules.go).
TypeOK ==
  /\ phase \in {"loading", "serving"}
  /\ (seen = Forgotten) = (phase = "serving")
  /\ trusted \in BOOLEAN /\ dirs \in [applied : 0..MaxDepth, skipped : 0..MaxDepth]
  /\ \A r \in Stored(rules.primary) : ~r.line.exc
  /\ \A r \in Stored(rules.exception) : r.line.exc
  /\ \A c \in Clients : client[c].step \in Steps

-----------------------------------------------------------------------------
\* One pattern by itself.
PatternMatches(pattern, url) ==
  CASE IsGeneric(pattern) -> TRUE
    [] ~IsGeneric(pattern) /\ IsRegexp(pattern) ->
         Body(pattern) \in DOMAIN Regexp /\ url \in Regexp[Body(pattern)]
    [] OTHER -> Matches(pattern, url)

ByLine == INSTANCE LineByLine

\* What an exchange is matched with, from the rule trees and the host tries, is
\* what each line that applies gives on its own: it depends neither on the other
\* lines, nor on their order, nor on compaction, nor on which list, trusted or
\* not, brought a line first (ruletree.Get, ruleStore.Match, HostMatcher.Get,
\* addRule).
ImplementsLineByLine == ByLine!Spec
=============================================================================
