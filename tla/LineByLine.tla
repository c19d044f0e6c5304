----------------------------- MODULE LineByLine -----------------------------
(***************************************************************************)
(* What the filter promises: an exchange is handled with each line that    *)
(* applies, tried on its own.  There are no trees, no tries, no buckets    *)
(* and no lines seen; a pattern matches a URL or it does not.              *)
(***************************************************************************)
EXTENDS Exchanges, HostMatch

CONSTANTS
  Lines,                   \* the lines that a list may hold
  PatternMatches(_, _)     \* whether a rule's pattern matches a URL

VARIABLES
  phase,      \* "loading" the lists, or "serving"
  applied     \* the lines that apply, with their list's trust

Init == phase = "loading" /\ applied = {} /\ NoExchanges

\* The network rules that lines make, and those the user allowed as exceptions.
Loaded == UNION {NetworkLines(lt[1]) : lt \in {x \in applied : ~InjectorTakes(x[1], x[2])}}
Exceptions == {[l EXCEPT !.exc = TRUE] : l \in allowed}

Matching(exc, url) ==
  {RuleOf(l) : l \in {x \in Loaded \cup (IF exc THEN Exceptions ELSE {}) :
     x.exc = exc /\ ParseModifiers(x.mods).ok /\ PatternMatches(x.pattern, url)}}

\* What the asset lines of a kind inject into a page of host.
Injected(kind, host) ==
  {<<kind, data>> : data \in
     Wanted({lt[1] : lt \in {x \in applied : x[1].kind = kind /\ InjectorTakes(x[1], x[2])}}, host)}
-----------------------------------------------------------------------------
Apply ==
  /\ phase = "loading"
  /\ \E line \in Lines, trusted \in BOOLEAN :
       /\ line.kind = "network" => line = NetworkLine(line.exc, line.pattern, line.mods)
       /\ applied' = applied \cup {<<line, trusted>>}
  /\ UNCHANGED <<phase, exchanges>>

Serve == phase = "loading" /\ phase' = "serving" /\ UNCHANGED <<applied, exchanges>>

Handle(c) ==
  LET k == client[c]
      Rules(exc) == Matching(exc, RenderURL(k.req))
  IN \/ /\ k.step = "idle" /\ phase = "serving"
        /\ \E req \in WebRequests : Request(c, req, Matching(FALSE, RenderURL(req)))
     \/ k.step = "redirect" /\ Request(c, k.req, Rules(FALSE))
     \/ k.step = "matched" /\ ModifyReq(c, Rules(TRUE))
     \/ Allow(c)
     \/ /\ k.step = "pass"
        /\ \E res \in WebResponses :
             Respond(c, res, Rules(FALSE), UNION {Injected(kind, k.req.host) : kind \in Kinds})
     \/ k.step = "answered" /\ ModifyRes(c, Rules(TRUE))
     \/ Finish(c)

Next ==
  \/ Apply \/ Serve
  \/ \E c \in Clients : Handle(c) /\ UNCHANGED <<phase, applied>>

Spec == Init /\ [][Next]_<<phase, applied, exchanges>>
=============================================================================
