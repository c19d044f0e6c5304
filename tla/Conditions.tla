----------------------------- MODULE Conditions -----------------------------
(* internal/filter/directives.go: the condition of an !#if, a sequence of    *)
(* tokens.                                                                   *)
EXTENDS Integers, Sequences

Declared(id) == id = "adguard"
MaxConditionDepth == 4   \* 32 in the code
Words == {"adguard", "ios"}

\* What a parsing function returns: the value, the tokens left, an error or none.
Parsed(value, rest, ok) == [value |-> value, rest |-> rest, ok |-> ok]
Consumes(toks, tok) == toks # <<>> /\ Head(toks) = tok

RECURSIVE Or(_, _), OrMore(_, _), AndMore(_, _), Unary(_, _)
Unary(toks, depth) ==
  LET inner == IF Consumes(toks, "!") THEN Unary(Tail(toks), depth + 1)
                                      ELSE Or(Tail(toks), depth + 1)
  IN CASE depth > MaxConditionDepth -> Parsed(FALSE, toks, FALSE)
       [] depth <= MaxConditionDepth /\ Consumes(toks, "!") ->
            Parsed(~inner.value, inner.rest, inner.ok)
       [] depth <= MaxConditionDepth /\ Consumes(toks, "(") ->
            IF inner.ok /\ Consumes(inner.rest, ")")
            THEN Parsed(inner.value, Tail(inner.rest), TRUE)
            ELSE Parsed(inner.value, inner.rest, FALSE)
       [] OTHER -> IF toks # <<>> /\ Head(toks) \in Words
                   THEN Parsed(Declared(Head(toks)), Tail(toks), TRUE)
                   ELSE Parsed(FALSE, toks, FALSE)

And(toks, depth) == AndMore(Unary(toks, depth), depth)
AndMore(left, depth) ==
  IF ~left.ok \/ ~Consumes(left.rest, "&&") THEN left
  ELSE LET right == Unary(Tail(left.rest), depth)
       IN AndMore([right EXCEPT !.value = left.value /\ @], depth)

Or(toks, depth) == OrMore(And(toks, depth), depth)
OrMore(left, depth) ==
  IF ~left.ok \/ ~Consumes(left.rest, "||") THEN left
  ELSE LET right == And(Tail(left.rest), depth)
       IN OrMore([right EXCEPT !.value = left.value \/ @], depth)

\* A malformed condition counts as false.
EvalCondition(toks) == LET p == Or(toks, 1) IN p.ok /\ p.rest = <<>> /\ p.value
=============================================================================
