------------------------------ MODULE MCFilter ------------------------------
(* Filter for TLC: patterns that share prefixes, end inside one another, end *)
(* in an anchor or a separator, or stand in the domain bucket; every kind of *)
(* modifier; hosts, cosmetic and JS lines; conditions of each shape.         *)
EXTENDS Filter

Plain(name) == [name |-> name, neg |-> FALSE]
Not(name) == [name |-> name, neg |-> TRUE]
With(name, neg, val) == [name |-> name, neg |-> neg, val |-> val]
RemoveHeader(kind, header) == With("removeheader", FALSE, [kind |-> kind, header |-> header])

Block(pattern, mods) == NetworkLine(FALSE, pattern, mods)
Except(pattern, mods) == NetworkLine(TRUE, pattern, mods)
Asset(kind, exc, patterns, data) ==
  [kind |-> kind, exc |-> exc, patterns |-> patterns, data |-> data, text |-> <<"a", "#", data>>]
Host(neg, host) == [neg |-> neg, host |-> host]
Directive(condition, holds) == [kind |-> "if", condition |-> condition, holds |-> holds]

MCLines == {
  Block(<<"|", "|", "a", "^">>, {}),
  Block(<<"/", "a", "b">>, {Plain("important"), Not("script")}),
  Block(<<"/", "a">>, {Plain("document")}),
  Block(<<"|", "|", "a", "/", "*", "b", "|">>, {Plain("all"), Plain("_")}),
  Block(<<"/", "a", "/">>, {Plain("all"), Not("document")}),
  Block(<<"*">>, {With("removeparam", FALSE, {"p"}), With("third-party", FALSE, {})}),
  Block(<<"|", "s", ":", "^", "b", ".">>,
        {RemoveHeader("request", "Cookie"), With("domain", TRUE, {<<"c">>, <<"a", "*">>})}),
  Block(<<"a", "^", "a">>, {RemoveHeader("response", "X"), With("header", FALSE, <<"X", "1">>)}),
  Block(<<"a", "b">>, {Plain("document"), Not("document")}),
  Except(<<"/", "a", "*">>, {RemoveHeader("response", "X")}),
  Except(<<"|", "|", "b", ".", "a", "^">>, {Plain("script")}),
  [kind |-> "hosts", hosts |-> {<<"b", ".", "a">>, <<"l">>}],
  Asset("cosmetic", FALSE, <<Host(FALSE, <<"b", "a">>), Host(TRUE, <<"a", "*", "a">>)>>, "d"),
  Asset("cosmetic", FALSE, <<Host(FALSE, <<"*", "a">>), Host(FALSE, <<>>)>>, "e"),
  Asset("cosmetic", TRUE, <<Host(FALSE, <<"a", "b", "a">>), Host(FALSE, <<>>), Host(FALSE, <<"b", "a">>)>>, "d"),
  Asset("js", FALSE, <<Host(FALSE, <<"a", "*", "a">>)>>, "j"),
  Asset("js", FALSE, <<>>, "k"),
  Asset("js", TRUE, <<Host(TRUE, <<"a">>), Host(FALSE, <<"b", "*">>)>>, "k"),
  Directive(<<"adguard">>, TRUE),
  Directive(<<"!", "adguard", "||", "adguard", "&&", "ios">>, FALSE),
  Directive(<<"!", "(", "ios", "||", "!", "adguard", ")">>, TRUE),
  Directive(<<"ios", "||", "adguard", "&&", "!", "ios">>, TRUE),
  Directive(<<"adguard", "||">>, FALSE),
  Directive(<<"(", "adguard">>, FALSE),
  Directive(<<"!", "!", "!", "!", "adguard">>, FALSE),
  [kind |-> "else"], [kind |-> "endif"] }

MCSymmetry == Permutations(Clients)

MCIgnoredHosts == {<<"l">>}
MCRegexp == <<"a">> :> {<<"s", ":", "/", "/", "b", ".", "a", "/", "a">>}

Base == [url |-> <<"s", ":", "/", "/", "b", ".", "a", "/", "a">>, host |-> <<"b", "a">>,
         referer |-> NoReferer, site |-> "", method |-> "GET", dest |-> "", mode |-> "", user |-> FALSE,
         ping |-> FALSE, upgrade |-> FALSE, https |-> TRUE, params |-> {}, headers |-> {"Cookie"}]

Deep == [Base EXCEPT !.url = <<"s", ":", "/", "/", "a", ".", "b", ".", "a", "/", "a", "b">>,
                     !.host = <<"a", "b", "a">>]

MCRequests == {
  [Base EXCEPT !.dest = "document", !.mode = "navigate", !.user = TRUE],
  [Deep EXCEPT !.dest = "document", !.mode = "navigate", !.site = "cross-site", !.referer = <<"a", "c">>],
  [Deep EXCEPT !.dest = "script", !.site = "cross-site", !.params = {"p", "q"}, !.referer = <<"b", "c">>],
  [Base EXCEPT !.https = FALSE, !.referer = BadReferer, !.params = {"p"}] }

MCResponses == { [mime |-> "text/html", headers |-> {<<"X", "1">>}],
                 [mime |-> "text/javascript", headers |-> {<<"X", "2">>}] }
=============================================================================
