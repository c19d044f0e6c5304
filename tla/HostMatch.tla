----------------------------- MODULE HostMatch ------------------------------
(***************************************************************************)
(* internal/hostmatch: which data (selectors, scripts) apply to a          *)
(* hostname.  A hostname and a pattern are sequences of segments; "*" is a *)
(* segment.                                                                *)
(***************************************************************************)
EXTENDS Integers, Sequences, SequencesExt

(* A trie is its nodes' data by path, last segment of the pattern first. *)
NewTrie == [path \in {<<>>} |-> {}]

\* A trie with data added under each of the patterns.
Add(trie, patterns, data) ==
  LET paths == {Reverse(p) : p \in patterns}
      nodes == DOMAIN trie \cup UNION {{SubSeq(p, 1, n) : n \in 0..Len(p)} : p \in paths}
  IN [p \in nodes |-> (IF p \in DOMAIN trie THEN trie[p] ELSE {})
                      \cup (IF p \in paths THEN {data} ELSE {})]

\* The nodes to which a segment leads on; a wildcard takes one or more.
Onward(trie, from, segment) ==
  DOMAIN trie \cap ({Append(p, c) : p \in from, c \in {"*", segment}}
                    \cup {p \in from : p # <<>> /\ p[Len(p)] = "*"})

\* The nodes that each number of segments leads to from the root.
Reached(trie, segments) ==
  LET r[k \in 0..Len(segments)] ==
        IF k = 0 THEN {<<>>} ELSE Onward(trie, r[k - 1], segments[k])
  IN r

\* Every node on the way counts, since a pattern names subdomains too.
TrieGet(trie, host) ==
  LET segments == Reverse(host)
  IN UNION {trie[p] : p \in UNION {Reached(trie, segments)[k] : k \in 0..Len(host)}}
-----------------------------------------------------------------------------
(* The matcher: a pattern is [neg, host], neg for one written ~host. *)
NewHostMatcher == [generic |-> {}, genericExceptions |-> {},
                   primary |-> NewTrie, exceptions |-> NewTrie]

\* An empty pattern refuses a primary rule whole, and stops an exception rule
\* after the patterns before it.
Hosts(exc, patterns, neg) ==
  {patterns[i].host : i \in {j \in DOMAIN patterns :
     /\ patterns[j].neg = neg
     /\ \A l \in (IF exc THEN 1..j ELSE DOMAIN patterns) : patterns[l].host # <<>>}}

AddPrimaryRule(hm, patterns, data) ==
  IF patterns = <<>> THEN [hm EXCEPT !.generic = @ \cup {data}]
  ELSE [hm EXCEPT !.primary = Add(@, Hosts(FALSE, patterns, FALSE), data),
                  !.exceptions = Add(@, Hosts(FALSE, patterns, TRUE), data)]

\* In an exception rule ~ is part of the name, which no host has.
AddExceptionRule(hm, patterns, data) ==
  IF patterns = <<>> THEN [hm EXCEPT !.genericExceptions = @ \cup {data}]
  ELSE [hm EXCEPT !.exceptions = Add(@, Hosts(TRUE, patterns, FALSE), data)]

AddAsset(hm, line) ==
  IF line.exc THEN AddExceptionRule(hm, line.patterns, line.data)
              ELSE AddPrimaryRule(hm, line.patterns, line.data)

HostGet(hm, host) ==
  (hm.generic \cup TrieGet(hm.primary, host))
    \ (hm.genericExceptions \cup TrieGet(hm.exceptions, host))

\* The matcher that holds the lines of a list, added in their order.
Matcher(lines) ==
  LET hm[i \in 0..Len(lines)] == IF i = 0 THEN NewHostMatcher ELSE AddAsset(hm[i - 1], lines[i])
  IN hm[Len(lines)]
-----------------------------------------------------------------------------
(* The reference.  A pattern matches a host it names and the host's          *)
(* subdomains, and "*" stands for one segment or more: its segments are laid *)
(* along those of the host, the last one of each first.                      *)
LaidAlong(at, p, h) ==
  /\ at[0] = 0
  /\ \A i \in 1..Len(p) : IF p[i] = "*" THEN at[i] > at[i - 1]
                                        ELSE at[i] = at[i - 1] + 1 /\ h[at[i]] = p[i]
Reaches(p, h) == \E at \in [0..Len(p) -> 0..Len(h)] : LaidAlong(at, p, h)

HostMatches(pattern, host) == Reaches(Reverse(pattern), Reverse(host))

\* What the lines of a set give a host, each looked at on its own.
Wanted(lines, host) ==
  LET Names(l, neg) == \E p \in Hosts(l.exc, l.patterns, neg) : HostMatches(p, host)
  IN {l.data : l \in {x \in lines : ~x.exc /\ (x.patterns = <<>> \/ Names(x, FALSE))}}
     \ {l.data : l \in {x \in lines : (x.exc /\ x.patterns = <<>>) \/ Names(x, ~x.exc)}}
=============================================================================
