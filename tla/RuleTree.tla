------------------------------ MODULE RuleTree ------------------------------
(* internal/ruletree: the radix tree that finds which adblock-style patterns *)
(* match a URL.  A pattern and a URL are sequences of characters; a value is *)
(* whatever is stored under a pattern (a rule).                              *)
EXTENDS Integers, Sequences, FiniteSets, SequencesExt, TLC

Separators == {"~", ":", "/", "?", "#", "[", "]", "@", "!", "$", "&", "'", "(", ")",
               "*", "+", ",", ";", "="}
TraversalMarkers == (Separators \cup {"-", ".", "_", "%"})

DomainChars == {"a", "b", "c", "d", "e", "0", "1", "-", ".", "_"}  \* of a-z 0-9 . - _
Special == {"*", "^", "|"}

Drop(s, n) == SubSeq(s, n + 1, Len(s))
-----------------------------------------------------------------------------
(* A node is its prefix, its values and its edges by label. *)
Node(prefix, leaf, edges) == [prefix |-> prefix, leaf |-> leaf, edges |-> edges]
NoNode == Node(<<>>, {}, <<>>)

NewTree == [domains |-> {}, frozen |-> {},
            root |-> NoNode, boundary |-> NoNode, anchor |-> NoNode]

Tokenize(p) ==
  LET kept == SelectSeq([i \in 1..Len(p) |-> i],
                        LAMBDA i : ~(p[i] = "*" /\ i > 1 /\ p[i - 1] = "*"))
  IN [i \in 1..Len(kept) |-> p[kept[i]]]

CommonPrefix(a, b) ==
  CHOOSE n \in 0..Len(a) :
    /\ n <= Len(b)
    /\ SubSeq(a, 1, n) = SubSeq(b, 1, n)
    /\ n = Len(a) \/ n = Len(b) \/ a[n + 1] # b[n + 1]

\* A pattern that ends inside an edge takes the values of what was there.
Split_wrong(n, tokens, common, v) ==
  LET old  == Node(Drop(n.prefix, common), n.leaf, n.edges)
      rest == Drop(tokens, common)
  IN IF rest = <<>>
     THEN Node(SubSeq(tokens, 1, common), {v} \cup n.leaf, old.prefix[1] :> [old EXCEPT !.leaf = {}])
     ELSE Node(SubSeq(tokens, 1, common), {},
               old.prefix[1] :> old @@ rest[1] :> Node(rest, {v}, <<>>))

\* An edge split: the common part becomes a node of its own, over what was there.
Split(n, tokens, common, v) ==
  LET old  == Node(Drop(n.prefix, common), n.leaf, n.edges)
      rest == Drop(tokens, common)
  IN IF rest = <<>>
     THEN Node(SubSeq(tokens, 1, common), {v}, old.prefix[1] :> old)
     ELSE Node(SubSeq(tokens, 1, common), {},
               old.prefix[1] :> old @@ rest[1] :> Node(rest, {v}, <<>>))

RECURSIVE InsertNode(_, _, _)
InsertNode(n, tokens, v) ==
  IF tokens = <<>> THEN [n EXCEPT !.leaf = @ \cup {v}]
  ELSE IF tokens[1] \notin DOMAIN n.edges
  THEN [n EXCEPT !.edges = tokens[1] :> Node(tokens, {v}, <<>>) @@ @]
  ELSE LET e == n.edges[tokens[1]]
           common == CommonPrefix(tokens, e.prefix)
           under == IF common = Len(e.prefix) THEN InsertNode(e, Drop(tokens, common), v)
                                              ELSE Split(e, tokens, common, v)
       IN [n EXCEPT !.edges[tokens[1]] = under]

IsBoundary(p) == Len(p) >= 2 /\ p[1] = "|" /\ p[2] = "|"
HasBoundary(p) == \E i \in 1..Len(p) : IsBoundary(Drop(p, i - 1))

InsertTree(t, p, v) ==
  LET field == IF IsBoundary(p) THEN "boundary" ELSE IF p[1] = "|" THEN "anchor" ELSE "root"
      rest == CASE field = "boundary" -> Drop(p, 2) [] field = "anchor" -> Tail(p)
                [] OTHER -> p
  IN IF HasBoundary(rest) THEN t   \* "||" is allowed only in front
     ELSE [t EXCEPT ![field] = InsertNode(@, Tokenize(rest), v)]

\* A pattern that is exactly ||domain^.
IsDomainKey(p) ==
  /\ Len(p) >= 4 /\ IsBoundary(p) /\ p[Len(p)] = "^"
  /\ p[3] # "." /\ p[Len(p) - 1] # "."
  /\ \A i \in 3..(Len(p) - 1) : p[i] \in DomainChars

Insert(t, p, v) ==
  CASE p = <<>> -> t
    [] IsDomainKey(p) -> [t EXCEPT !.domains = @ \cup {<<SubSeq(p, 3, Len(p) - 1), v>>}]
    [] OTHER -> InsertTree(t, p, v)


Compact(t) == [t EXCEPT !.frozen = @ \cup t.domains, !.domains = {}]
-----------------------------------------------------------------------------
\* The labels of the edges that may lead on from a node when url is left.
EdgesAt(url) ==
  IF url = <<>> THEN Special
  ELSE {"*", url[1]} \cup (IF url[1] \in Separators THEN {"^"} ELSE {})

RECURSIVE TraversePrefix(_, _, _)
Traverse(n, url) == TraversePrefix(n, n.prefix, url)

Children(n, url) ==
  UNION {TraversePrefix(n.edges[c], n.edges[c].prefix, url) : c \in EdgesAt(url) \cap DOMAIN n.edges}

\* n's prefix ends in a wildcard, which may end anywhere in url.
TraverseWildcardTail(n, url) == n.leaf \cup UNION {Children(n, Drop(url, i)) : i \in 0..Len(url)}

\* A wildcard followed by more: the places in url where the next token may be.
AfterWildcard(next, url) ==
  IF next = "|" THEN {<<>>}
  ELSE {Drop(url, i - 1) : i \in {j \in 1..Len(url) :
          IF next = "^" THEN url[j] \in Separators ELSE url[j] = next}}

\* A separator takes the first separator of a run, or the whole run.
AfterSeparator(url) ==
  LET run == CHOOSE k \in 1..Len(url) :
               /\ \A i \in 1..k : url[i] \in Separators
               /\ k = Len(url) \/ url[k + 1] \notin Separators
  IN IF url[1] \in Separators THEN {Tail(url), Drop(url, run)} ELSE {}

\* What n's subtree matches in url, with prefix left of n's own prefix.
TraversePrefix(n, prefix, url) ==
  CASE prefix = <<>> -> n.leaf \cup Children(n, url)
    [] prefix # <<>> /\ url = <<>> ->
         IF Len(prefix) = 1 /\ prefix[1] \in Special THEN n.leaf ELSE {}
    [] prefix # <<>> /\ url # <<>> ->
         CASE prefix[1] = "|" -> {}
           [] prefix = <<"*">> -> TraverseWildcardTail(n, url)
           [] prefix[1] = "*" /\ Len(prefix) > 1 ->
                UNION {TraversePrefix(n, Tail(prefix), u) : u \in AfterWildcard(prefix[2], url)}
           [] prefix[1] = "^" ->
                UNION {TraversePrefix(n, Tail(prefix), u) : u \in AfterSeparator(url)}
           [] OTHER -> IF prefix[1] = url[1] THEN TraversePrefix(n, Tail(prefix), Tail(url)) ELSE {}

UpToSeparator(s) ==
  LET i == SelectInSeq(s, LAMBDA c : c \in Separators) IN IF i = 0 THEN s ELSE SubSeq(s, 1, i - 1)

MatchDomainBoundary(t, s) ==
  Traverse(t.boundary, s) \cup {kv[2] : kv \in {x \in t.frozen \cup t.domains : x[1] = UpToSeparator(s)}}

\* The first character of the host, and the first after it.
HostStart(url) == 3 + CHOOSE i \in 1..Len(url) : SubSeq(url, i, i + 2) = <<":", "/", "/">>
HostEnd(url) ==
  LET i == SelectInSeq(Drop(url, HostStart(url) - 1), LAMBDA c : c \in {"/", "?"})
  IN IF i = 0 THEN Len(url) + 1 ELSE HostStart(url) + i - 1

\* Where an unanchored pattern may begin: the start, a marker, or right after one.
Starts(url) ==
  {1} \cup {i \in 2..Len(url) : url[i] \in TraversalMarkers
                                 \/ (i > 2 /\ url[i - 1] \in TraversalMarkers)}

\* Where a || pattern may begin: the host, and each of its parent domains.
BoundaryStarts(url) ==
  {HostStart(url)} \cup {i + 1 : i \in {j \in (HostStart(url) + 1)..(HostEnd(url) - 1) : url[j] = "."}}

Get(t, url) ==
  Traverse(t.anchor, url)
    \cup UNION {Traverse(t.root, Drop(url, i - 1)) : i \in Starts(url)}
    \cup UNION {MatchDomainBoundary(t, Drop(url, i - 1)) : i \in BoundaryStarts(url)}
-----------------------------------------------------------------------------
(* The reference: what one pattern matches, whatever else the tree holds. *)
RECURSIVE MatchesFrom(_, _)
MatchesFrom(p, url) ==
  CASE p = <<>> -> TRUE
    [] p # <<>> /\ p[1] = "|" -> url = <<>> /\ MatchesFrom(Tail(p), url)
    [] p # <<>> /\ p[1] = "*" -> \E i \in 0..Len(url) : MatchesFrom(Tail(p), Drop(url, i))
    [] p # <<>> /\ p[1] = "^" ->
         \/ url = <<>> /\ MatchesFrom(Tail(p), url)
         \/ \E k \in 1..Len(url) : /\ \A i \in 1..k : url[i] \in Separators
                                   /\ MatchesFrom(Tail(p), Drop(url, k))
    [] OTHER -> url # <<>> /\ p[1] = url[1] /\ MatchesFrom(Tail(p), Tail(url))

Matches(p, url) ==
  CASE p = <<>> -> FALSE
    [] IsBoundary(p) -> /\ ~HasBoundary(Drop(p, 2))
                        /\ \E i \in BoundaryStarts(url) : MatchesFrom(Drop(p, 2), Drop(url, i - 1))
    [] p # <<>> /\ p[1] = "|" /\ ~IsBoundary(p) -> ~HasBoundary(Tail(p)) /\ MatchesFrom(Tail(p), url)
    [] OTHER -> /\ ~HasBoundary(p)
                /\ \E i \in Starts(url) : MatchesFrom(p, Drop(url, i - 1))
=============================================================================
