---------------------------- MODULE MCFilterBuild ----------------------------
EXTENDS FilterBuild, TLC

CONSTANTS a, b

\* List a includes list b, which includes itself: enabled alone, b meets a
\* duplicate; below a its self-include is too deep.
MCUrl == {a, b}
MCIncludes == (a :> {b}) @@ (b :> {b})
=============================================================================
