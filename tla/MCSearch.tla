------------------------------ MODULE MCSearch ------------------------------
(***************************************************************************)
(* Five documents, three for each word of the query, with d3 common to     *)
(* both; the list holds four of them in two groups.                        *)
(***************************************************************************)
EXTENDS Search

CONSTANTS d1, d2, d3, d4, d5

SomeURLs == (d1 :> "xbbab") @@ (d2 :> "abba") @@ (d3 :> "axabb") @@ (d4 :> "b") @@ (d5 :> "xbbaa")
SomeNear == (d1 :> 1) @@ (d2 :> 0) @@ (d3 :> 1) @@ (d4 :> 2) @@ (d5 :> 1)
SomeCounts == (d1 :> 3) @@ (d2 :> 5) @@ (d3 :> 4) @@ (d4 :> 3) @@ (d5 :> 6)

\* A posting with the positions of s, those in h in a header.
Posting(s, h) ==
  [Count |-> Len(s), Positions |-> [k \in 1..Len(s) |-> [I |-> s[k], Type |-> IF s[k] \in h THEN "h" ELSE "b"]]]

\* A posting that lost n positions when it was stored.
Cut(p, n) == [p EXCEPT !.Count = @ + n]

TwoWords ==
  << (d1 :> Posting(<<0, 2>>, {})) @@ (d2 :> Posting(<<1, 4, 5>>, {4})) @@ (d3 :> Posting(<<3>>, {})),
     (d3 :> Posting(<<0, 1>>, {0})) @@ (d4 :> Posting(<<2>>, {})) @@ (d5 :> Posting(<<0, 4, 5>>, {})) >>

CutWords ==
  << (d1 :> Cut(Posting(<<0, 2>>, {2}), 1)) @@ (d3 :> Posting(<<3, 5>>, {})),
     (d2 :> Cut(Posting(<<1, 4>>, {}), 2)) @@ (d3 :> Cut(Posting(<<0, 1>>, {}), 1)) >>

OneWord == << (d1 :> Posting(<<0, 2>>, {2})) @@ (d2 :> Posting(<<1>>, {})) @@ (d3 :> Posting(<<3>>, {})) >>

SomeQueries ==
  { << <<"ab", "bab">>, TwoWords, FALSE >>,
    << <<"bab", "bb">>, CutWords, FALSE >>, << <<"ab">>, OneWord, TRUE >>,
    << <<"zz">>, << <<>> >>, FALSE >> }
=============================================================================
