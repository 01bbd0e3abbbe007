---------------------------- MODULE MCIndexStore ----------------------------
(***************************************************************************)
(* Two pages over four words and two n-grams: w1 and w2 have both n-grams, *)
(* w3 occurs twice on a page, w4 is a number.                              *)
(***************************************************************************)
EXTENDS IndexStore, TLC

CONSTANTS p1, p2, w1, w2, w3, w4, g1, g2, s1, s2

SomeTokens == (p1 :> <<w1, w2, w4>>) @@ (p2 :> <<w3, w1, w3>>)
SomeGrams == (w1 :> <<g1, g2>>) @@ (w2 :> <<g1, g2>>) @@ (w3 :> <<g2>>) @@ (w4 :> <<>>)
SomeStems == (w1 :> s1) @@ (w2 :> s2) @@ (w3 :> s2) @@ (w4 :> None)
=============================================================================
