---------------------------- MODULE SpellChecker ----------------------------
(***************************************************************************)
(* The choice of a replacement for a misspelt word (spellChecker.go), with *)
(* what the distance of two words is to be.                                *)
(*                                                                         *)
(* Definitions marked Variant are faulty forms of a definition below them, *)
(* which the properties tell apart; nothing else uses them.                *)
(***************************************************************************)
EXTENDS Naturals, Sequences, FiniteSetsExt

CONSTANT MaxTypo  \* maxTypo

ASSUME MaxTypoAssumption == MaxTypo \in Nat \ {0}

\* Variant: an equal character is free wherever the two words have come to.
Cheaper(equal, insert, delete, replace) ==
  IF equal THEN Min({insert, delete, replace}) ELSE Min({insert, delete, replace}) + 1

\* dp[i][j] from its neighbours.
Entry(equal, insert, delete, replace) ==
  IF equal THEN replace ELSE Min({insert, delete, replace}) + 1

levenshteinDistance(word1, word2) ==
  LET dp[i \in 0..Len(word1), j \in 0..Len(word2)] ==
        IF i = 0 \/ j = 0 THEN i + j
        ELSE Entry(SubSeq(word1, i, i) = SubSeq(word2, j, j), dp[i - 1, j], dp[i, j - 1], dp[i - 1, j - 1])
  IN  IF Len(word1) > Len(word2) + MaxTypo \/ Len(word2) > Len(word1) + MaxTypo
        THEN MaxTypo + 1
        ELSE dp[Len(word1), Len(word2)]

\* The first candidate within MaxTypo, however near the others are; the word itself
\* when there is none (the list st of the code never holds a better one).
BestReplacement(s1, candidates) ==
  LET near == {k \in DOMAIN candidates : levenshteinDistance(s1, candidates[k]) <= MaxTypo}
  IN  IF near = {} THEN s1 ELSE candidates[Min(near)]
-----------------------------------------------------------------------------
(* What the distance is to be *)

\* Words one edit away from word, with characters of the set.
Edited(word, characters) ==
  LET Upto(i) == SubSeq(word, 1, i)
      From(i) == SubSeq(word, i, Len(word))
  IN  {Upto(i - 1) \o From(i + 1) : i \in 1..Len(word)}
        \cup {Upto(i - 1) \o c \o From(i + 1) : i \in 1..Len(word), c \in characters}
        \cup {Upto(i) \o c \o From(i + 1) : i \in 0..Len(word), c \in characters}

\* At most n edits lead from word1 to word2.
WithinEdits(word1, word2, n) ==
  LET characters == {SubSeq(word2, j, j) : j \in 1..Len(word2)}
      reached[k \in 0..n] ==
        IF k = 0 THEN {word1}
        ELSE reached[k - 1] \cup UNION {Edited(w, characters) : w \in reached[k - 1]}
  IN  word2 \in reached[n]
=============================================================================
