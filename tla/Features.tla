------------------------------ MODULE Features ------------------------------
(***************************************************************************)
(* The features of one document that searcher/preprocessingFeatures.go     *)
(* computes for the ranking: how close together the words of the query are *)
(* (getMinQueryDistInDoc) and whether they occur in the URL                *)
(* (boyerMoorAlgorithm), with what the two functions are to return.        *)
(*                                                                         *)
(* Sequences count from 1, slices from 0: index i of the code is i + 1.    *)
(* A string is the sequence of its characters; characters take one byte.   *)
(*                                                                         *)
(* Definitions marked Variant are faulty forms of a definition below them, *)
(* which the properties tell apart; nothing else uses them.                *)
(***************************************************************************)
EXTENDS Naturals, Sequences, FiniteSetsExt, Functions

CONSTANT MaxInt  \* math.MaxInt

\* Variant: an equal position counts as a later one.
bsNotAbove(arr, target) ==
  LET search[s \in (0..Len(arr)) \X (0..Len(arr))] ==
        LET l == s[1]
            r == s[2]
            m == (l + r) \div 2
        IN  IF l >= r THEN l
            ELSE IF arr[m + 1] < target THEN search[<<m + 1, r>>] ELSE search[<<l, m>>]
  IN  search[<<0, Len(arr)>>]

\* Index of the first position after target, or the length of arr.
bs(arr, target) ==
  LET search[s \in (0..Len(arr)) \X (0..Len(arr))] ==
        LET l == s[1]
            r == s[2]
            m == (l + r) \div 2
        IN  IF l >= r THEN l
            ELSE IF arr[m + 1] <= target THEN search[<<m + 1, r>>] ELSE search[<<l, m>>]
  IN  search[<<0, Len(arr)>>]

\* Where a chain that takes the next possible position of each word, starting at
\* position start of the first, ends; MaxInt when a word has none left.
ChainEnd(positions, lenQuery, start) ==
  LET last[j \in 1..lenQuery] ==
        IF j = 1 THEN start
        ELSE IF last[j - 1] = MaxInt THEN MaxInt
        ELSE LET position == bs(positions[j], last[j - 1])
             IN  IF position >= Len(positions[j]) THEN MaxInt ELSE positions[j][position + 1]
  IN  last[lenQuery]

\* A word without positions ends the function early with MaxInt, as here: no chain
\* comes to its end.
getMinQueryDistInDoc(positions, lenQuery) ==
  LET ends == {<<s, ChainEnd(positions, lenQuery, s)>> : s \in Range(positions[1])}
  IN  Min({e[2] - e[1] : e \in {x \in ends : x[2] # MaxInt}} \cup {MaxInt})

\* The shortest stretch with the words of the query in their order.
ShortestSpan(positions, lenQuery) ==
  LET chains == {c \in [1..lenQuery -> UNION {Range(positions[j]) : j \in 1..lenQuery}] :
                   /\ \A j \in 1..lenQuery : c[j] \in Range(positions[j])
                   /\ \A j \in 1..(lenQuery - 1) : c[j] < c[j + 1]}
  IN  Min({c[lenQuery] - c[1] : c \in chains} \cup {MaxInt})
-----------------------------------------------------------------------------
At(s, i) == SubSeq(s, i, i)

\* shift: how far the end of the word moves when character r of the URL is not the
\* word's last; later occurrences of r replace earlier ones.
Shift(word, r) ==
  LET occurs == {i \in 1..Len(word) : At(word, i) = r}
  IN  IF occurs = {} THEN Len(word) ELSE Max({1, Len(word) - Max(occurs)})

\* How many characters agree, from the ends of the word and of url[1..end] backwards.
Agreeing(url, word, end) ==
  Max({k \in 0..Len(word) :
         \A j \in 1..k : At(word, Len(word) - j + 1) = At(url, end - j + 1)})

\* Variant: the pointer into the word stays where the comparison has stopped, so that
\* what agreed once is not compared again.
OccursFromPartly(url, word) ==
  LET from[end \in Nat, left \in Nat] ==
        LET k == Agreeing(url, SubSeq(word, 1, left), end)
        IN  IF end > Len(url) THEN FALSE
            ELSE IF k = 0 THEN from[end + Shift(word, At(url, end)), left]
            ELSE k = left \/ from[end + Len(word), left - k]
  IN  from[Len(word), Len(word)]

\* The search for one word: end is where the word's last character is tried.  After a
\* partial match the word moves on by its whole length.
OccursFrom(url, word) ==
  LET from[end \in Nat] ==
        LET k == Agreeing(url, word, end)
        IN  IF end > Len(url) THEN FALSE
            ELSE IF k = 0 THEN from[end + Shift(word, At(url, end))]
            ELSE k = Len(word) \/ from[end + Len(word)]
  IN  from[Len(word)]

\* Characters of the URL that words of the query take up; wordInUrl.
boyerMoorAlgorithm(url, words) ==
  MapThenSumSet(LAMBDA i : IF OccursFrom(url, words[i]) THEN Len(words[i]) ELSE 0, DOMAIN words)

\* word is a part of url.
IsPart(url, word) ==
  \E i \in 0..Len(url) : i + Len(word) <= Len(url) /\ SubSeq(url, i + 1, i + Len(word)) = word

\* A word has a character at least, and whether it is the part of url after n depends on
\* the characters alone.
Spelled(url, word) ==
  /\ Len(url) \in Nat /\ Len(word) \in Nat \ {0}
  /\ \A n \in 0..(Len(url) - Len(word)) :
       (\A j \in 1..Len(word) : At(word, j) = At(url, n + j)) =>
         SubSeq(url, n + 1, n + Len(word)) = word
=============================================================================
