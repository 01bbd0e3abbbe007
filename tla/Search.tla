------------------------------- MODULE Search -------------------------------
(***************************************************************************)
(* One call of Searcher.Search.  A goroutine per word of the query goes    *)
(* through the documents of the word, in any order, and adds to their      *)
(* features and to the list of results; the goroutine of the call waits    *)
(* for the vector of the query, at most 5 s, then for the others, orders   *)
(* what they have found and lets the ranking server pick the best document *)
(* of each group of candidates.                                            *)
(*                                                                         *)
(* Vectors come from outside, so that cosine similarity and distance are   *)
(* constants, as are what a posting adds to bm25 and tf_idf.  s.mu is only *)
(* ever read-locked and left out.                                          *)
(*                                                                         *)
(* Definitions marked Variant are faulty forms of a definition below them, *)
(* which the properties tell apart; the specification does not use them.   *)
(***************************************************************************)
EXTENDS Features, SequencesExt

CONSTANTS
  Docs,       \* document ids
  URL,        \* URL[d]
  Near,       \* Near[d]: the place of d by WordsCos and Dpq, to two decimals; 0 is best
  WordCount,  \* WordCount[d]
  Queries,    \* <<words, index, averaged>>: outcomes of HandleTextQuery and GetAVGLen
  MaxLen,     \* maxLen
  Width,      \* width
  Faults,     \* whether GetDocumentByID and the ranking server may fail
  None

\* A word has occurred Count times in a document.  Its positions ascend; at most 500 of
\* them are stored.
IsPosting(p) ==
  LET s == p.Positions
  IN  /\ Len(s) \in Nat \ {0} /\ DOMAIN s = 1..Len(s)
      /\ p.Count \in Nat /\ p.Count >= Len(s)
      /\ \A k \in DOMAIN s : s[k].I \in Nat /\ s[k].I < MaxInt
      /\ \A k, l \in DOMAIN s : k < l => s[k].I < s[l].I

\* index[i][d] is the posting of document d under word i.  averaged: whether GetAVGLen
\* knows a document, see Less.
ASSUME SearchAssumption ==
  /\ {MaxLen, Width} \subseteq Nat \ {0} /\ MaxInt \in Nat
  /\ Faults \in BOOLEAN /\ None \notin Docs
  /\ \A q \in Queries :
       /\ Len(q[1]) \in Nat /\ DOMAIN q[1] = 1..Len(q[1]) /\ DOMAIN q[2] = DOMAIN q[1]
       /\ q[3] \in BOOLEAN
       /\ \A i \in DOMAIN q[2] : \A d \in DOMAIN q[2][i] :
            d \in Docs /\ IsPosting(q[2][i][d])
       /\ \A i \in DOMAIN q[1], d \in Docs : Spelled(URL[d], q[1][i])

VARIABLES
  query,     \* an element of Queries
  todo,      \* todo[i]: documents the goroutine of word i has not come to
  at,        \* at[i]: the document it works on, or None
  wpc,       \* wpc[i]: where it is
  rank,      \* rank[d]: the features of d
  included,  \* alreadyIncluded
  result,    \* the documents found
  pc,        \* where Search is
  fl,        \* the list that is returned; <<>> for nil
  group,     \* i of the ranking loop
  panicked,  \* a goroutine has panicked: the process is gone
  failed,    \* history: <<i, d>> whose document could not be read
  sorted     \* history: fl before the ranking server was asked

goroutines == <<todo, at, wpc, rank, included, result, failed>>
vars == <<query, goroutines, pc, fl, group, panicked, sorted>>

words    == query[1]
index    == query[2]
averaged == query[3]

Words == DOMAIN words

PosOf(posting) == [k \in DOMAIN posting.Positions |-> posting.Positions[k].I]

NoFeatures == [SumTokenInPackage |-> 0, tf_idf |-> 0, bm25 |-> 0, TermProximity |-> 0,
               QueryCoverage |-> 0, docLen |-> 0, lenWordInURL |-> 0, HasWordInHeader |-> FALSE]

Init ==
  /\ query \in Queries
  /\ todo = [i \in Words |-> DOMAIN index[i]] /\ at = [i \in Words |-> None]
  /\ wpc = [i \in Words |-> "ended"]
  /\ rank = [d \in Docs |-> NoFeatures] /\ included = {} /\ result = <<>>
  /\ pc = "query" /\ fl = <<>> /\ group = 0 /\ panicked = FALSE
  /\ failed = {} /\ sorted = <<>>
-----------------------------------------------------------------------------
(* The goroutine of word i *)

Main == <<pc, fl, group, sorted>>

\* Variant: wg.Done is not deferred, and a document that cannot be read ends the
\* goroutine.
SkipEnds(i) == wpc' = [wpc EXCEPT ![i] = "gone"]

\* A document that cannot be read is skipped.
Skip(i) == UNCHANGED wpc

\* for docID, item := range index[i], then GetDocumentByID under rankMu.RLock.
Fetch(i) ==
  /\ wpc[i] = "range"
  /\ \E d \in todo[i] :
       /\ todo' = [todo EXCEPT ![i] = @ \ {d}]
       /\ \/ /\ at' = [at EXCEPT ![i] = d] /\ wpc' = [wpc EXCEPT ![i] = "score"]
             /\ UNCHANGED failed
          \/ /\ Faults
             /\ failed' = failed \cup {<<i, d>>} /\ Skip(i)
             /\ UNCHANGED at
  /\ UNCHANGED <<query, Main, rank, included, result, panicked>>

\* Variant: the features of a document start from zero for every word.
AddedAnew(r, i, d) ==
  [NoFeatures EXCEPT !.TermProximity = r.TermProximity,
     !.SumTokenInPackage = index[i][d].Count, !.bm25 = index[i][d].Count,
     !.tf_idf = WordCount[d]]

\* What every word adds to the features of a document (idf is left out).
Added(r, i, d) ==
  [r EXCEPT !.SumTokenInPackage = @ + index[i][d].Count,
     !.bm25 = @ + index[i][d].Count, !.tf_idf = @ + WordCount[d]]

Having(d) == {j \in Words : d \in DOMAIN index[j]}

\* Features computed by the word that comes to the document first.  The list of
\* positions has the positions of this word for each word of the query.
OnceForAll(r, i, d) ==
  LET own == PosOf(index[i][d])
  IN  [r EXCEPT
         !.TermProximity = getMinQueryDistInDoc([j \in Words |-> own], Len(words)),
         !.QueryCoverage = Cardinality(Having(d)),
         !.docLen = MapThenSumSet(LAMBDA j : Len(index[j][d].Positions), Having(d)),
         !.lenWordInURL = boyerMoorAlgorithm(URL[d], words),
         !.HasWordInHeader = \E k \in DOMAIN own : index[i][d].Positions[k].Type = "h"]

\* The loop over Count runs past the positions that were kept.
OutOfRange(posting) ==
  /\ posting.Count > Len(posting.Positions)
  /\ \A k \in DOMAIN posting.Positions : posting.Positions[k].Type # "h"

\* The section under rankMu.Lock.
Score(i) ==
  /\ wpc[i] = "score"
  /\ LET d == at[i]
         r == Added(rank[d], i, d)
     IN  IF r.TermProximity # 0
           THEN rank' = [rank EXCEPT ![d] = r] /\ UNCHANGED panicked
           ELSE /\ rank' = [rank EXCEPT ![d] = OnceForAll(r, i, d)]
                /\ panicked' = OutOfRange(index[i][d])
  /\ wpc' = [wpc EXCEPT ![i] = "collect"]
  /\ UNCHANGED <<query, Main, todo, at, included, result, failed>>

\* Variant: a document is looked for and entered under different locks.
CollectUnchecked(i) ==
  /\ wpc[i] = "collect"
  /\ result' = Append(result, at[i]) /\ included' = included \cup {at[i]}
  /\ at' = [at EXCEPT ![i] = None] /\ wpc' = [wpc EXCEPT ![i] = "range"]
  /\ UNCHANGED <<query, Main, todo, rank, panicked, failed>>

\* The section under resultMu.
Collect(i) ==
  /\ wpc[i] = "collect"
  /\ IF at[i] \in included
       THEN UNCHANGED <<result, included>>
       ELSE result' = Append(result, at[i]) /\ included' = included \cup {at[i]}
  /\ at' = [at EXCEPT ![i] = None] /\ wpc' = [wpc EXCEPT ![i] = "range"]
  /\ UNCHANGED <<query, Main, todo, rank, panicked, failed>>

\* defer wg.Done()
WordDone(i) ==
  /\ wpc[i] = "range" /\ todo[i] = {}
  /\ wpc' = [wpc EXCEPT ![i] = "ended"]
  /\ UNCHANGED <<query, Main, todo, at, rank, included, result, panicked, failed>>
-----------------------------------------------------------------------------
(* Search *)

Nil == pc' = "returned" /\ fl' = <<>>

\* HandleTextQuery, GetAVGLen and GetDocumentsCount, any of which may fail; then the
\* goroutines are started.
Handle ==
  /\ pc = "query"
  /\ \/ pc' = "vector" /\ wpc' = [i \in Words |-> "range"] /\ UNCHANGED fl
     \/ (Faults /\ Nil /\ UNCHANGED wpc)
  /\ UNCHANGED <<query, todo, at, rank, included, result, failed, group, panicked, sorted>>

\* The vector of the query arrives ...
Vector ==
  /\ pc = "vector" /\ pc' = "wait"
  /\ UNCHANGED <<query, goroutines, fl, group, panicked, sorted>>

\* ... or the channel is closed, or the 5 s are over: the goroutines are left alone.
NoVector ==
  /\ pc = "vector" /\ Nil
  /\ UNCHANGED <<query, goroutines, group, panicked, sorted>>

\* Variant: the goroutine of the call does not wait for the others.
AllEndedNot == TRUE

\* done, closed after wg.Wait().
AllEnded == \A i \in Words : wpc[i] = "ended"

\* The comparison of sort.Slice.  GetAVGLen divides by the number of documents whose
\* key begins with the format string of the key itself: when there is none, bm25 is
\* not a number, is unequal to every other, and nothing after it is compared.
Less(d, e) ==
  \/ Near[d] < Near[e]
  \/ /\ Near[d] = Near[e] /\ averaged
     /\ \/ rank[d].bm25 > rank[e].bm25
        \/ /\ rank[d].bm25 = rank[e].bm25
           /\ \/ rank[d].TermProximity > rank[e].TermProximity
              \/ /\ rank[d].TermProximity = rank[e].TermProximity
                 /\ rank[d].tf_idf > rank[e].tf_idf

\* The orders sort.Slice, which is not stable, may leave.
Sortings(s) ==
  {t \in {[k \in DOMAIN s |-> s[p[k]]] : p \in Bijection(DOMAIN s, DOMAIN s)} :
     \A k, l \in DOMAIN s : k < l => ~Less(t[l], t[k])}

\* filteredResult[:min(length, maxLen)]
Ordered == {SubSeq(t, 1, Min({Len(result), MaxLen})) : t \in Sortings(result)}

\* <-done, the vector features, the sort and the cut.
Sort ==
  /\ pc = "wait" /\ AllEnded
  /\ \/ (result = <<>> /\ Nil /\ UNCHANGED sorted)
     \/ /\ result # <<>>
        /\ fl' \in Ordered /\ sorted' = fl' /\ pc' = "rank"
  /\ UNCHANGED <<query, goroutines, group, panicked>>

\* How many candidates group i has: every Width-th element of the list.
ListLen(i) == Cardinality({j \in 0..Len(fl) : j * Width + i < Len(fl)})

\* Variant: the index in the group is used as one in the list of groups.
BestElIdxOfFirst(bestPos, i) == bestPos * Width

BestElIdx(bestPos, i) == bestPos * Width + i

Swapped(s, i, j) == [s EXCEPT ![i] = s[j], ![j] = s[i]]

\* One round of the ranking loop: the first candidate the server calls relevant
\* changes places with the first of the group.
Rank ==
  /\ pc = "rank" /\ group < Min({Width, Len(fl)})
  /\ \/ (ListLen(group) <= 1 /\ UNCHANGED fl)
     \/ /\ ListLen(group) > 1
        /\ \E bestPos \in 0..(ListLen(group) - 1) :
             fl' = Swapped(fl, group + 1, BestElIdx(bestPos, group) + 1)
  /\ group' = group + 1
  /\ UNCHANGED <<query, goroutines, pc, panicked, sorted>>

\* The server cannot be reached or finds nothing relevant, or its answer cannot be
\* read (CallRankModel cancels the request before the body has been read).
RankFails ==
  /\ pc = "rank" /\ group < Min({Width, Len(fl)}) /\ ListLen(group) > 1 /\ Faults
  /\ pc' = "returned"
  /\ UNCHANGED <<query, goroutines, fl, group, panicked, sorted>>

Ranked ==
  /\ pc = "rank" /\ group = Min({Width, Len(fl)})
  /\ pc' = "returned"
  /\ UNCHANGED <<query, goroutines, fl, group, panicked, sorted>>

WordStep(i) == Fetch(i) \/ Score(i) \/ Collect(i) \/ WordDone(i)

SearchStep == Handle \/ Vector \/ NoVector \/ Sort \/ Rank \/ RankFails \/ Ranked

Over == (panicked \/ (pc = "returned" /\ AllEnded)) /\ UNCHANGED vars

Next ==
  \/ ~panicked /\ \E i \in Words : WordStep(i)
  \/ ~panicked /\ SearchStep
  \/ Over

Spec == Init /\ [][Next]_vars

\* Goroutines run, the timer of 5 s runs out, and a request to the ranking server
\* ends within 10 s.
FairSpec ==
  /\ Spec
  /\ \A i \in UNION {DOMAIN q[1] : q \in Queries} :
       WF_vars(i \in Words /\ ~panicked /\ WordStep(i))
  /\ WF_vars(~panicked /\ SearchStep)
-----------------------------------------------------------------------------
(* Properties *)

Read(d) == {i \in Having(d) : <<i, d>> \notin failed}

\* When the results are put in order every goroutine has ended, and whatever the
\* order of their steps, a document has been added up over all its words and the
\* list holds, once, each document that could be read.
ScoresComplete ==
  pc = "rank" =>
    /\ AllEnded
    /\ \A d \in Docs : rank[d].SumTokenInPackage = MapThenSumSet(LAMBDA i : index[i][d].Count, Read(d))
    /\ ToSet(result) = {d \in Docs : Read(d) # {}}
    /\ Len(result) = Cardinality(ToSet(result))

\* The ranking server moves candidates within their groups only, and of each group
\* only the first and the one that takes its place: what was found is neither lost nor
\* doubled, also when the server fails in between.
PromotedWithinGroup ==
  pc \in {"rank", "returned"} /\ fl # <<>> =>
    \A g \in 1..Min({Width, Len(fl)}) :
      LET members == {k \in 1..Len(fl) : k % Width = g % Width}
      IN  \E b \in members : \A k \in members : fl[k] = Swapped(sorted, g, b)[k]

\* The two algorithms return what they are for.  The greedy binary search of
\* getMinQueryDistInDoc finds the shortest stretch for any choice of lists of positions of
\* a document, one for each word of the query.  (Which lists Search passes to it is another
\* matter: those of one word, OnceForAll.)  What is counted as a word in a URL occurs there.
\* And a goroutine panics only over a word that occurs more often than positions are kept.
FeaturesExact ==
  /\ \A d \in Docs : Having(d) # {} => \A of \in [Words -> Having(d)] :
       LET positions == [j \in Words |-> PosOf(index[of[j]][d])]
       IN  getMinQueryDistInDoc(positions, Len(words)) = ShortestSpan(positions, Len(words))
  /\ \A d \in Docs : rank[d].QueryCoverage # 0 =>
       rank[d].lenWordInURL <=
         MapThenSumSet(LAMBDA i : IF IsPart(URL[d], words[i]) THEN Len(words[i]) ELSE 0, Words)
  /\ panicked => \E i \in Words : \E d \in DOMAIN index[i] : OutOfRange(index[i][d])

\* README.md has the results sorted mainly by tf-idf and bm25: of two documents that the
\* features compared before do not tell apart, the first is not worse in both.  (bm25 is
\* what the postings add to it, also where it is not a number.)
TextFeaturesDecide ==
  pc = "rank" =>
    \A k, l \in DOMAIN sorted :
      LET d == sorted[k]
          e == sorted[l]
      IN  k < l /\ Near[d] = Near[e] => ~(rank[d].bm25 < rank[e].bm25 /\ rank[d].tf_idf < rank[e].tf_idf)

\* A search comes back, and none of its goroutines stays behind, whatever the vector
\* and ranking servers do; unless a goroutine panics.
SearchReturns == pc = "query" ~> panicked \/ (pc = "returned" /\ AllEnded)
=============================================================================
