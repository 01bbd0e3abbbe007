----------------------------- MODULE TextIndex -----------------------------
(***************************************************************************)
(* What the words of a query find (HandleTextQuery of the indexer), and    *)
(* how HandleDocumentWords has put them there.  A word that finds nothing  *)
(* is replaced by a similar one, if the n-grams of the two meet.           *)
(*                                                                         *)
(* idx.mu lets a query and a document exclude each other.  That storing a  *)
(* document takes several transactions is the subject of IndexStore; here  *)
(* it takes one step, and the data are those of strings.                   *)
(*                                                                         *)
(* Definitions marked Variant are faulty forms of a definition below them, *)
(* which the properties tell apart; the specification does not use them.   *)
(***************************************************************************)
EXTENDS Stemmer, SpellChecker

CONSTANTS
  Docs,      \* document ids
  Passages,  \* Passages[d]: the texts of document d
  Queries,   \* texts a user may search for
  NGramCount,
  MaxToken   \* 64: longer tokens are not indexed

ASSUME TextIndexAssumption == {NGramCount, MaxToken} \subseteq Nat \ {0}

VARIABLES
  indexed,   \* documents handled
  postings,  \* on disk: <<word, document>> for every key of the inverted index
  buffered,  \* <<n-gram, word>> in wordBuffer, in the order they came
  ngrams,    \* on disk: the same
  pc,        \* "idle", or where HandleTextQuery is
  text,      \* its argument; "" when idle
  i,         \* index of the loop
  wordp,
  stemmed,   \* values of the tokens of the query that the loop has not come to
  answer     \* <<stemmedTokens[k], reverthIndex[k]>> for each k, as records

store == <<indexed, postings, buffered, ngrams>>
query == <<pc, text, i, wordp, stemmed, answer>>
vars  == <<store, query>>

Init ==
  /\ indexed = {} /\ postings = {} /\ buffered = <<>> /\ ngrams = <<>>
  /\ pc = "idle" /\ text = "" /\ i = 0 /\ wordp = 0 /\ stemmed = <<>> /\ answer = <<>>

extractNGrams(word) == [k \in 1..(Len(word) + 1 - NGramCount) |-> SubSeq(word, k, k + NGramCount - 1)]

AllTokens(d) == FlattenSeq([p \in DOMAIN Passages[d] |-> KeptTokens(Passages[d][p])])

IndexedNGrams(d) ==
  LET allTokens == FlattenSeq([p \in DOMAIN Passages[d] |-> WordTokens(Passages[d][p])])
      OfWord(w) == [k \in DOMAIN extractNGrams(w) |-> <<extractNGrams(w)[k], w>>]
  IN  FlattenSeq([k \in DOMAIN allTokens |-> OfWord(allTokens[k])])

\* HandleDocumentWords: numbers and long tokens are left out of the inverted index.
HandleDocumentWords(d) ==
  /\ pc = "idle" /\ d \notin indexed
  /\ indexed' = indexed \cup {d}
  /\ \E values \in Stemmings(AllTokens(d)) :
       postings' = postings \cup
         {<<values[k], d>> : k \in {j \in DOMAIN values : /\ AllTokens(d)[j].Type # "NUMBER"
                                                         /\ Len(values[j]) <= MaxToken}}
  /\ buffered' = buffered \o IndexedNGrams(d)
  /\ UNCHANGED <<ngrams, query>>

\* At the end of the crawl (no n-gram has had its 100 words before).
FlushAll ==
  /\ pc = "idle" /\ buffered # <<>>
  /\ ngrams' = ngrams \o buffered /\ buffered' = <<>>
  /\ UNCHANGED <<indexed, postings, query>>
-----------------------------------------------------------------------------
(* HandleTextQuery *)

Idle == pc' = "idle" /\ text' = "" /\ i' = 0 /\ wordp' = 0 /\ stemmed' = <<>> /\ answer' = <<>>

\* A query without tokens is refused.
HandleTextQuery(q) ==
  /\ pc = "idle"
  /\ text' = q /\ i' = 0 /\ wordp' = 0 /\ answer' = <<>>
  /\ IF KeptTokens(q) = <<>>
       THEN pc' = "empty" /\ stemmed' = <<>>
       ELSE pc' = "loop" /\ stemmed' \in Stemmings(KeptTokens(q))
  /\ UNCHANGED store

\* The keys "ri:<word>_<id>" are found by the prefix "ri:<word>_".  One of a longer word
\* that goes on with "_" has no id where it is looked for, which is an error.
Clash(word) == \E p \in postings : IsPrefix(word \o "_", p[1])

GetDocumentsByWord(word) == {p[2] : p \in {x \in postings : x[1] = word}}

\* The words under each n-gram of word (that the code drops repeated ones does not
\* change which comes first).
GetWordsByNGram(word) ==
  LET Under(g) == SelectSeq(ngrams, LAMBDA entry : entry[1] = g)
      found == FlattenSeq([k \in DOMAIN extractNGrams(word) |-> Under(extractNGrams(word)[k])])
  IN  [k \in DOMAIN found |-> found[k][2]]

\* Variant: the word is looked up with the index of the token (as README.md shows it).
OwnWordByIndex == WordTokens(text)[i + 1]

\* words[wordp]
OwnWord == WordTokens(text)[wordp + 1]

\* Variant: the number of documents is not looked at.
CorrectsAlways == KeptTokens(text)[i + 1].Type = "WORD" /\ Len(WordTokens(text)) > i

\* len(words) > i compares the number of words with an index of tokens: behind as many
\* numbers or addresses, a word is not corrected.
Corrects ==
  /\ GetDocumentsByWord(stemmed[i + 1]) = {}
  /\ KeptTokens(text)[i + 1].Type = "WORD" /\ Len(WordTokens(text)) > i

Found(word) == [word |-> word, documents |-> GetDocumentsByWord(word)]

\* One round of the loop.  Each read of the database may fail, for the word, its n-grams
\* or its replacement: the whole query does.
Loop ==
  /\ pc = "loop" /\ i < Len(stemmed)
  /\ \/ pc' = "unread" /\ UNCHANGED <<i, wordp, answer>>
     \/ /\ Clash(stemmed[i + 1])
        /\ pc' = "failed" /\ UNCHANGED <<i, wordp, answer>>
     \/ /\ ~Clash(stemmed[i + 1]) /\ ~Corrects
        /\ answer' = Append(answer, Found(stemmed[i + 1]))
        /\ i' = i + 1
        /\ wordp' = wordp + IF KeptTokens(text)[i + 1].Type = "WORD" THEN 1 ELSE 0
        /\ UNCHANGED pc
     \/ /\ ~Clash(stemmed[i + 1]) /\ Corrects
        /\ LET replacement == BestReplacement(OwnWord, GetWordsByNGram(OwnWord))
           IN  IF KeptTokens(replacement) = <<>>
                 THEN pc' = "panicked" /\ UNCHANGED <<i, wordp, answer>>
                 ELSE \E stem1 \in Stemmings(KeptTokens(replacement)) :
                        \/ /\ Clash(stem1[1])
                           /\ pc' = "failed" /\ UNCHANGED <<i, wordp, answer>>
                        \/ /\ ~Clash(stem1[1])
                           /\ answer' = Append(answer, Found(stem1[1]))
                           /\ i' = i + 1 /\ wordp' = wordp + 1 /\ UNCHANGED pc
  /\ UNCHANGED <<store, text, stemmed>>

LoopEnds ==
  /\ pc = "loop" /\ i = Len(stemmed)
  /\ pc' = "answered"
  /\ UNCHANGED <<store, text, i, wordp, stemmed, answer>>

\* The caller has the answer or the error.
Return ==
  /\ pc \in {"empty", "unread", "failed", "answered"} /\ Idle
  /\ UNCHANGED store

Next ==
  \/ \E d \in Docs : HandleDocumentWords(d)
  \/ FlushAll
  \/ \E q \in Queries : HandleTextQuery(q)
  \/ Loop \/ LoopEnds
  \/ Return

Spec == Init /\ [][Next]_vars
-----------------------------------------------------------------------------
(* Properties *)

\* The tokens of every text that is indexed or searched for are the text, cut where
\* the kind of its characters changes, with the addresses in one piece.
TokensExact ==
  /\ \A d \in indexed : \A p \in DOMAIN Passages[d] :
       Tokenized(Passages[d][p], entityTokenize(Passages[d][p]))
  /\ text # "" => Tokenized(text, entityTokenize(text))

\* The n-grams of two words meet.
Similar(v, w) == ToSet(extractNGrams(v)) \cap ToSet(extractNGrams(w)) # {}

IndexedWords == UNION {UNION {ToSet(WordTokens(Passages[d][p])) : p \in DOMAIN Passages[d]} : d \in indexed}

\* The word of the query that token k is.
WordAt(k) ==
  WordTokens(text)[Cardinality({j \in 1..k : KeptTokens(text)[j].Type = "WORD"})]

\* A place of the answer that is not its own token's holds the stem of a word from a
\* document, within MaxTypo edits of the word of the query at this place, which had
\* found nothing; whatever numbers, addresses and stop words come between.
CorrectionSound ==
  \A k \in DOMAIN answer : answer[k].word # stemmed[k] =>
    /\ KeptTokens(text)[k].Type = "WORD"
    /\ GetDocumentsByWord(stemmed[k]) = {}
    /\ \/ answer[k].word \in stem(WordAt(k))
       \/ \E w \in IndexedWords : /\ answer[k].word \in stem(w) /\ Similar(w, WordAt(k))
                                  /\ WithinEdits(WordAt(k), w, MaxTypo)

\* Token for token the answer says which documents have what it stands for, and a word
\* that has one stem only finds every document it occurs in.
KnownWordsFound ==
  \A k \in DOMAIN answer :
    /\ answer[k].documents = GetDocumentsByWord(answer[k].word)
    /\ LET t == KeptTokens(text)[k]
       IN  t.Type = "WORD" /\ Cardinality(stem(t.Value)) = 1 /\ Len(stemmed[k]) <= MaxToken =>
             {d \in indexed : \E p \in DOMAIN Passages[d] : t.Value \in ToSet(WordTokens(Passages[d][p]))}
               \subseteq answer[k].documents

\* A query is answered for each of its tokens and never panics over a replacement; without
\* errors of the database it fails only if it has no tokens or a longer token with "_" in
\* it hides one of its words or of their replacements.
QueryAnswered ==
  /\ pc # "panicked"
  /\ pc = "answered" => Len(answer) = Len(KeptTokens(text))
  /\ pc = "failed" => \E p \in postings : Contains(Characters(p[1]), "_")
=============================================================================
