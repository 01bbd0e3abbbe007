----------------------------- MODULE IndexStore -----------------------------
(***************************************************************************)
(* How a crawl stores its documents: HandleDocumentWords of the indexer    *)
(* with the parts of the repository it writes through, and the deferred    *)
(* FlushAll and SaveVisitedUrls of Index.  A document goes to disk in      *)
(* three kinds of transactions, any of which may fail or be the last one   *)
(* before the process dies:                                                *)
(*                                                                         *)
(*   the document, then chunks of words that share an n-gram (buffered in  *)
(*   memory until ChunkSize words have gathered), then the inverted index  *)
(*   in batches.                                                           *)
(*                                                                         *)
(* HandleDocumentWords holds idx.mu from start to end, so that one page is *)
(* stored at a time; the order of the pages is that of the crawl and left  *)
(* open.                                                                   *)
(*                                                                         *)
(* Definitions marked Variant are faulty forms of a definition below them, *)
(* which the properties tell apart; the specification does not use them.   *)
(***************************************************************************)
EXTENDS Naturals, Sequences, FiniteSets

CONSTANTS
  Pages, Words, Grams, Stems,
  Tokens,     \* Tokens[p]: the words of page p
  GramsOf,    \* GramsOf[w]: extractNGrams of word w
  Stem,       \* Stem[w]: its key in the inverted index; None for a number
  ChunkSize,  \* chunkSize
  BatchSize,  \* iterSize
  Faults,     \* whether a transaction may fail
  Crashes,    \* whether the process may die at any point
  Sessions,   \* how many times the program is started
  None

ASSUME IndexStoreAssumption ==
  /\ Tokens \in [Pages -> Seq(Words)]
  /\ GramsOf \in [Words -> Seq(Grams)]
  /\ Stem \in [Words -> Stems \cup {None}]
  /\ IsFiniteSet(Stems) /\ None \notin Stems /\ None \notin Pages
  /\ {ChunkSize, BatchSize, Sessions} \subseteq Nat \ {0}
  /\ {Faults, Crashes} \subseteq BOOLEAN

VARIABLES
  docs,        \* on disk: pages with a document
  postings,    \* on disk: <<stem, page>> for every entry of the inverted index
  chunks,      \* on disk: the words stored under <<n-gram, number>>
  visited,     \* on disk: pages marked as visited
  wordBuffer,  \* IndexRepository.wordBuffer
  counts,      \* IndexRepository.counts
  handled,     \* pages marked as visited in memory
  page,        \* the page HandleDocumentWords works on, or None
  pc,          \* where it is
  word, gram,  \* the position of IndexNGrams: a word of the page, one of its n-grams
  stems,       \* stems that IndexDocumentWords has not come to
  mode,        \* where Index is
  indexed,     \* history: pages this session has stored without an error
  dropped,     \* history: <<n-gram, word>> that FlushAll of this session could not write
  session      \* history: number of the running session

disk   == <<docs, postings, chunks, visited>>
memory == <<wordBuffer, counts, handled>>
call   == <<page, pc, word, gram, stems>>
index  == <<mode, session>>
history == <<indexed, dropped>>
vars   == <<disk, memory, call, index, history>>

WordsOf(p) == {Tokens[p][i] : i \in 1..Len(Tokens[p])}

StemsOf(p) == {Stem[w] : w \in WordsOf(p)} \ {None}

Buffered(g) == {wordBuffer[g][i] : i \in 1..Len(wordBuffer[g])}

HasGram(w, g) == \E i \in 1..Len(GramsOf[w]) : GramsOf[w][i] = g

TypeOK ==
  /\ docs \subseteq Pages /\ visited \subseteq Pages /\ handled \subseteq Pages
  /\ postings \subseteq Stems \X Pages
  /\ DOMAIN chunks \subseteq Grams \X (Nat \ {0})
  /\ \A c \in DOMAIN chunks : chunks[c] \in Seq(Words) \ {<<>>} /\ Len(chunks[c]) <= ChunkSize
  /\ wordBuffer \in [Grams -> Seq(Words)]
  /\ \A g \in Grams : Len(wordBuffer[g]) < ChunkSize
  /\ counts \in [Grams -> Nat]
  /\ page \in Pages \cup {None}
  /\ pc \in {"idle", "document", "ngrams", "words"}
  /\ {word, gram} \subseteq Nat \ {0}
  /\ stems \subseteq Stems
  /\ mode \in {"crawl", "flush", "visited", "over"}
  /\ indexed \subseteq Pages /\ dropped \subseteq Grams \X Words
  /\ session \in 1..Sessions

Init ==
  /\ docs = {} /\ postings = {} /\ chunks = <<>> /\ visited = {}
  /\ wordBuffer = [g \in Grams |-> <<>>] /\ counts = [g \in Grams |-> 0] /\ handled = {}
  /\ page = None /\ pc = "idle" /\ word = 1 /\ gram = 1 /\ stems = {}
  /\ mode = "crawl" /\ indexed = {} /\ dropped = {} /\ session = 1
-----------------------------------------------------------------------------
(* HandleDocumentWords *)

\* A page that was not visited has been parsed; its words are tokenised and stemmed.
Begin(p) ==
  /\ mode = "crawl" /\ pc = "idle" /\ p \notin handled
  /\ handled' = handled \cup {p}
  /\ page' = p /\ pc' = "document"
  /\ UNCHANGED <<disk, wordBuffer, counts, word, gram, stems, index, history>>

\* The call returns and unlocks idx.mu.
Return == page' = None /\ pc' = "idle" /\ word' = 1 /\ gram' = 1 /\ stems' = {}

Fails == Faults /\ Return

\* Variant: an error of SaveDocument is logged and not returned.
SaveDocumentUnchecked ==
  /\ pc = "document"
  /\ docs' = docs \cup {page} \/ (Faults /\ UNCHANGED docs)
  /\ pc' = "ngrams"
  /\ UNCHANGED <<page, word, gram, stems, postings, chunks, visited, memory, index, history>>

SaveDocument ==
  /\ pc = "document"
  /\ \/ /\ docs' = docs \cup {page}
        /\ pc' = "ngrams"
        /\ UNCHANGED <<page, word, gram, stems>>
     \/ Fails /\ UNCHANGED docs
  /\ UNCHANGED <<postings, chunks, visited, memory, index, history>>

Stored(c, words) == [x \in DOMAIN chunks \cup {c} |-> IF x = c THEN words ELSE chunks[x]]

\* Variant: the number of the chunk is not advanced.
flushChunkSameNumber(g, words) ==
  /\ UNCHANGED counts
  /\ chunks' = Stored(<<g, counts[g] + 1>>, words)

\* flushChunk, when the transaction succeeds: the number is taken from memory ...
flushChunk(g, words) ==
  /\ counts' = [counts EXCEPT ![g] = @ + 1]
  /\ chunks' = Stored(<<g, counts[g] + 1>>, words)

\* ... and when it fails the number is spent all the same.
flushChunkFails(g) ==
  /\ Faults
  /\ counts' = [counts EXCEPT ![g] = @ + 1]
  /\ UNCHANGED chunks

\* Variant: a chunk is written when it holds more than ChunkSize words.
FullLate(buf) == Len(buf) > ChunkSize

Full(buf) == Len(buf) >= ChunkSize

\* One round of IndexNGrams.  When a chunk cannot be written the call ends, and the
\* buffer stays as it was without the new word.
BufferWord ==
  /\ pc = "ngrams" /\ word <= Len(Tokens[page]) /\ gram <= Len(GramsOf[Tokens[page][word]])
  /\ LET g == GramsOf[Tokens[page][word]][gram]
         buf == Append(wordBuffer[g], Tokens[page][word])
         goOn == gram' = gram + 1 /\ UNCHANGED <<page, pc, word, stems>>
     IN  \/ /\ ~Full(buf)
            /\ wordBuffer' = [wordBuffer EXCEPT ![g] = buf]
            /\ goOn
            /\ UNCHANGED <<counts, chunks>>
         \/ /\ Full(buf)
            /\ flushChunk(g, buf)
            /\ wordBuffer' = [wordBuffer EXCEPT ![g] = <<>>]
            /\ goOn
         \/ /\ Full(buf)
            /\ flushChunkFails(g)
            /\ Return
            /\ UNCHANGED wordBuffer
  /\ UNCHANGED <<docs, postings, visited, handled, index, history>>

\* The outer loop goes on.
NextWord ==
  /\ pc = "ngrams" /\ word <= Len(Tokens[page]) /\ gram > Len(GramsOf[Tokens[page][word]])
  /\ word' = word + 1 /\ gram' = 1
  /\ UNCHANGED <<page, pc, stems, disk, memory, index, history>>

BufferedAll ==
  /\ pc = "ngrams" /\ word > Len(Tokens[page])
  /\ pc' = "words" /\ stems' = StemsOf(page)
  /\ UNCHANGED <<page, word, gram, disk, memory, index, history>>

\* The batches of IndexDocumentWords: a map is gone through in any order.
Batches ==
  {s \in SUBSET stems : Cardinality(s) = IF Cardinality(stems) < BatchSize
                                         THEN Cardinality(stems) ELSE BatchSize}

\* One transaction of IndexDocumentWords; an error leaves the earlier ones in place.
IndexBatch ==
  /\ pc = "words" /\ stems # {}
  /\ \/ \E batch \in Batches :
          /\ postings' = postings \cup (batch \X {page})
          /\ stems' = stems \ batch
          /\ UNCHANGED <<page, pc, word, gram>>
     \/ Fails /\ UNCHANGED postings
  /\ UNCHANGED <<docs, chunks, visited, memory, index, history>>

IndexedAll ==
  /\ pc = "words" /\ stems = {}
  /\ indexed' = indexed \cup {page}
  /\ Return
  /\ UNCHANGED <<disk, memory, index, dropped>>
-----------------------------------------------------------------------------
(* The end of Index, and the process *)

\* Run returns: every page has been reached, or the crawl was interrupted.
CrawlOver ==
  /\ mode = "crawl" /\ pc = "idle"
  /\ mode' = "flush"
  /\ UNCHANGED <<disk, memory, call, session, history>>

\* FlushAll writes what is buffered, one n-gram after the other in any order, and
\* gives up on those that cannot be written.
FlushAll ==
  /\ mode = "flush"
  /\ \/ \E g \in Grams :
          /\ wordBuffer[g] # <<>>
          /\ \/ flushChunk(g, wordBuffer[g]) /\ UNCHANGED dropped
             \/ /\ flushChunkFails(g)
                /\ dropped' = dropped \cup {<<g, w>> : w \in Buffered(g)}
          /\ wordBuffer' = [wordBuffer EXCEPT ![g] = <<>>]
          /\ UNCHANGED mode
     \/ /\ \A g \in Grams : wordBuffer[g] = <<>>
        /\ mode' = "visited"
        /\ UNCHANGED <<wordBuffer, counts, chunks, dropped>>
  /\ UNCHANGED <<docs, postings, visited, handled, call, session, indexed>>

\* A transaction for each page; one that fails leaves its page unmarked and nobody told.
SaveVisitedUrls ==
  /\ mode = "visited"
  /\ \/ \E p \in handled \ visited : visited' = visited \cup {p} /\ UNCHANGED mode
     \/ /\ Faults \/ handled \subseteq visited
        /\ mode' = "over" /\ UNCHANGED visited
  /\ UNCHANGED <<docs, postings, chunks, memory, call, session, history>>

\* The program is started again, after its end or after a crash; NewIndexRepository
\* makes empty maps and Index loads the visited pages.
Restart ==
  /\ session < Sessions /\ (mode = "over" \/ Crashes)
  /\ session' = session + 1 /\ mode' = "crawl"
  /\ wordBuffer' = [g \in Grams |-> <<>>] /\ counts' = [g \in Grams |-> 0]
  /\ handled' = visited /\ indexed' = {} /\ dropped' = {}
  /\ Return
  /\ UNCHANGED disk

Over == mode = "over" /\ UNCHANGED vars

Next ==
  \/ \E p \in Pages : Begin(p)
  \/ SaveDocument
  \/ BufferWord \/ NextWord \/ BufferedAll
  \/ IndexBatch \/ IndexedAll
  \/ CrawlOver \/ FlushAll \/ SaveVisitedUrls
  \/ Restart
  \/ Over

Spec == Init /\ [][Next]_vars
-----------------------------------------------------------------------------
(* Properties *)

\* Search looks up the document of every posting it finds: there is one, wherever
\* an earlier run failed or died, because the document is saved first.  No buffer or
\* chunk grows beyond ChunkSize meanwhile (TypeOK).
PostingsHaveDocument ==
  /\ TypeOK
  /\ \A entry \in postings : entry[2] \in docs /\ entry[1] \in StemsOf(entry[2])

\* Words that GetWordsByNGram returns for n-gram g.
Suggested(g) == UNION {{chunks[c][i] : i \in 1..Len(chunks[c])} : c \in {x \in DOMAIN chunks : x[1] = g}}

\* What the speller suggests are words of stored documents that share the n-gram,
\* also from chunks that a later run has overwritten in part.
SuggestionsSound ==
  \A g \in Grams : \A w \in Suggested(g) :
    /\ HasGram(w, g)
    /\ \E p \in docs : w \in WordsOf(p)

\* A page that this session stored without an error can be found under each of its
\* stems, and each of its words is on disk under each n-gram, or buffered, or FlushAll
\* has tried to write it and failed; although buffers are emptied, numbers are skipped,
\* other pages fail in between and chunks of the session before are overwritten.
IndexedIsSearchable ==
  \A p \in indexed :
    /\ p \in docs
    /\ \A s \in StemsOf(p) : <<s, p>> \in postings
    /\ \A w \in WordsOf(p), g \in Grams :
         HasGram(w, g) => w \in Suggested(g) \cup Buffered(g) \/ <<g, w>> \in dropped
=============================================================================
