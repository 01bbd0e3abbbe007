-------------------------- MODULE IndexStoreProofs --------------------------
(***************************************************************************)
(* The safety properties of IndexStore, for any pages, words and n-grams,  *)
(* any chunk and batch size and any number of sessions.                    *)
(***************************************************************************)
EXTENDS IndexStore, SequenceTheorems, TLAPS

\* The word is in a chunk this session has written: its number is not used again.
Numbered(w, g) ==
  \E c \in DOMAIN chunks : /\ c[1] = g /\ c[2] <= counts[g]
                           /\ \E i \in 1..Len(chunks[c]) : chunks[c][i] = w

\* What has become of a word that was indexed under an n-gram.
Kept(w, g) == Numbered(w, g) \/ w \in Buffered(g) \/ <<g, w>> \in dropped

AllKept(p) == \A w \in WordsOf(p), g \in Grams : HasGram(w, g) => Kept(w, g)

\* The rounds of IndexNGrams before the one it has come to.
Before(i, j) == i < word \/ (i = word /\ j < gram)

\* A word of a stored document that has the n-gram.
Genuine(w, g) == HasGram(w, g) /\ \E p \in docs : w \in WordsOf(p)

\* The call is at work on a page whose document is saved before anything else.
CallInOrder ==
  /\ pc = "idle" <=> page = None
  /\ pc \in {"idle", "document"} => word = 1 /\ gram = 1
  /\ pc \in {"ngrams", "words"} => page \in docs
  /\ stems # {} => pc = "words" /\ stems \subseteq StemsOf(page)

\* What the call has come past is kept.
CallComplete ==
  /\ pc = "ngrams" =>
       \A i \in 1..Len(Tokens[page]) : \A j \in 1..Len(GramsOf[Tokens[page][i]]) :
         Before(i, j) => Kept(Tokens[page][i], GramsOf[Tokens[page][i]][j])
  /\ pc = "words" => AllKept(page) /\ \A s \in StemsOf(page) : s \in stems \/ <<s, page>> \in postings

BufferSound == \A g \in Grams : \A i \in 1..Len(wordBuffer[g]) : Genuine(wordBuffer[g][i], g)

ChunksSound ==
  \A c \in DOMAIN chunks : \A i \in 1..Len(chunks[c]) : Genuine(chunks[c][i], c[1])

IndexedKept ==
  \A p \in indexed : p \in docs /\ AllKept(p) /\ \A s \in StemsOf(p) : <<s, p>> \in postings

IndexInv ==
  /\ PostingsHaveDocument /\ CallInOrder /\ CallComplete
  /\ BufferSound /\ ChunksSound /\ IndexedKept
-----------------------------------------------------------------------------
(* Types, and what a step leaves alone *)

\* The parts of TypeOK that proofs use.
LEMMA Types ==
  ASSUME TypeOK
  PROVE  /\ \A g \in Grams : /\ wordBuffer[g] \in Seq(Words) /\ Len(wordBuffer[g]) \in Nat
                             /\ counts[g] \in Nat
         /\ \A c \in DOMAIN chunks : /\ c[1] \in Grams /\ c[2] \in Nat
                                     /\ chunks[c] \in Seq(Words) /\ Len(chunks[c]) \in Nat
         /\ word \in Nat /\ gram \in Nat
BY DEF TypeOK

\* Tokens and n-grams of the constants.
LEMMA PageTypes ==
  ASSUME NEW p \in Pages
  PROVE  /\ Tokens[p] \in Seq(Words) /\ Len(Tokens[p]) \in Nat
         /\ \A i \in 1..Len(Tokens[p]) :
              /\ Tokens[p][i] \in WordsOf(p) /\ Tokens[p][i] \in Words
              /\ Len(GramsOf[Tokens[p][i]]) \in Nat
              /\ \A j \in 1..Len(GramsOf[Tokens[p][i]]) :
                   /\ GramsOf[Tokens[p][i]][j] \in Grams
                   /\ HasGram(Tokens[p][i], GramsOf[Tokens[p][i]][j])
         /\ StemsOf(p) \subseteq Stems
<1>1. Tokens[p] \in Seq(Words) /\ Len(Tokens[p]) \in Nat
  BY IndexStoreAssumption
<1>2. ASSUME NEW i \in 1..Len(Tokens[p])
      PROVE  /\ Tokens[p][i] \in WordsOf(p) /\ Tokens[p][i] \in Words
             /\ GramsOf[Tokens[p][i]] \in Seq(Grams)
             /\ Stem[Tokens[p][i]] \in Stems \cup {None}
  BY <1>1, IndexStoreAssumption DEF WordsOf
<1>3. ASSUME NEW w \in Words, GramsOf[w] \in Seq(Grams)
      PROVE  /\ Len(GramsOf[w]) \in Nat
             /\ \A j \in 1..Len(GramsOf[w]) : GramsOf[w][j] \in Grams /\ HasGram(w, GramsOf[w][j])
  BY <1>3 DEF HasGram
<1>4. StemsOf(p) \subseteq Stems
  BY <1>2 DEF StemsOf, WordsOf
<1> QED
  BY <1>1, <1>2, <1>3, <1>4

\* Buffers, chunks and what was indexed stay as they are, documents may be added.
LEMMA StoreUntouched ==
  ASSUME IndexInv, UNCHANGED <<chunks, counts, wordBuffer, dropped>>, docs \subseteq docs',
         postings \subseteq postings', indexed' \subseteq indexed
  PROVE  /\ BufferSound' /\ ChunksSound' /\ IndexedKept'
         /\ \A w, g : Kept(w, g)' <=> Kept(w, g)
         /\ \A p : AllKept(p)' <=> AllKept(p)
<1>1. \A w, g : Genuine(w, g) => Genuine(w, g)'
  BY DEF Genuine
<1>2. BufferSound' /\ ChunksSound'
  BY <1>1 DEF IndexInv, BufferSound, ChunksSound
<1>3. \A w, g : Kept(w, g)' <=> Kept(w, g)
  BY DEF Kept, Numbered, Buffered
<1>4. \A p : AllKept(p)' <=> AllKept(p)
  BY <1>3 DEF AllKept
<1>5. IndexedKept'
  BY <1>4 DEF IndexInv, IndexedKept
<1> QED
  BY <1>2, <1>3, <1>4, <1>5
-----------------------------------------------------------------------------
(* Chunks *)

\* A chunk that is written holds the words of the buffer from then on, and no chunk of
\* this session is overwritten.
LEMMA FlushKeeps ==
  ASSUME TypeOK, NEW g \in Grams, NEW buf \in Seq(Words), flushChunk(g, buf),
         wordBuffer' = [wordBuffer EXCEPT ![g] = <<>>], dropped' = dropped,
         \A i \in 1..Len(wordBuffer[g]) : \E j \in 1..Len(buf) : buf[j] = wordBuffer[g][i]
  PROVE  /\ \A w, h : Kept(w, h) /\ h \in Grams => Kept(w, h)'
         /\ \A j \in 1..Len(buf) : Kept(buf[j], g)'
<1> DEFINE n == <<g, counts[g] + 1>>
<1>1. /\ DOMAIN chunks' = DOMAIN chunks \cup {n}
      /\ chunks'[n] = buf
      /\ \A c \in DOMAIN chunks : c # n => chunks'[c] = chunks[c]
  BY DEF flushChunk, Stored
<1>2. /\ counts[g] \in Nat /\ counts'[g] = counts[g] + 1
      /\ \A h \in Grams : counts[h] \in Nat /\ (h # g => counts'[h] = counts[h])
  BY DEF flushChunk, TypeOK
<1>3. n[1] = g /\ n[2] = counts[g] + 1
  OBVIOUS
<1> HIDE DEF n
<1>4. ASSUME NEW j \in 1..Len(buf) PROVE Numbered(buf[j], g)'
  BY <1>1, <1>2, <1>3 DEF Numbered
<1>5. ASSUME NEW w, NEW h \in Grams, Numbered(w, h) PROVE Numbered(w, h)'
  <2>1. PICK c \in DOMAIN chunks : /\ c[1] = h /\ c[2] <= counts[h]
                                   /\ \E i \in 1..Len(chunks[c]) : chunks[c][i] = w
    BY <1>5 DEF Numbered
  <2>2. c # n /\ c[2] \in Nat
    BY <1>2, <1>3, <2>1, Types
  <2>3. c[2] <= counts'[h]
    BY <1>2, <2>1, <2>2
  <2> QED
    BY <1>1, <2>1, <2>2, <2>3 DEF Numbered
<1>6. ASSUME NEW w, NEW h \in Grams, w \in Buffered(h) PROVE Kept(w, h)'
  <2>1. CASE h = g
    BY <1>4, <1>6, <2>1 DEF Buffered, Kept
  <2>2. CASE h # g
    BY <1>6, <2>2 DEF Buffered, Kept, TypeOK
  <2> QED
    BY <2>1, <2>2
<1> QED
  BY <1>4, <1>5, <1>6 DEF Kept

\* What is written was sound in the buffer.
LEMMA FlushSound ==
  ASSUME TypeOK, ChunksSound, BufferSound, NEW g \in Grams, NEW buf \in Seq(Words), flushChunk(g, buf),
         wordBuffer' = [wordBuffer EXCEPT ![g] = <<>>], docs' = docs,
         \A j \in 1..Len(buf) : Genuine(buf[j], g)
  PROVE  ChunksSound' /\ BufferSound'
<1>1. \A w, h : Genuine(w, h)' <=> Genuine(w, h)
  BY DEF Genuine
<1>2. BufferSound'
  BY <1>1 DEF BufferSound, TypeOK
<1>3. ChunksSound'
  BY <1>1 DEF ChunksSound, flushChunk, Stored
<1> QED
  BY <1>2, <1>3

\* Chunks of the length that is allowed keep the types.
LEMMA FlushTypes ==
  ASSUME TypeOK, NEW g \in Grams, NEW buf \in Seq(Words), flushChunk(g, buf),
         wordBuffer' = [wordBuffer EXCEPT ![g] = <<>>], buf # <<>>, Len(buf) <= ChunkSize
  PROVE  /\ DOMAIN chunks' \subseteq Grams \X (Nat \ {0})
         /\ \A c \in DOMAIN chunks' : chunks'[c] \in Seq(Words) \ {<<>>} /\ Len(chunks'[c]) <= ChunkSize
         /\ wordBuffer' \in [Grams -> Seq(Words)]
         /\ \A h \in Grams : Len(wordBuffer'[h]) < ChunkSize
         /\ counts' \in [Grams -> Nat]
<1>1. counts[g] + 1 \in Nat \ {0}
  BY DEF TypeOK
<1>2. /\ DOMAIN chunks' \subseteq Grams \X (Nat \ {0})
      /\ \A c \in DOMAIN chunks' : chunks'[c] \in Seq(Words) \ {<<>>} /\ Len(chunks'[c]) <= ChunkSize
  BY <1>1 DEF flushChunk, Stored, TypeOK
<1>3. counts' \in [Grams -> Nat]
  BY <1>1 DEF flushChunk, TypeOK
<1>4. wordBuffer' \in [Grams -> Seq(Words)] /\ \A h \in Grams : Len(wordBuffer'[h]) < ChunkSize
  BY IndexStoreAssumption DEF TypeOK
<1> QED
  BY <1>2, <1>3, <1>4
-----------------------------------------------------------------------------
(* The steps *)

LEMMA InitInv == Init => IndexInv
<1> SUFFICES ASSUME Init PROVE IndexInv
  OBVIOUS
<1> USE IndexStoreAssumption DEF Init
<1>1. TypeOK
  <2>1. /\ DOMAIN chunks = {} /\ 1 \in 1..Sessions
        /\ wordBuffer \in [Grams -> Seq(Words)] /\ \A g \in Grams : Len(wordBuffer[g]) < ChunkSize
    OBVIOUS
  <2> QED
    BY <2>1 DEF TypeOK
<1>2. PostingsHaveDocument /\ CallInOrder /\ CallComplete
  BY <1>1 DEF PostingsHaveDocument, CallInOrder, CallComplete
<1>3. BufferSound /\ ChunksSound /\ IndexedKept
  BY DEF BufferSound, ChunksSound, IndexedKept
<1> QED
  BY <1>2, <1>3 DEF IndexInv

LEMMA BeginInv ==
  ASSUME IndexInv, NEW p \in Pages, Begin(p)
  PROVE  IndexInv'
<1> USE DEF Begin, disk, index, history
<1>1. TypeOK'
  BY DEF IndexInv, PostingsHaveDocument, TypeOK
<1>2. PostingsHaveDocument'
  BY <1>1 DEF IndexInv, PostingsHaveDocument
<1>3. CallInOrder' /\ CallComplete'
  BY IndexStoreAssumption DEF IndexInv, CallInOrder, CallComplete
<1> QED
  BY <1>2, <1>3, StoreUntouched DEF IndexInv

\* A call that ends, with or without an error, and has indexed nothing more.
LEMMA ReturnInv ==
  ASSUME IndexInv, Return, UNCHANGED <<disk, memory, index, history>>
  PROVE  IndexInv'
<1> USE DEF Return, disk, memory, index, history
<1>1. TypeOK'
  BY DEF IndexInv, PostingsHaveDocument, TypeOK
<1>2. PostingsHaveDocument'
  BY <1>1 DEF IndexInv, PostingsHaveDocument
<1>3. CallInOrder' /\ CallComplete'
  BY DEF CallInOrder, CallComplete
<1> QED
  BY <1>2, <1>3, StoreUntouched DEF IndexInv

LEMMA SaveDocumentInv ==
  ASSUME IndexInv, SaveDocument
  PROVE  IndexInv'
<1>1. CASE Fails /\ UNCHANGED docs
  BY <1>1, ReturnInv DEF SaveDocument, Fails, disk
<1>2. CASE ~(Fails /\ UNCHANGED docs)
  <2>a. /\ pc = "document" /\ pc' = "ngrams" /\ docs' = docs \cup {page}
        /\ UNCHANGED <<page, word, gram, stems, postings, chunks, visited, memory, index, history>>
    BY <1>2 DEF SaveDocument
  <2> USE <2>a DEF memory, index, history
  <2>1. page \in Pages
    BY DEF IndexInv, CallInOrder, PostingsHaveDocument, TypeOK
  <2>2. TypeOK'
    BY <2>1 DEF IndexInv, PostingsHaveDocument, TypeOK
  <2>3. PostingsHaveDocument'
    BY <2>2 DEF IndexInv, PostingsHaveDocument
  <2>4. CallInOrder'
    BY DEF IndexInv, CallInOrder
  <2>5. CallComplete'
    BY PageTypes, <2>1 DEF IndexInv, CallInOrder, CallComplete, Before
  <2> QED
    BY <2>3, <2>4, <2>5, StoreUntouched DEF IndexInv
<1> QED
  BY <1>1, <1>2

\* The word is put into the buffer, or with it into a chunk.
LEMMA BufferWordInv ==
  ASSUME IndexInv, BufferWord
  PROVE  IndexInv'
<1>0. SUFFICES ASSUME NEW w, w = Tokens[page][word],
                       NEW g, g = GramsOf[w][gram],
                       NEW buf, buf = Append(wordBuffer[g], w)
                PROVE  IndexInv'
  OBVIOUS
<1>1. /\ pc = "ngrams" /\ page \in Pages /\ page \in docs
      /\ word \in 1..Len(Tokens[page]) /\ gram \in 1..Len(GramsOf[w])
      /\ UNCHANGED <<docs, postings, visited, handled, index, history>>
  <2>1. /\ pc = "ngrams" /\ word <= Len(Tokens[page]) /\ gram <= Len(GramsOf[w])
        /\ UNCHANGED <<docs, postings, visited, handled, index, history>>
    BY <1>0 DEF BufferWord
  <2>2. page \in docs /\ page \in Pages /\ word \in Nat \ {0} /\ gram \in Nat \ {0}
    BY <2>1 DEF IndexInv, CallInOrder, PostingsHaveDocument, TypeOK
  <2>3. word \in 1..Len(Tokens[page])
    BY <2>1, <2>2, PageTypes
  <2>4. Len(GramsOf[w]) \in Nat
    BY <1>0, <2>2, <2>3, PageTypes
  <2> QED
    BY <2>1, <2>2, <2>3, <2>4
<1>2. w \in Words /\ w \in WordsOf(page) /\ g \in Grams /\ HasGram(w, g)
  BY <1>0, <1>1, PageTypes
<1>3. TypeOK /\ wordBuffer[g] \in Seq(Words) /\ Len(wordBuffer[g]) \in Nat /\ Len(wordBuffer[g]) < ChunkSize
  BY <1>2 DEF IndexInv, PostingsHaveDocument, TypeOK
<1>4. \/ /\ ~Full(buf) /\ wordBuffer' = [wordBuffer EXCEPT ![g] = buf]
         /\ UNCHANGED <<counts, chunks>>
         /\ gram' = gram + 1 /\ UNCHANGED <<page, pc, word, stems>>
      \/ /\ flushChunk(g, buf) /\ wordBuffer' = [wordBuffer EXCEPT ![g] = <<>>]
         /\ gram' = gram + 1 /\ UNCHANGED <<page, pc, word, stems>>
      \/ flushChunkFails(g) /\ Return /\ UNCHANGED wordBuffer
  BY <1>0 DEF BufferWord
<1>p. \A i \in 1..Len(Tokens[page]) : \A j \in 1..Len(GramsOf[Tokens[page][i]]) :
        i < word \/ (i = word /\ j < gram + 1)
        => Before(i, j) \/ (Tokens[page][i] = w /\ GramsOf[Tokens[page][i]][j] = g)
  <2> SUFFICES ASSUME NEW i \in 1..Len(Tokens[page]), NEW j \in 1..Len(GramsOf[Tokens[page][i]]),
                      i = word, ~(j < gram), j < gram + 1
               PROVE  Tokens[page][i] = w /\ GramsOf[Tokens[page][i]][j] = g
    BY DEF Before
  <2>1. j \in Nat /\ gram \in Nat
    BY <1>1, <1>3, PageTypes, Types
  <2>2. j = gram
    BY <2>1
  <2> QED
    BY <1>0, <2>2
<1>t. /\ Tokens[page] \in Seq(Words)
      /\ \A i \in 1..Len(Tokens[page]) : \A j \in 1..Len(GramsOf[Tokens[page][i]]) :
           GramsOf[Tokens[page][i]][j] \in Grams
      /\ \A x \in WordsOf(page), h \in Grams : HasGram(x, h) => h \in Grams
  BY <1>1, PageTypes
<1>5. /\ buf \in Seq(Words) /\ Len(buf) = Len(wordBuffer[g]) + 1 /\ buf # <<>> /\ Len(buf) <= ChunkSize
      /\ buf[Len(buf)] = w /\ \A i \in 1..Len(wordBuffer[g]) : buf[i] = wordBuffer[g][i]
  <2>1. /\ buf \in Seq(Words) /\ Len(buf) = Len(wordBuffer[g]) + 1
        /\ buf[Len(wordBuffer[g]) + 1] = w /\ \A i \in 1..Len(wordBuffer[g]) : buf[i] = wordBuffer[g][i]
    <3>1. Append(wordBuffer[g], w) = buf
      BY <1>0
    <3> QED
      BY <1>2, <1>3, <3>1, AppendProperties
  <2> QED
    BY <1>3, <2>1, IndexStoreAssumption, SMTT(60)
<1>6. \A i \in 1..Len(buf) : Genuine(buf[i], g)
  <2>1. Genuine(w, g)
    BY <1>1, <1>2 DEF Genuine
  <2>2. \A i \in 1..Len(wordBuffer[g]) : Genuine(wordBuffer[g][i], g)
    BY <1>2 DEF IndexInv, BufferSound
  <2> QED
    BY <1>3, <1>5, <2>1, <2>2
<1>7. CASE ~Full(buf) /\ wordBuffer' = [wordBuffer EXCEPT ![g] = buf] /\ UNCHANGED <<counts, chunks>>
             /\ gram' = gram + 1 /\ UNCHANGED <<page, pc, word, stems>>
  <2>1. TypeOK'
    <3>1. Len(buf) < ChunkSize
      BY <1>3, <1>5, <1>7, IndexStoreAssumption DEF Full
    <3>2. wordBuffer' \in [Grams -> Seq(Words)] /\ \A h \in Grams : Len(wordBuffer'[h]) < ChunkSize
      BY <1>2, <1>3, <1>5, <1>7, <3>1 DEF TypeOK
    <3> QED
      BY <1>1, <1>3, <1>7, <3>2 DEF TypeOK, index, history
  <2>2. PostingsHaveDocument'
    BY <1>1, <2>1 DEF IndexInv, PostingsHaveDocument
  <2>3. CallInOrder'
    BY <1>1, <1>7 DEF IndexInv, CallInOrder
  <2>4. BufferSound' /\ ChunksSound'
    <3>1. \A x, h : Genuine(x, h)' <=> Genuine(x, h)
      BY <1>1 DEF Genuine
    <3> QED
      BY <1>2, <1>3, <1>6, <1>7, <3>1 DEF IndexInv, BufferSound, ChunksSound, TypeOK
  <2>5. \A x, h : h \in Grams /\ Kept(x, h) => Kept(x, h)'
    <3>1. \A x, h : Numbered(x, h)' <=> Numbered(x, h)
      BY <1>7 DEF Numbered
    <3>2. ASSUME NEW h \in Grams, NEW x, x \in Buffered(h) PROVE x \in Buffered(h)'
      <4>1. CASE h = g
        <5>1. PICK i \in 1..Len(wordBuffer[g]) : wordBuffer[g][i] = x
          BY <3>2, <4>1 DEF Buffered
        <5>2. i \in 1..Len(buf) /\ buf[i] = x /\ wordBuffer'[g] = buf
          BY <1>2, <1>3, <1>5, <1>7, <5>1 DEF TypeOK
        <5> QED
          BY <4>1, <5>2 DEF Buffered
      <4>2. CASE h # g
        BY <1>3, <1>7, <3>2, <4>2 DEF Buffered, TypeOK
      <4> QED
        BY <4>1, <4>2
    <3> QED
      BY <1>1, <3>1, <3>2 DEF Kept, history
  <2>6. Kept(w, g)'
    <3>1. Len(buf) \in 1..Len(buf) /\ wordBuffer'[g] = buf
      BY <1>2, <1>3, <1>5, <1>7 DEF TypeOK
    <3> QED
      BY <1>5, <3>1 DEF Kept, Buffered
  <2>7. CallComplete'
    BY <1>1, <1>p, <1>t, <1>7, <2>5, <2>6 DEF IndexInv, CallComplete, Before
  <2>8. IndexedKept'
    BY <1>1, <2>5 DEF IndexInv, IndexedKept, AllKept, history
  <2> QED
    BY <2>2, <2>3, <2>4, <2>7, <2>8 DEF IndexInv
<1>8. CASE flushChunk(g, buf) /\ wordBuffer' = [wordBuffer EXCEPT ![g] = <<>>]
             /\ gram' = gram + 1 /\ UNCHANGED <<page, pc, word, stems>>
  <2>1. TypeOK'
    <3>1. /\ DOMAIN chunks' \subseteq Grams \X (Nat \ {0})
          /\ \A c \in DOMAIN chunks' : chunks'[c] \in Seq(Words) \ {<<>>} /\ Len(chunks'[c]) <= ChunkSize
          /\ wordBuffer' \in [Grams -> Seq(Words)]
          /\ \A h \in Grams : Len(wordBuffer'[h]) < ChunkSize
          /\ counts' \in [Grams -> Nat]
      BY <1>2, <1>3, <1>5, <1>8, FlushTypes
    <3>2. gram' \in Nat \ {0}
      BY <1>3, <1>8 DEF TypeOK
    <3> QED
      BY <1>1, <1>3, <1>8, <3>1, <3>2 DEF TypeOK, index, history
  <2>2. PostingsHaveDocument'
    BY <1>1, <2>1 DEF IndexInv, PostingsHaveDocument
  <2>3. CallInOrder'
    BY <1>1, <1>8 DEF IndexInv, CallInOrder
  <2>4. BufferSound' /\ ChunksSound'
    BY <1>1, <1>2, <1>3, <1>5, <1>6, <1>8, FlushSound DEF IndexInv
  <2>5. /\ \A x, h : Kept(x, h) /\ h \in Grams => Kept(x, h)'
        /\ Kept(w, g)'
    <3>1. \A i \in 1..Len(wordBuffer[g]) : \E j \in 1..Len(buf) : buf[j] = wordBuffer[g][i]
      BY <1>3, <1>5
    <3>2. Len(buf) \in 1..Len(buf)
      BY <1>3, <1>5
    <3> QED
      BY <1>1, <1>2, <1>3, <1>5, <1>8, <3>1, <3>2, FlushKeeps DEF history
  <2>6. CallComplete'
    BY <1>1, <1>p, <1>t, <1>8, <2>5 DEF IndexInv, CallComplete, Before
  <2>7. IndexedKept'
    BY <1>1, <2>5 DEF IndexInv, IndexedKept, AllKept, history
  <2> QED
    BY <2>2, <2>3, <2>4, <2>6, <2>7 DEF IndexInv
<1>9. CASE flushChunkFails(g) /\ Return /\ UNCHANGED wordBuffer
  <2>1. /\ counts' = [counts EXCEPT ![g] = @ + 1] /\ chunks' = chunks
        /\ UNCHANGED <<docs, postings, visited, handled, index, history, wordBuffer>>
    BY <1>1, <1>9 DEF flushChunkFails
  <2>2. TypeOK'
    BY <1>1, <1>2, <1>3, <1>9, <2>1 DEF TypeOK, Return, index, history
  <2>3. PostingsHaveDocument'
    BY <2>1, <2>2 DEF IndexInv, PostingsHaveDocument
  <2>4. CallInOrder' /\ CallComplete'
    BY <1>9 DEF Return, CallInOrder, CallComplete
  <2>5. BufferSound' /\ ChunksSound'
    BY <2>1 DEF IndexInv, BufferSound, ChunksSound, Genuine
  <2>6. \A x, h : h \in Grams /\ Kept(x, h) => Kept(x, h)'
    <3>1. \A h \in Grams : counts[h] \in Nat /\ counts'[h] \in Nat /\ counts[h] <= counts'[h]
      BY <1>2, <1>3, <2>1 DEF TypeOK
    <3>2. \A x, h : h \in Grams /\ Numbered(x, h) => Numbered(x, h)'
      <4>1. \A c \in DOMAIN chunks : c[2] \in Nat
        BY <1>3, Types
      <4> QED
        BY <2>1, <3>1, <4>1 DEF Numbered
    <3> QED
      BY <2>1, <3>2 DEF Kept, Buffered, history
  <2>7. IndexedKept'
    BY <2>1, <2>6 DEF IndexInv, IndexedKept, AllKept, history
  <2> QED
    BY <2>3, <2>4, <2>5, <2>7 DEF IndexInv
<1> QED
  BY <1>4, <1>7, <1>8, <1>9

\* The loops of IndexNGrams go on, or are over.
LEMMA LoopInv ==
  ASSUME IndexInv, NextWord \/ BufferedAll
  PROVE  IndexInv'
<1>1. /\ pc = "ngrams" /\ page \in Pages /\ page \in docs
      /\ UNCHANGED <<page, disk, memory, index, history>>
      /\ word \in Nat \ {0} /\ gram \in Nat \ {0}
  BY DEF NextWord, BufferedAll, IndexInv, CallInOrder, PostingsHaveDocument, TypeOK
<1>2. \/ word' = word + 1 /\ gram' = 1 /\ UNCHANGED <<pc, stems>>
      \/ UNCHANGED <<word, gram>> /\ pc' = "words" /\ stems' = StemsOf(page)
  BY DEF NextWord, BufferedAll
<1>3. TypeOK'
  <2>1. StemsOf(page) \subseteq Stems
    BY <1>1, PageTypes
  <2>2. {word', gram'} \subseteq Nat \ {0} /\ stems' \subseteq Stems /\ pc' \in {"ngrams", "words"}
    BY <1>1, <1>2, <2>1 DEF IndexInv, PostingsHaveDocument, TypeOK
  <2> QED
    BY <1>1, <2>2 DEF IndexInv, PostingsHaveDocument, TypeOK, disk, memory, index, history
<1>4. PostingsHaveDocument'
  BY <1>1, <1>3 DEF IndexInv, PostingsHaveDocument, disk
<1>5. CallInOrder'
  <2>1. page # None
    BY <1>1, IndexStoreAssumption
  <2> QED
    BY <1>1, <1>2, <2>1 DEF IndexInv, CallInOrder, disk
<1>6. /\ BufferSound' /\ ChunksSound' /\ IndexedKept'
      /\ \A w, g : Kept(w, g)' <=> Kept(w, g)
      /\ \A p : AllKept(p)' <=> AllKept(p)
  BY <1>1, StoreUntouched DEF disk, memory, history
<1>7. CallComplete'
  <2>1. CASE NextWord
    <3>1. \A i \in 1..Len(Tokens[page]) : \A j \in 1..Len(GramsOf[Tokens[page][i]]) :
            Before(i, j)' => Before(i, j)
      <4>1. /\ word' = word + 1 /\ gram' = 1 /\ ~(gram <= Len(GramsOf[Tokens[page][word]]))
            /\ word \in 1..Len(Tokens[page])
        BY <1>1, <2>1, PageTypes DEF NextWord
      <4> SUFFICES ASSUME NEW i \in 1..Len(Tokens[page]), NEW j \in 1..Len(GramsOf[Tokens[page][i]]),
                          i < word + 1 \/ (i = word + 1 /\ j < 1)
                   PROVE  i < word \/ (i = word /\ j < gram)
        BY <4>1 DEF Before
      <4>2. i \in Nat /\ j \in Nat /\ ~(j < 1) /\ Len(GramsOf[Tokens[page][i]]) \in Nat
        BY <1>1, PageTypes
      <4>3. i < word \/ i = word
        BY <1>1, <4>2
      <4> QED
        BY <1>1, <4>1, <4>2, <4>3
    <3> QED
      BY <1>1, <1>6, <2>1, <3>1 DEF IndexInv, CallComplete, NextWord
  <2>2. CASE BufferedAll
    <3>1. word > Len(Tokens[page]) /\ pc' = "words" /\ stems' = StemsOf(page)
      BY <2>2 DEF BufferedAll
    <3>2. ASSUME NEW w \in WordsOf(page), NEW g \in Grams, HasGram(w, g) PROVE Kept(w, g)
      <4>1. PICK i \in 1..Len(Tokens[page]) : Tokens[page][i] = w
        BY DEF WordsOf
      <4>2. PICK j \in 1..Len(GramsOf[w]) : GramsOf[w][j] = g
        BY <3>2 DEF HasGram
      <4>3. Before(i, j)
        BY <1>1, <3>1, PageTypes DEF Before
      <4> QED
        BY <1>1, <4>1, <4>2, <4>3 DEF IndexInv, CallComplete
    <3>3. AllKept(page)'
      BY <1>1, <1>6, <3>2 DEF AllKept
    <3> QED
      BY <1>1, <3>1, <3>3 DEF CallComplete
  <2> QED
    BY <2>1, <2>2
<1> QED
  BY <1>4, <1>5, <1>6, <1>7 DEF IndexInv

LEMMA IndexBatchInv ==
  ASSUME IndexInv, IndexBatch
  PROVE  IndexInv'
<1>1. CASE Fails /\ UNCHANGED postings
  BY <1>1, ReturnInv DEF IndexBatch, Fails, disk
<1>2. ASSUME NEW batch \in Batches, postings' = postings \cup (batch \X {page}), stems' = stems \ batch,
             UNCHANGED <<page, pc, word, gram>>
      PROVE  IndexInv'
  <2>1. /\ pc = "words" /\ page \in Pages /\ page \in docs
        /\ batch \subseteq stems /\ stems \subseteq StemsOf(page) /\ stems \subseteq Stems
        /\ UNCHANGED <<docs, chunks, visited, memory, index, history>>
    BY <1>2 DEF IndexBatch, Batches, IndexInv, CallInOrder, PostingsHaveDocument, TypeOK
  <2>2. TypeOK'
    BY <1>2, <2>1 DEF IndexInv, PostingsHaveDocument, TypeOK, memory, index, history
  <2>3. PostingsHaveDocument'
    <3>1. \A entry \in batch \X {page} : entry[2] = page /\ entry[1] \in StemsOf(page)
      BY <2>1
    <3> QED
      BY <1>2, <2>1, <2>2, <3>1 DEF IndexInv, PostingsHaveDocument
  <2>4. CallInOrder'
    BY <1>2, <2>1 DEF IndexInv, CallInOrder
  <2>5. /\ BufferSound' /\ ChunksSound' /\ IndexedKept'
        /\ AllKept(page) => AllKept(page)'
    <3>1. /\ BufferSound' /\ ChunksSound' /\ IndexedKept'
          /\ \A p : AllKept(p)' <=> AllKept(p)
      BY <1>2, <2>1, StoreUntouched DEF memory, history
    <3> QED
      BY <1>2, <3>1
  <2>6. CallComplete'
    BY <1>2, <2>1, <2>5 DEF IndexInv, CallComplete
  <2> QED
    BY <2>3, <2>4, <2>5, <2>6 DEF IndexInv
<1> QED
  BY <1>1, <1>2 DEF IndexBatch

\* The page counts as indexed when everything of it is kept.
LEMMA IndexedAllInv ==
  ASSUME IndexInv, IndexedAll
  PROVE  IndexInv'
<1>1. /\ pc = "words" /\ stems = {} /\ page \in Pages /\ page \in docs
      /\ indexed' = indexed \cup {page} /\ Return
      /\ UNCHANGED <<disk, memory, index, dropped>>
  BY DEF IndexedAll, IndexInv, CallInOrder, PostingsHaveDocument, TypeOK
<1>2. TypeOK'
  BY <1>1 DEF IndexInv, PostingsHaveDocument, TypeOK, Return, disk, memory, index
<1>3. PostingsHaveDocument'
  BY <1>1, <1>2 DEF IndexInv, PostingsHaveDocument, disk
<1>4. CallInOrder' /\ CallComplete'
  BY <1>1 DEF CallInOrder, CallComplete, Return
<1>5. BufferSound' /\ ChunksSound'
  BY <1>1 DEF IndexInv, BufferSound, ChunksSound, Genuine, disk, memory
<1>6. IndexedKept'
  <2>1. \A p : AllKept(p)' <=> AllKept(p)
    BY <1>1 DEF AllKept, Kept, Numbered, Buffered, disk, memory
  <2>2. AllKept(page) /\ \A s \in StemsOf(page) : <<s, page>> \in postings
    BY <1>1 DEF IndexInv, CallComplete
  <2> QED
    BY <1>1, <2>1, <2>2 DEF IndexInv, IndexedKept, disk
<1> QED
  BY <1>3, <1>4, <1>5, <1>6 DEF IndexInv

\* A buffer is written to the end of its n-gram's chunks, or dropped and remembered.
LEMMA FlushOneInv ==
  ASSUME IndexInv, NEW g \in Grams, wordBuffer[g] # <<>>,
         \/ flushChunk(g, wordBuffer[g]) /\ UNCHANGED dropped
         \/ flushChunkFails(g) /\ dropped' = dropped \cup {<<g, w>> : w \in Buffered(g)},
         wordBuffer' = [wordBuffer EXCEPT ![g] = <<>>],
         UNCHANGED <<mode, docs, postings, visited, handled, call, session, indexed>>
  PROVE  IndexInv'
<1>1. TypeOK /\ wordBuffer[g] \in Seq(Words) /\ Len(wordBuffer[g]) < ChunkSize /\ Len(wordBuffer[g]) \in Nat
  BY DEF IndexInv, PostingsHaveDocument, TypeOK
<1>2. TypeOK'
  <2>1. CASE flushChunk(g, wordBuffer[g]) /\ UNCHANGED dropped
    <3>1. Len(wordBuffer[g]) <= ChunkSize
      BY <1>1, IndexStoreAssumption
    <3>2. /\ DOMAIN chunks' \subseteq Grams \X (Nat \ {0})
          /\ \A c \in DOMAIN chunks' : chunks'[c] \in Seq(Words) \ {<<>>} /\ Len(chunks'[c]) <= ChunkSize
          /\ wordBuffer' \in [Grams -> Seq(Words)]
          /\ \A h \in Grams : Len(wordBuffer'[h]) < ChunkSize
          /\ counts' \in [Grams -> Nat]
      BY <1>1, <2>1, <3>1, FlushTypes
    <3> QED
      BY <1>1, <2>1, <3>2 DEF TypeOK, call
  <2>2. CASE flushChunkFails(g) /\ dropped' = dropped \cup {<<g, w>> : w \in Buffered(g)}
    <3>1. Buffered(g) \subseteq Words
      BY <1>1 DEF Buffered
    <3>2. /\ wordBuffer' \in [Grams -> Seq(Words)] /\ counts' \in [Grams -> Nat]
          /\ \A h \in Grams : Len(wordBuffer'[h]) < ChunkSize
          /\ chunks' = chunks /\ dropped' \subseteq Grams \X Words
      BY <1>1, <2>2, <3>1, IndexStoreAssumption, SMTT(60) DEF TypeOK, flushChunkFails
    <3> QED
      BY <1>1, <3>2 DEF TypeOK, call
  <2> QED
    BY <2>1, <2>2
<1>3. PostingsHaveDocument' /\ CallInOrder'
  BY <1>2 DEF IndexInv, PostingsHaveDocument, CallInOrder, call
<1>4. BufferSound' /\ ChunksSound'
  <2>1. CASE flushChunk(g, wordBuffer[g])
    BY <1>1, <2>1, FlushSound DEF IndexInv, BufferSound
  <2>2. CASE flushChunkFails(g)
    <3>1. chunks' = chunks /\ \A w, h : Genuine(w, h)' <=> Genuine(w, h)
      BY <2>2 DEF flushChunkFails, Genuine
    <3>2. ChunksSound'
      BY <3>1 DEF IndexInv, ChunksSound
    <3>3. \A h \in Grams : wordBuffer'[h] = IF h = g THEN <<>> ELSE wordBuffer[h]
      BY <1>1 DEF TypeOK
    <3>4. BufferSound'
      BY <3>1, <3>3 DEF IndexInv, BufferSound
    <3> QED
      BY <3>2, <3>4
  <2> QED
    BY <2>1, <2>2
<1>5. \A w, h : Kept(w, h) /\ h \in Grams => Kept(w, h)'
  <2>1. CASE flushChunk(g, wordBuffer[g]) /\ UNCHANGED dropped
    BY <1>1, <2>1, FlushKeeps
  <2>2. CASE flushChunkFails(g) /\ dropped' = dropped \cup {<<g, w>> : w \in Buffered(g)}
    <3>1. chunks' = chunks /\ \A h \in Grams : counts[h] \in Nat /\ counts'[h] \in Nat /\ counts[h] <= counts'[h]
      BY <1>1, <2>2 DEF flushChunkFails, TypeOK
    <3>2. \A w, h : h \in Grams /\ Numbered(w, h) => Numbered(w, h)'
      BY <1>1, <3>1, Types DEF Numbered
    <3>3. ASSUME NEW h \in Grams, NEW w \in Buffered(h) PROVE Kept(w, h)'
      BY <1>1, <2>2 DEF Kept, Buffered, TypeOK
    <3> QED
      BY <2>2, <3>2, <3>3 DEF Kept
  <2> QED
    BY <2>1, <2>2
<1>6. CallComplete' /\ IndexedKept'
  <2>1. pc = "ngrams" \/ pc = "words" => page \in Pages
    BY IndexStoreAssumption, <1>1 DEF IndexInv, CallInOrder, TypeOK
  <2>2. \A p : AllKept(p) => AllKept(p)'
    BY <1>5 DEF AllKept
  <2>3. CallComplete'
    BY <1>5, <2>1, <2>2, PageTypes DEF IndexInv, CallComplete, Before, call
  <2> QED
    BY <2>2, <2>3 DEF IndexInv, IndexedKept
<1> QED
  BY <1>3, <1>4, <1>6 DEF IndexInv

\* The end of Index and a new start touch no chunk, and a new start forgets the session.
LEMMA EndInv ==
  ASSUME IndexInv, CrawlOver \/ SaveVisitedUrls \/ (FlushAll /\ mode' # mode)
  PROVE  IndexInv'
<1>1. /\ UNCHANGED <<docs, postings, chunks, wordBuffer, counts, handled, call, session, indexed, dropped>>
      /\ mode' \in {"flush", "visited", "over"} /\ visited' \subseteq visited \cup handled
  BY DEF CrawlOver, SaveVisitedUrls, FlushAll, disk, memory, history
<1>2. TypeOK'
  BY <1>1 DEF IndexInv, PostingsHaveDocument, TypeOK, call
<1>3. PostingsHaveDocument' /\ CallInOrder'
  BY <1>1, <1>2 DEF IndexInv, PostingsHaveDocument, CallInOrder, call
<1>4. /\ BufferSound' /\ ChunksSound' /\ IndexedKept'
      /\ \A w, g : Kept(w, g)' <=> Kept(w, g)
      /\ \A p : AllKept(p)' <=> AllKept(p)
  BY <1>1, StoreUntouched
<1>5. CallComplete'
  BY <1>1, <1>4 DEF IndexInv, CallComplete, Before, call
<1> QED
  BY <1>3, <1>4, <1>5 DEF IndexInv

LEMMA RestartInv ==
  ASSUME IndexInv, Restart
  PROVE  IndexInv'
<1> USE DEF Restart, Return, disk
<1>1. TypeOK'
  <2>1. session' \in 1..Sessions
    BY IndexStoreAssumption DEF IndexInv, PostingsHaveDocument, TypeOK
  <2>2. wordBuffer' \in [Grams -> Seq(Words)] /\ \A g \in Grams : Len(wordBuffer'[g]) < ChunkSize
    BY IndexStoreAssumption
  <2>3. counts' \in [Grams -> Nat]
    OBVIOUS
  <2> QED
    BY <2>1, <2>2, <2>3 DEF IndexInv, PostingsHaveDocument, TypeOK
<1>2. PostingsHaveDocument'
  BY <1>1 DEF IndexInv, PostingsHaveDocument
<1>3. CallInOrder' /\ CallComplete'
  BY DEF CallInOrder, CallComplete
<1>4. BufferSound' /\ ChunksSound' /\ IndexedKept'
  BY DEF IndexInv, BufferSound, ChunksSound, Genuine, IndexedKept
<1> QED
  BY <1>2, <1>3, <1>4 DEF IndexInv

LEMMA NextInv == IndexInv /\ [Next]_vars => IndexInv'
<1> SUFFICES ASSUME IndexInv, [Next]_vars PROVE IndexInv'
  OBVIOUS
<1>1. CASE UNCHANGED vars
  <2>1. TypeOK'
    BY <1>1 DEF vars, disk, memory, call, index, history, IndexInv, PostingsHaveDocument, TypeOK
  <2>2. PostingsHaveDocument' /\ CallInOrder'
    BY <1>1, <2>1 DEF vars, disk, call, IndexInv, PostingsHaveDocument, CallInOrder
  <2>3. /\ BufferSound' /\ ChunksSound' /\ IndexedKept'
        /\ \A w, g : Kept(w, g)' <=> Kept(w, g)
        /\ \A p : AllKept(p)' <=> AllKept(p)
    BY <1>1, StoreUntouched DEF vars, disk, memory, history
  <2>4. CallComplete'
    BY <1>1, <2>3 DEF IndexInv, CallComplete, Before, vars, disk, call
  <2> QED
    BY <2>2, <2>3, <2>4 DEF IndexInv
<1>2. CASE \E p \in Pages : Begin(p)
  BY <1>2, BeginInv
<1>3. CASE SaveDocument \/ BufferWord \/ NextWord \/ BufferedAll \/ IndexBatch \/ IndexedAll
  BY <1>3, SaveDocumentInv, BufferWordInv, LoopInv, IndexBatchInv, IndexedAllInv
<1>4. CASE FlushAll
  <2>1. CASE mode' # mode
    BY <1>4, <2>1, EndInv
  <2>2. CASE mode' = mode
    <3>1. PICK g \in Grams :
            /\ wordBuffer[g] # <<>>
            /\ \/ flushChunk(g, wordBuffer[g]) /\ UNCHANGED dropped
               \/ flushChunkFails(g) /\ dropped' = dropped \cup {<<g, w>> : w \in Buffered(g)}
            /\ wordBuffer' = [wordBuffer EXCEPT ![g] = <<>>]
      BY <1>4, <2>2 DEF FlushAll
    <3> QED
      BY <1>4, <2>2, <3>1, FlushOneInv DEF FlushAll
  <2> QED
    BY <2>1, <2>2
<1>5. CASE CrawlOver \/ SaveVisitedUrls \/ Restart
  BY <1>5, EndInv, RestartInv
<1>6. CASE Over
  BY <1>1, <1>6 DEF Over
<1> QED
  BY <1>1, <1>2, <1>3, <1>4, <1>5, <1>6 DEF Next
-----------------------------------------------------------------------------
(* Theorems *)

\* What a call has come past is kept on disk, in the buffers or among what FlushAll gave
\* up, and nothing kept is overwritten by this session: the inductive invariant.
THEOREM IndexInvariant == Spec => []IndexInv
BY InitInv, NextInv, PTL DEF Spec

\* Every posting leads to a stored document that has the stem, whatever transaction
\* fails and wherever the process dies.
THEOREM PostingsLeadToDocuments == Spec => []PostingsHaveDocument
<1>1. IndexInv => PostingsHaveDocument
  BY DEF IndexInv
<1> QED
  BY <1>1, IndexInvariant, PTL

\* What the speller suggests for an n-gram are words of stored documents that have it,
\* also where a session overwrites the chunks of the one before in part.
THEOREM SuggestionsAreSound == Spec => []SuggestionsSound
<1>1. IndexInv => SuggestionsSound
  BY DEF IndexInv, ChunksSound, Genuine, SuggestionsSound, Suggested
<1> QED
  BY <1>1, IndexInvariant, PTL

\* A page stored without an error is found under each of its stems and its n-grams.
THEOREM IndexedPagesAreFound == Spec => []IndexedIsSearchable
<1>1. IndexInv => IndexedIsSearchable
  <2> SUFFICES ASSUME IndexInv, NEW p \in indexed
               PROVE  /\ p \in docs
                      /\ \A s \in StemsOf(p) : <<s, p>> \in postings
                      /\ \A w \in WordsOf(p), g \in Grams :
                           HasGram(w, g) => w \in Suggested(g) \cup Buffered(g) \/ <<g, w>> \in dropped
    BY DEF IndexedIsSearchable
  <2>1. \A w, g : Numbered(w, g) => w \in Suggested(g)
    BY DEF Numbered, Suggested
  <2> QED
    BY <2>1 DEF IndexInv, IndexedKept, AllKept, Kept
<1> QED
  BY <1>1, IndexInvariant, PTL
=============================================================================
