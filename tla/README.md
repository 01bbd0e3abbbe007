# monocle in TLA+

monocle crawls web pages from a list of start URLs, stores documents, an
inverted index and n-gram chunks in Badger, asks a Python process for
embeddings, and answers queries in a console or a terminal interface.  This
directory holds a model of it, from the crawl to the answer of a query and from
the start of the program to its end, the TLC runs that check it on small
instances, and TLAPS proofs of nearly all its safety properties (worker pool, cache,
crawl, rate limiters, embedding queue, lifecycle, index) for every value of the
constants.  Paths are relative to the repository.

## 1. The system

| component | state | operations | used by |
|---|---|---|---|
| Worker pool `pkg/workerPool` | channel `buf`, WaitGroup, `quit`, `workers`, ticker goroutine | Submit, worker, Wait, Stop, cleanCalls | scraper |
| LRU cache `scraper/lruCache` | map and doubly linked list | Get, Put | scraper |
| Scraper `app/scraper` | `visited` (sync.Map), `lru`, `rlMap`, link bank on disk | Run, ScrapeWithContext, fetchPageRulesAndOffers, getHTML, parseHTMLStream, fetchHTMLcontent | indexer |
| Rate limiter `scraper/rateLimiter.go` | token channel, ticker | NewRateLimiter, GetToken, Shutdown | scraper |
| robots.txt, sitemap `pkg/parser`, `sitemapHandling.go` | none | FetchRobotsTxt, ParseRobotsTxt, IsAllowed, getSitemapURLs | scraper |
| Embedding queue `textHandling/vectorizer.go` | channel `docQueue`, ticker, one result channel per request | PutDocQuery, batcher, vectorize, Close, CallRankModel | scraper, searcher |
| Indexer `app/indexer` | `mu`, document count | Index, HandleDocumentWords, HandleTextQuery, IsCrawledContent, GetAVGLen | main, scraper, searcher |
| Repository `internal/repository` | `mu`, `wordBuffer`, `counts`; on disk `doc:`, `ri:`, `ng:`, `hashKey:`, `visited:`, `pagerank:`, content hashes | SaveDocument, IndexDocumentWords, IndexNGrams, FlushAll, SaveVisitedUrls, LoadVisitedUrls, SaveUrlsToBank, CheckContent | all of the above |
| Searcher `app/searcher` | result slice under a mutex, one goroutine per word | Search, ranking | main, TUI |
| Spell checker, tokenizer, stemmer | none | BestReplacement, tokenisation, stemming | indexer |
| Logger `pkg/logger` | channel, writer goroutine | Write, Close | all |
| Lifecycle `cmd/app/main.go`, TUI `internal/tui` | contexts, deferred closes | start, interrupt, quit | the user |
| Configuration, document model | plain data | read once | all |
| Embedding server `semantic_embeddings/app.py` | external process | /vectorize, /rank | embedding queue |

How they interact.  `Index` loads the visited URLs, starts `WebScraper.Run` and,
when it returns, flushes the n-gram buffers and saves the visited URLs
(deferred calls).  `Run` submits one closure per start URL to the pool and waits.
A closure calls `ScrapeWithContext`, which fetches one page, has it indexed
through the indexer and the embedding queue, saves its links in the bank, and
submits one closure per link: tasks submit tasks, and when the channel is full
`Submit` runs the task on the caller's own stack.  A page reached again from a
smaller depth is not fetched but walked again, with the links found in the cache
or the bank.  The global context ends all of this at ^C.

What is hard, and where the properties point:

- *Pool*: the barrier (`Wait`) against tasks that submit tasks; a full channel
  with every worker submitting; the cleaner, which guesses that a cancelled
  pool is stuck from two equal samples and then calls `Done` for others; panics
  (closed channel, negative WaitGroup).
- *Scraper*: several goroutines on one page under different spellings and
  depths; link lists filtered, cached, stored and reused later; failures
  between the steps of a page; visited marks carried over runs.
- *Repository*: a page goes to disk in several transactions, with failure and
  crash between them, and with buffers and counters that live in memory only.
- *Embedding queue*: answers matched to requests by position, callers that give
  up, a server that fails or answers short, a queue closed under its senders.
- *Searcher*: a goroutine per word over a shared map and a shared list, a vector
  that may not come, a server that rearranges the list in place.
- *Text*: what is written under a word and what is looked up under it pass through
  the same chain of tokenizer, stemmer and n-grams; the misspelt go through the
  spell checker first, with two indices of their own.
- *Logger, lifecycle*: goroutines that outlive what they use.

## 2. The modules

| module | models | state and actions against the code |
|---|---|---|
| `TaskPool` | what the crawler expects of a pool (abstract) | `life[t]` of a task; Submit, Start, Finish, Drop (only when cancelled), Join |
| `WorkerPool` | `workerPool.go` | one action per access to shared state: `SubmitAdd` is `wg.Add`, `SubmitEnqueue`/`SubmitInline` the two cases of the select, `TaskDone` the `Done` of `wrap`, `WorkerStart/Take/Leave/Gone` the worker loop, `Main*` Run's submit loop, Wait and the three statements of Stop, `Cleaner*` the ticker goroutine with `cleanCalls`.  Threads have stacks of tasks, since Submit may run a task inline |
| `Recency`, `LRUSpec` | a bounded cache as a sequence of entries (operators, abstract specification) | `AfterGet`, `AfterPut` |
| `LRUCache` | `lruCache.go` | nodes, `next`, `prev`, the map; `remove` and `insert` rewrite the pointers in the order of the assignments; `Get` and `Put` are one step each, as they hold the mutex.  `NodesFrom`, the sequence the pointers lead over, is the refinement mapping |
| `Crawl` | `scraper.go`, `htmlHandling.go`, `sitemapHandling.go`, with the repository calls they make | a thread has a stack of calls of `ScrapeWithContext`, each with a program counter; one step is one access to shared state: `Enter`, `FetchRules`, `Visit` (LoadOrStore), `LookupCache`, `LookupBank`, `Fetch`, `ParseLink`, `EndParse`, `Index`, `Abandon`, `SaveLinks`, `SubmitLink`.  `SaveVisited`, `Cancel`, `Restart` (also after a crash) surround them |
| `RateLimiter` | `rateLimiter.go` with its users in `scraper.go`, `sitemapHandling.go`, `htmlHandling.go`, for one host | a sequence of limiters with their channels, ticker and goroutine; `Enter` and `Rules` replace the one in `rlMap`, `ReadLimiter`, `TakeToken`, `GoWithout` and `Answer` are `getHTML` with its retries, `HandleTick` and `HandleQuit` the goroutine, `CloseQuit`, `Join`, `CloseToken` the statements of Shutdown, `Second` passes time |
| `RobotsTxt` | `robotsTXT.go` | operators: `ParseRobotsTxt` is a fold over the lines, `IsAllowed` looks for prefixes |
| `Vectorizer` | `vectorizer.go` with its callers in `htmlHandling.go` and `searcher.go` | `Send`, `SendPanics`, `SendGivesUp`, `Receive`, `GiveUp` of a caller; `TakeBatch`, `Post`, `PostFails`, `Deliver`, `DeliverPanics` of the batcher; `Close` |
| `Lifecycle` | `main.go`, the logger, the key handling of `tui.go`, `Index` and `Search` as far as they log, wait and save | `main` runs from the ping of the server to the exit; the listener for ^C, the crawl, the word goroutines, the logger's goroutine and the steps of `Vectorizer` go on beside it; `CloseVec`, `CancelAll`, `CloseDB`, `CloseLog` and `Exit` are the deferred calls, which run after a panic of main as well (`StartFails`, `IndexOver`, `Quit`) |
| `IndexStore` | `HandleDocumentWords`, `IndexNGrams`, `flushChunk`, `FlushAll`, `IndexDocumentWords`, saving and loading of visited URLs | one transaction or one round of a loop per step, any of which may fail or be the last before a crash; `word` and `gram` are the positions of the two loops of `IndexNGrams` (`BufferWord` the inner one, `NextWord` the outer) |
| `Tokenizer`, `Stemmer` | `tokenizer.go`, `stemmer.go` | operators on strings; `stem` is the set of results that the order of Go's maps allows |
| `SpellChecker` | `spellChecker.go` | operators, with the distance defined by edits to compare with |
| `TextIndex` | `HandleTextQuery`, and the data of `HandleDocumentWords` | `HandleDocumentWords` and `FlushAll` fill the inverted index and the n-grams; `HandleTextQuery`, `Loop`, `LoopEnds` are a query, one round of its loop per step, which a read of the database may end |
| `Features` | `getMinQueryDistInDoc`, `boyerMoorAlgorithm` | operators, with the shortest stretch and the part of a string to compare with |
| `Search` | `Searcher.Search`, `callRankAPI` | `Fetch`, `Score`, `Collect`, `WordDone` of a word's goroutine, a section under a mutex each; `Handle`, `Vector`, `NoVector`, `Sort`, `Rank`, `RankFails`, `Ranked` of the call |
| `MC*` | instances for TLC | small webs and texts; `MCCrawlTurns` adds to `MCCrawl` a history variable that tells whether pages have gone one at a time |
| `*Proofs` | theorems: `WorkerPoolProofs`, `RecencyProofs`, `LRUCacheProofs`, `CrawlProofs`, `RateLimiterProofs`, `LifecycleProofs` (with `Vectorizer`), `IndexStoreProofs`, `SearchProofs` (with `Features`) | section 5 |

How they compose.  `WorkerPool` implements `TaskPool`, which is how `Crawl` uses
the pool (a FIFO queue, the caller's stack when it is full, Wait when nothing is
outstanding).  `LRUCache` implements `LRUSpec`, whose operators in `Recency` are
the cache of `Crawl`.  `RateLimiter` opens up the waiting in the
step `Fetch`, `IndexStore` the step `Index` of `Crawl`, and `Vectorizer` the
embedding that precedes it.  `RobotsTxt` gives the constants of `MCCrawl` that
say what a site's robots.txt contains.  `Lifecycle` extends `Vectorizer` with the
program around it.  `TextIndex` extends `Stemmer` (and that `Tokenizer`) and
`SpellChecker`; what its `answer` holds is the `index` that `Search` begins with, and
`Search` extends `Features`.

Abstractions.  Pages, links, spellings of URLs, the files of sites, the matches of
regular expressions, postings and vectors are constants, as are words, stems and
n-grams in `IndexStore`.  Cosine and distance are an order of the documents in
`Search`, and bm25 and tf_idf sums whose idf is 1.  Characters take one byte.  The text of pages, retries
after status 429 (which end in a page or an error, see `RateLimiter`) and logging
are left out of `Crawl`, and a limiter is its delay there.  A duplicate-content check never finds anything
in the code (the key written and the prefix sought differ,
`documentRepos.go:171`, `:179`), so in `Crawl` it is one of the ways in which
indexing may fail.

Definitions marked *Variant* are not part of any specification: they are faulty
forms of the definition that follows them, and each property is known to fail
when the variant takes its place (`mutants` in `PROJECT.json`).

## 3. The runs

| run | question | instance and bounds |
|---|---|---|
| `WorkerPool` | does the pool keep its promises under every interleaving, with interruption? | 2 workers, 4 tasks, channel of 1: room for both workers submitting into a full channel while a third task is queued and a fourth runs inline |
| `WorkerPoolInterrupted` | violated: does Run come back after an interruption? | 1 worker and 1 task are enough |
| `LRUCache` | does the list implement the recency order? | capacity 2, 3 keys, 2 values, 3 nodes (`Put` removes before it allocates, so one node is always free) |
| `CrawlSafety` | concurrent crawl without failures: what is shared, and which links are followed | 8 URLs, 7 keys on 3 hosts (one page with two spellings), cycle and diamond, pages found again nearer to the start, a page with a sitemap and one that is a level too deep; 2 workers, channel of 4, which fills up so that both workers run tasks themselves, cache of 1, depth 3; both start pages on one key.  Of the interleavings, some take page by page |
| `CrawlRestart` | two runs of the program with every failure (a vector that never comes and a mark that is silently not saved among them), interruption and crash; liveness | chain of 4 pages with a shortcut and a way back, one of them linked under two spellings by pages that may be under way together, 2 workers |
| `CrawlDescribed` | violated: are the stored documents those that README.md describes? | a tree of 3 levels with a page of another site and one that robots.txt disallows, staying on the site, depth 2, 1 worker |
| `RateLimiter` | spacing of requests, replaced limiters, shutdown | 2 visits, one of them Run's own, 2 tries each: 4 requests on up to 4 limiters, of 2 s and, from robots.txt, 1 s; interruption |
| `Lifecycle` | the end of the program in both modes, and the embedding queue under it | 1 page and 1 search with one request each, a queue of 1 or 2 (with 2 both share a batch or follow each other; with 1 one of them waits for room), a log of 1 message; server that fails or answers short, interrupt, quit, a crawl switched off |
| `IndexStore` | order of transactions, failure and crash | 2 pages, 4 words (one number, one repeated, one with two n-grams), chunks of 2 words, batches of 1 stem, 2 runs |
| `Search` | counts, features and ranking under every interleaving; failures | 5 documents; queries of 1 word, of 2 words with a document in common, with postings that were cut, and without a result; lists of 4 in groups of 2, so that a group has a first and another candidate |
| `SearchOrder` | violated: do bm25 and tf_idf decide between documents that are equally near? | the same, without failures |
| `TextIndex` | from the text of pages to the answer of queries | 3 documents with numbers, addresses (one with `_`), alphanumeric words and words of several stems; 12 queries, with each combination of a misspelt word behind a number, an address or a stop word; n-grams of 2 characters, up to 2 typos |

Every counter is bounded by a constant: `Sessions` the starts of the program,
`Asks` the requests of a client (`User` searches once, which leaves one search under way and
one given up possible), `LogCapacity` the messages waiting, `MaxDepth`, the capacities, and the finite sets
of tasks and pages (each task is submitted once; each page is requested once per
visit; `Tries` the retries).  `RateLimiter` has no clock that grows: time is what is
left until each tick, and its history stops counting at R.  No run uses symmetry.

What the passing runs show (a type invariant is a conjunct of one property of each
module: `ListMatchesMap`, `CacheAgreesWithBank`, `SendsSafe`, `AnswersMatch`,
`PostingsHaveDocument`, `PoolInv`):

- Pool: `JoinSound` (nothing is counted, queued or running once Wait has
  returned), `PanicsOnlyInRelease` (the only panic possible is in the second loop
  of `cleanCalls`), `ReleaseAfterJoin` (that loop comes too late to release
  anybody), `Implements`, and the liveness of tasks and of Run up to that panic.
- LRU: `ListMatchesMap` and the refinement: `Get` and `Put` keep map, forward
  and backward links in agreement, and evict the least recent entry only.
- Crawl: `FetchedOnce` (a run requests a page at most once whatever the
  spelling, and not at all when it found the page's mark on disk; a mark that was not
  saved, since the process died or its transaction failed, keeps nobody from the page), `DepthSound` (a
  stored depth is the length of a path of links, though lists are cached,
  filtered and reused), `BankSound`, `CacheAgreesWithBank` (an eviction changes
  nothing for a rewalk), `LimiterPresent` (GetToken is never called on nil),
  `VisitedIsIndexed`, `LinksFollowed` (with several workers: next to a page that was
  crawled above the last level no link is left out), `CoverageInTurn` (a crawl in which no
  two pages were ever under way at a time, whichever workers took them, stores exactly the
  pages within `max_depth - 1` links, each at its least depth; one level less than
  documented, section 6), `SavedMarksStay`, `CrawlEnds` (Run and the saves come to their end,
  except while a page waits for a vector that does not come and nobody interrupts).
- RateLimiter: `BurstOfTwo` (of three requests that one limiter lets through the
  first and the last are R seconds apart, although it keeps a token and a request
  may hold a limiter that was replaced), `PaidRequests` (no limiter is shut down
  under a request), `SendsSafe`, `RunEnds`.
- Lifecycle: `AnswersMatch` (what a caller receives is the vector of its own text,
  and a request is in one place, so that the batcher never blocks on a result
  channel), `PageVectorEnds` and `SearchEnds` (who comes back from the queue, and
  when), `QuitEnds` (an interrupt ends the crawl, a quit the program),
  `SendsAfterClose` (who may send to a closed channel, which is a panic: only while the
  program is being left, and never main), and `NothingLost` (the console saves the crawl before it closes the database; every
  message the logger accepted is written when the program exits by itself).
- IndexStore: `PostingsHaveDocument`, `SuggestionsSound`, and `IndexedIsSearchable`
  (a page stored without an error stays to be found under each stem and n-gram,
  through full buffers, spent numbers, failed flushes and the end of the crawl).
- Search: `ScoresComplete` (when the list is sorted every goroutine has ended, each
  document is there once and its counts are those of all its words),
  `PromotedWithinGroup` (the ranking server loses and doubles nothing, also when it
  fails half way), `FeaturesExact` (binary search and string search against their
  definitions, the former on any choice of lists of positions of a document; which list
  the search passes to it is a matter of section 6), `SearchReturns`.  In which order the sort
  leaves the list is a matter of section 6.
- TextIndex: `TokensExact` (the tokens put together are the text, cut where they
  should be), `CorrectionSound` (a replaced word is one of a stored document within
  the allowed typos of the right word of the query), `KnownWordsFound`,
  `QueryAnswered` (without errors of the database).

`CHECK_DEADLOCK` is on everywhere.  The stuttering actions `Ended`, `Finished`
and `Over` are enabled only where the program has ended, or has
nothing to do, so a state with nobody able to go on is reported.  In `RateLimiter` time
goes on for ever; that nobody is stuck there is what `RunEnds` says.

## 4. Fairness, and assumptions about time

- Weak fairness per goroutine: the Go scheduler runs what can run.  A request and a
  transaction end, with a result or an error: `http.Client` has a timeout of 30 s, the
  POST of the batcher one of 10 s.  A page's wait for its vector need not end
  (`Abandon` of `Crawl` waits for an interrupt, `lost` of `Vectorizer` has the requests
  of failed batches).  `WorkerPool` assumes that task bodies end, which leaves that case out.
  Nothing is assumed of the user: `Cancel`, `Restart`, `Interrupt`, `SearchBegins`, `Quit`
  and `WindowSize` are not fair, and neither is that the Python server comes up.  In
  `Lifecycle` pages do ask (`PageAsks` is fair): a crawl that runs goes on to its next page.
- A worker with both a task and `quit` ready may leave; fairness only makes it do
  one of the two.
- `TimerRunsOut` is fair, since a timer of 5 s ends; `SearchStep` of `Search` is, as the
  vector comes or that timer runs out, and a request to the ranking server ends within 10 s.
- `AtTick`: the cleaner's ticks are 90 s apart, far more than any step here takes
  except a task body.  A tick therefore finds the pool with a task outstanding
  or already dissolved.  Without this assumption the cleaner could also act in
  the microseconds between two statements of Stop.  The panic found needs no such
  coincidence: the task in hand outlives two ticks, Wait returns, Stop closes
  `buf`, and the cleaner wakes before the workers have left.
- `RateLimiter` lets a second pass only when the limiters' goroutines have dealt
  with the tick before: they do nothing else, and the shortest delay is 1 s.
- After a panic nothing runs: `Running` in the fairness condition says so.

## 5. What is proved

TLAPS proves the following for every value of the constants that the assumption of
the module (`...Assumption`, which TLC also evaluates) allows: capacities, chunk sizes
and delays above 0, finite sets where something is counted, any web, any text, any
number of goroutines, sessions and retries, any postings and queries.  Every safety
property that a run of these components checks is proved, but for `LinksFollowed`, and of
`CoverageInTurn` the case of one worker; three theorems about the crawl have an assumption of their own, given below.

| theorem | states |
|---|---|
| *worker pool*: `PoolInvariant`, `PoolTypeOK` | the inductive invariant `PoolInv`; types |
| `JoinIsSound`, `OnlyReleasePanics`, `ReleaseComesTooLate` | `JoinSound`, `PanicsOnlyInRelease`, `ReleaseAfterJoin` |
| `PoolRefinesTaskPool` | `WorkerPool` implements `TaskPool` |
| *cache*: `ListInvariant`, `ListAndMapMatch` | the inductive invariant `ListInv`; `ListMatchesMap` |
| `ListImplementsLRU` | `LRUCache` implements `LRUSpec` |
| *crawl*: `CallsInvariant`, `LinksInvariant`, `DepthsAreSound` | the layers `CallsInv`, `LinksInv`; `DepthSound` |
| `VisitsInvariant`, `PagesAreFetchedOnce`, `SavedMarksAreKept` | the layer `VisitsInv`; `FetchedOnce`, `SavedMarksStay` |
| `LimitersArePresent`, `BankIsSound` | `LimiterPresent`, `BankSound` |
| `CacheAndBankAgree`, `VisitedPagesAreIndexed` | `CacheAgreesWithBank`, `VisitedIsIndexed`, under an assumption each, see below |
| `CrawledBreadthFirst` | `BreadthFirstCoverage`, for one worker whose queue never fills up |
| *rate limiter*: `LimiterInvariant`, `RequestsArePaid`, `TokensSentSafely`, `BurstsAreOfTwo` | the inductive invariant `LimiterInv`; `PaidRequests`, `SendsSafe`, `BurstOfTwo` |
| *embedding queue and lifecycle*: `LifecycleInvariant`, `AnswersAreOwn`, `ClosedMetOnlyAtTheEnd`, `NothingIsLost` | the inductive invariant `LifecycleInv`; `AnswersMatch`, `SendsAfterClose`, `NothingLost` |
| *index*: `IndexInvariant`, `PostingsLeadToDocuments`, `SuggestionsAreSound`, `IndexedPagesAreFound` | the inductive invariant `IndexInv`; `PostingsHaveDocument`, `SuggestionsSound`, `IndexedIsSearchable` |
| *search*: `SearchInvariant`, `ScoresAreComplete`, `PromotedInGroup` | the inductive invariant `ListInv`; `ScoresComplete`, `PromotedWithinGroup` |
| `FeaturesAreExact` | `FeaturesExact`, from the invariant `FeaturesInv` |

In each module there is one lemma per action, or per group of actions that disturb the
same parts, and lemmas about what an operation does to the piece of data it changes.
None of the properties is inductive as it stands.  What they need:

**Worker pool.**  That `wg = 0` excludes outstanding tasks needs `CountsOutstanding`
(the WaitGroup is the number of tasks offered, queued or running), which in turn needs
each task to be in exactly one place (`QueueHoldsQueued`, `StacksHoldRunning`,
`OffersHoldOffered`): if a task were in the queue twice, two `Done` would follow one
`Add`.  That nobody submits after the join needs `OnlyActiveThreadsHold` (a thread can
submit only from a task on its stack, which is itself outstanding), and that the
cleaner's release comes late needs `ClosedAfterJoin`.  The refinement uses `PoolInv` on
both sides of a step: `Join` is enabled in `TaskPool` because the counter counts.

**Cache.**  `ListInv` says that there is a sequence of nodes, without repetition and no
longer than the capacity, which `next` leads over, `prev` leads back over (`Chained`)
and the map holds, each node under its key (`Held`).  `OneWalk` shows by induction that
pointers lead over one sequence only, so that `NodesFrom` is that sequence.  `remove` of
the p-th node cuts it out (`CutChained`, `CutHeld`), `insert` puts a node in front
(`FrontChained`, `FrontHeld`).  `len(lru.mp)` is the length of the sequence (`SizeIs`, a
bijection between places and keys), so that the node before the tail is evicted exactly
when the abstract cache drops its last entry.  `GetStep` and `PutStep` carry this over
to the entries.

**Crawl.**  The invariant has layers, each proved with the ones before it:

1. `CallsInv`: types, and the shape of the stacks.  Only a call that submits can have
   another one above it, and calls beyond the depth check are within the depth.
2. `LinksInv`: a link list, wherever it is (a call, the cache, the bank), holds links of
   the page it is kept for (`StoreTraced`), and a task, wherever it is, has the length of
   a path as its depth (`PoolTraced`, `StartTraced`, `MarksTraced`).  `DepthSound` alone
   says nothing of the lists from which depths are derived.
3. `VisitsInv`: between `LoadOrStore` and the end of `fetchHTMLcontent` a key has one call
   (`OneVisitor`), a request was made only for a key with a mark and before the visitor
   comes past the fetch (`OneRequest`), and a mark that is on disk is the one in memory
   (`MarksSaved`), though not every mark is on disk when a run is over.
4. On these: `LimitersInv` (a call between its prelude and its request finds a limiter),
   `BankInv` (a call that comes to save its links has stored its document), `CacheInv`
   (an entry of the cache is for a visited page; what the visitor has cached is what it
   will save) and `IndexedInv` (a marked page is indexed or its visitor is still at work).

A step is seen by where it takes the innermost call of its thread, while all the other
threads keep theirs (`Others`).  Three theorems have an assumption.  `CacheAndBankAgree`
assumes that the process does not die (`~Crashes`) and that no mark fails to be saved
(`"save" \notin Faults`): otherwise the links of a page may be in the bank though its mark
was never saved, and the next run, which visits the page again, caches another list (links
visited by then are filtered from it).
`VisitedPagesAreIndexed` assumes one session where interrupts are possible: marks that
an interrupted run saved are marks without documents in the next, which `VisitedIsIndexed`,
stated of a run that was itself not interrupted, does not excuse.

`CrawledBreadthFirst` is about all pages together, and about a crawl in which no timing is
left: `Workers = {w}`, one session, and `[]HasRoom`, so that no task is run by its submitter.
Its invariant `LevelsInv` has three parts:

- `Alone`: the worker has one call at a time and Run has none, and no task carries rules,
  so that no link is left out for them;
- `TurnsInv`: the depths of what is in the queue ascend, and are at most one more than that
  of the page the worker is at (`InOrder`); hence no mark is deeper than a task yet to come
  (`MarksFirst`), and no page is found again nearer to the start (`WalksOnce`: `lookup` and
  `bank` are never reached);
- `CoverInv`: of a marked page, each link leads to a page that is marked, or queued, at one
  level more at most, or is among those the worker has yet to do with
  (`LinksReached`, `Coming`).  When nothing is under way, induction over the levels gives that
  every page of them is marked (`EndLevels`).

The theorem takes two assumptions about the web.  `SpellingsAlike`: URLs of one key are
of one page, with the same links, since the crawler looks at one spelling only.
`StartsApart`: there is an `origin` of pages that links keep and start URLs do not share, as
the site is with `only_same_domain`.  Otherwise the order is not that of the levels:
Run submits a start URL at depth 0 when the worker may be several levels down from another one.
The run `CrawlSafety` checks `BreadthFirstCoverage` as `CoverageInTurn`, of two workers that
happen to take turns; its web has the first of the two, and two start URLs of one page.

**Rate limiter.**  That bursts are of two relates a token to the tick it came from: `Spaced`
says that the time since the last request and the gap before it add up to the age of the
last tick, and to a whole delay when a token lies ready.  `PaidRequests` needs
`VisitsHaveLimiter` and `ShutdownInOrder`.

**Embedding queue and lifecycle.**  That callers get their own answers needs every request
to be in one place, the queue or the batch (`InOnePlace`), with both its channels empty
while it is there (`PlacedUnanswered`), and the vectors in hand to be those of the first
requests of the batch (`VectorsInOrder`).  Who can meet a closed channel follows from how
far main has come when it is closed (`ClosedInOrder`) and who can be at work then
(`WorkInPlace`).

**Index.**  That an indexed page stays to be found needs to know of each round of
`IndexNGrams` that is past that its word is kept: in a numbered chunk of this session,
in the buffer, or dropped by a failed flush (`CallComplete`, `Kept`).

**Search.**  `GoroutinesInv` says of the goroutines what holds between their steps: which
document each is at (`WordsInPlace`), that the counts of a document are the sum over the
words that have come past `Score` with it (`CountsAdded`), that the list has no
repetition and is for the documents some word is through with (`ListedOnce`), and that
nobody is at work before the query is read or once the list is sorted (`EndsInOrder`).
`ListInv` adds that the loop over the groups only changes the order of what was sorted (`ListPermuted`), and that groups
it has passed have at most the first and one other exchanged while the others are
untouched (`GroupsPromoted`).  That two places of a list belong to one group exactly when
they are a multiple of the width apart is arithmetic that the provers are led through
(`Remainder`, `SameGroup`, `GroupsApart`).

`FeaturesExact` compares algorithms with what they are for (the stretch for the lists of
positions they are given, which in the code are all of one word; section 6).  The library's induction
theorems are out of reach, and a recursive function is by definition one that TLA+
chooses, if there is any.  `SetInduction` says instead of an operator of a *set* that has 0
and every successor that it has all numbers, and follows from the well-foundedness of
`<`; with it each lemma first shows that there is a function as described, and that it
gives what is claimed:

- `TotalIs`, `SumUnique`, `SumAnyOrder`: a sum over a set does not depend on the order in which
  its elements are chosen, so that a word may be taken out of it (`TotalOneMore`);
- `SearchIs`, `bsIs`: for ascending positions the binary search returns how many are not
  above the target;
- `ChainEndIs`, `LeastIs`, `ShortestFound`: of all chains from one start, that which takes the
  next possible position of each word ends first, so that the least of its lengths is
  that of the shortest stretch, or `MaxInt` with it;
- `SeekExists`, `SoughtIsPart`, `FoundIsPart`: whatever the shifts, a match is a part of the URL.

`SearchAssumption` states what these rest on: positions ascend and are less than `MaxInt`, a
posting has at least one and at most `Count` of them (`IsPosting`; they are numbered by a
counter, `wordHandling.go:37-38`, and cut from the end, `indexRepos.go:124-126`), and no
word of a query is empty (`Spelled`; a stem of `stemmer.go:153` has a letter and
`wordHandling.go:86-88` passes by empty ones).  `Spelled` also says that a part of a string is
determined by its characters, which the prover does not know of strings.

Only model-checked:

- `LinksFollowed`, and `CoverageInTurn` of several workers: which pages have not been left out when several workers are under way is
  an invariant over all the tasks and calls together, as `CoverInv` is for one;
- every liveness property (`EverySubmittedTaskEnds`, `ReturnsOrPanics`, `CrawlEnds`, `RunEnds`,
  `PageVectorEnds`, `SearchEnds`, `QuitEnds`, `SearchReturns`): they depend on fairness
  and `ENABLED`, which are not in reach of the prover;
- `TextIndex` (`TokensExact`, `CorrectionSound`, `KnownWordsFound`, `QueryAnswered`), whose properties
  are about the characters of words: a string is an atom to the provers, they know neither
  its length nor its parts, and `Tokenizer`, `Stemmer` and `SpellChecker` compute with little
  else.

## 6. Where the code and its documentation disagree

Each of these is a run that TLC refutes; `findings` in `PROJECT.json` has the
quotations.

1. `StopReturns`: an interrupted crawl can panic.  The cleaner ranges over `buf`
   until Stop closes it, and then calls `Done` for each worker on a WaitGroup
   that is zero (`workerPool.go:54`); n-grams and visited URLs are not written.
2. `DocumentsAsDescribed`, in two ways.  The parsed rules are assigned to a parameter
   (`sitemapHandling.go:26`) and never reach the links, so that disallowed pages are
   requested and stored, against `README.md:49`.  And the number of documents in
   `README.md:449` counts the levels from 0 to `max_depth`, while the crawl stops one level
   before (`scraper.go:112`).  The run ends with a disallowed page and without the last level.
3. `TextFeaturesDecide`: the sort is said to go mainly by tf-idf and bm25 (`README.md:197`,
   `:341`).  `GetAllDocuments` seeks its format string (`documentRepos.go:109`), the average
   length is 0/0, bm25 is not a number, and the sort looks at neither.

Seen while modelling, and stated where a property would otherwise have been wrong.

In the crawler and its pool:
- a page whose sitemap.xml decodes is neither visited nor indexed, and the links of
  the sitemap go nowhere (`scraper.go:122`, `CoverageInTurn` leaves such pages out);
- Run's closures overwrite the delay that robots.txt has set for the host
  (`scraper.go:97`), and a limiter that is replaced keeps its goroutine for ever;
- the reader of robots.txt stores a rule at the line of its agent, before it has read it
  (`robotsTXT.go:49`): a file of the usual form forbids nothing and has a delay of 0, and
  `MCCrawl` repeats the agent's line to see anything at all.  The scraper's own `userAgent`
  has spaces and can never be an agent of a rule;
- pages that failed or were interrupted stay marked as visited, so that no later run
  fetches them (`VisitedIsIndexed` is claimed for undisturbed crawls);
- a mark whose transaction fails is not saved, and nobody is told (`indexRepos.go:69`): the
  next run requests the page again (`FetchedOnce`);
- with several workers a shallower visit that finds neither cache nor bank gives up, so
  that the depth at which a page counts, and with it where the crawl stops, depends on
  timing (`CoverageInTurn` is claimed of one page at a time, `LinksFollowed` of any crawl);
- a capacity of 0 makes `Put` dereference nil, and the configuration is never validated
  (the assumption of `LRUCache` excludes it).

In the embedding queue and the lifecycle:
- after a failed POST the pages of the batch wait until the crawl is interrupted
  (`vectorizer.go:58`; `PageVectorEnds` and `CrawlEnds` except them), although
  `htmlHandling.go:69` calls that a timeout;
- quitting the interface closes the queue and the log under a crawl that nobody waits
  for, which loses its saves and may panic (`SendsAfterClose`, `NothingLost`);
- main panics when the server's ping, the page rank or the number of documents fails
  (`main.go:80-100`, `:156-167`), and a response with fewer vectors than texts makes the
  batcher panic (`vectorizer.go:71`); the deferred calls run after the first and not after
  the second.  The model has both;
- a log message divides by zero while the log of the interface has no width (`tui.go:152`):
  before the first message about the size of the window, and in a window of one or two
  columns; the "q" of a query quits the interface (`tui.go:178`); at the end of its
  input the console searches for the empty string for ever (`main.go:110`).

In what is stored:
- a second run overwrites n-gram chunks of the first, since their numbers start again
  (`chunkRepos.go:92`), although `README.md:90` says that all n-grams are written: what
  `IndexedIsSearchable` claims ends with the session;
- the content check never finds anything (`documentRepos.go:171`, `:179`), and would lock
  `ir.mu` twice if it did; the page rank is never loaded, for the iterator of
  `LoadPageRank` is not rewound (`indexRepos.go:93`).

In the search:
- the proximity is called the least length of the sequence of the query's words
  (`README.md:265`) and is computed of one word with itself, of whichever comes first
  (`searcher.go:129`); no property claims either;
- more occurrences of a word than the 500 positions kept make the loop over `Count` panic unless one is in a header (`:142`);
- a word in a URL may be missed after a partial match (`preprocessingFeatures.go:152`);
- `CallRankModel` cancels its context before the body of the answer is read, so that the
  ranking may fail at any group (`vectorizer.go:77`, `RankFails`);
- the stem of a word may change from call to call, with the order of the rules
  (`stemmer.go:174`; `KnownWordsFound` is claimed for words with one stem);
- behind as many numbers or addresses a misspelt word is not corrected
  (`wordHandling.go:75`), the first candidate within the limit is taken and not the
  nearest (`spellChecker.go:30`), and a token with "_" makes queries for its first part fail
  (`indexRepos.go:157`; `QueryAnswered` excepts them, as it does errors of the database,
  which end the query at any of its tokens).

## 7. Not modelled, and the plan

Not modelled: the rendering of the interface; reading and validating the
configuration; the HTML and XML decoders, regular expressions, and requests to
web sites, of which outcomes are constants; the neural models; arithmetic on
floating-point numbers (cosine, distance, bm25), of which `Search` keeps the
comparisons; `CheckContent` and the page rank, which no other part can tell from
doing nothing; errors of opening files and the database, which end the program
before it begins.

Nothing is left of the plan.  What could come next is a proof of `LinksFollowed`, with the
invariant over the tasks and calls of several workers that it needs.
