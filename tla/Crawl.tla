------------------------------- MODULE Crawl -------------------------------
(***************************************************************************)
(* The crawler: WebScraper.Run and ScrapeWithContext with what they call   *)
(* in scraper.go, htmlHandling.go and sitemapHandling.go, over the state   *)
(* they share (visited, lru, rlMap) and the state they persist (the bank   *)
(* of links, the documents, the visited URLs).                             *)
(*                                                                         *)
(* The worker pool is used as TaskPool.tla describes it, in the order of   *)
(* its channel: a task goes to a FIFO queue, or onto the caller's stack    *)
(* when the queue is full; Wait returns when no task is left.  One thread  *)
(* step is one access to shared state.                                     *)
(*                                                                         *)
(* Pages are constants: which links a page has, how the URLs normalise,    *)
(* what robots.txt and sitemap.xml answer.  What may fail is chosen by     *)
(* Faults; a failure is possible at every step it names.                   *)
(*                                                                         *)
(* Definitions marked Variant are faulty forms of a definition below them, *)
(* which the properties tell apart; the specification does not use them.   *)
(***************************************************************************)
EXTENDS Naturals, Sequences, FiniteSets, Recency

CONSTANTS
  URLs,            \* absolute URLs, as makeAbsoluteURL returns them
  Keys,            \* normalised URLs (and their hashes)
  Hosts,
  Key,             \* Key[u] = normalizeUrl(u)
  Host,            \* Host[u] = u.Host
  Links,           \* Links[u]: the hrefs of page u, in document order
  SameOrigin,      \* <<link, base>> for which isSameOrigin holds
  Sitemaps,        \* URLs whose sitemap.xml is fetched and decoded without error
  Disallowed,      \* URLs that the robots.txt of their site disallows
  RobotsDelay,     \* RobotsDelay[u]: crawl delay found by FetchRobotsTxt, or None
  StartURLs,       \* cfg.StartURLs
  MaxDepth,        \* cfg.Depth
  CacheCapacity,   \* cfg.CacheCap
  OnlySameDomain,  \* cfg.OnlySameDomain
  Workers, Main,   \* goroutines of the pool, and the goroutine of Run
  QueueCapacity,   \* capacity of the pool's channel
  Faults,          \* subset of {"timeout", "fetch", "index", "vector", "bank", "save"}
  Interrupts,      \* whether the global context may be cancelled
  Sessions,        \* how many times the program is started
  Crashes,         \* whether the process may die at any point
  None

DefaultDelay == 3

Threads == Workers \cup {Main}

ASSUME CrawlAssumption ==
  /\ Key \in [URLs -> Keys] /\ Host \in [URLs -> Hosts]
  /\ Links \in [URLs -> Seq(URLs)]
  /\ Sitemaps \subseteq URLs /\ Disallowed \subseteq URLs
  /\ RobotsDelay \in [URLs -> Nat \cup {None}]
  /\ StartURLs \in Seq(URLs)
  /\ MaxDepth \in Nat /\ CacheCapacity \in Nat \ {0} /\ QueueCapacity \in Nat \ {0}
  /\ Sessions \in Nat \ {0}
  /\ {OnlySameDomain, Interrupts, Crashes} \subseteq BOOLEAN
  /\ Faults \subseteq {"timeout", "fetch", "index", "vector", "bank", "save"}
  /\ Main \notin Workers
  /\ None \notin Nat /\ None \notin URLs

VARIABLES
  visited,    \* WebScraper.visited: depth of the first visit of a key, or None
  lru,        \* WebScraper.lru: link lists, most recently used first
  rlMap,      \* WebScraper.rlMap: delay of a host's limiter, or None
  queue,      \* tasks in the pool's channel
  stack,      \* stack[th]: calls of ScrapeWithContext on thread th, innermost first
  mpc,        \* where Run and the deferred saves of Index are
  todo,       \* start URLs not submitted yet
  cancelled,  \* globalCtx is done
  bank,       \* on disk: links saved by SaveUrlsToBank (<<>>: no entry)
  docs,       \* on disk: keys of the documents saved
  saved,      \* on disk: visited URLs with their depth, or None
  fetched,    \* history: requests for a page of that key in the running session
  session     \* history: number of the running session

memory == <<visited, lru, rlMap>>
disk   == <<bank, docs, saved>>
pool   == <<queue, stack>>
run    == <<mpc, todo, session>>
vars   == <<memory, disk, pool, run, cancelled, fetched>>

\* linkToken: a link and whether it was on the same site as the page it is on.
Tokens == [link : URLs, same : BOOLEAN]

Depths == 0..MaxDepth

\* A closure given to Submit; first: it is one of Run's.
Tasks == [url : URLs, depth : Depths, rules : {None} \cup Hosts, first : BOOLEAN]

\* A call of ScrapeWithContext.  hrefs: still to be parsed; links, deeper: the two
\* lists of parseHTMLStream, links then being the list that is submitted.
Frames == [task : Tasks,
           pc : {"enter", "rules", "visit", "lookup", "bank", "fetch", "parse",
                 "index", "lost", "save", "submit"},
           hrefs : Seq(URLs), links : Seq(Tokens), deeper : Seq(Tokens)]

\* What the cache holds.
Entries == [key : Keys, value : Seq(Tokens) \ {<<>>}]

Call(t) == [task |-> t, pc |-> "enter", hrefs |-> <<>>, links |-> <<>>, deeper |-> <<>>]

TypeOK ==
  /\ visited \in [Keys -> (0..(MaxDepth - 1)) \cup {None}]
  /\ lru \in Seq(Entries) /\ Len(lru) <= CacheCapacity
  /\ rlMap \in [Hosts -> Nat \cup {None}]
  /\ queue \in Seq(Tasks) /\ Len(queue) <= QueueCapacity
  /\ stack \in [Threads -> Seq(Frames)]
  /\ mpc \in {"submit", "saving", "done"}
  /\ todo \in Seq(URLs)
  /\ cancelled \in BOOLEAN
  /\ bank \in [Keys -> Seq(Tokens)] /\ docs \subseteq Keys
  /\ saved \in [Keys -> (0..(MaxDepth - 1)) \cup {None}]
  /\ fetched \in [Keys -> Nat]
  /\ session \in 1..Sessions

Init ==
  /\ visited = [k \in Keys |-> None] /\ lru = <<>> /\ rlMap = [h \in Hosts |-> None]
  /\ queue = <<>> /\ stack = [th \in Threads |-> <<>>]
  /\ mpc = "submit" /\ todo = StartURLs
  /\ cancelled = FALSE
  /\ bank = [k \in Keys |-> <<>>] /\ docs = {} /\ saved = [k \in Keys |-> None]
  /\ fetched = [k \in Keys |-> 0] /\ session = 1
-----------------------------------------------------------------------------
(* The pool, as the crawler sees it *)

HasRoom == Len(queue) < QueueCapacity

\* Submit(t) by thread th, whose own call has become calls: to the queue, or run
\* on the spot.
Submit(th, t, calls) ==
  IF HasRoom
  THEN queue' = Append(queue, t) /\ stack' = [stack EXCEPT ![th] = calls]
  ELSE stack' = [stack EXCEPT ![th] = <<Call(t)>> \o calls] /\ UNCHANGED queue

\* Variant: the workers of a cancelled pool take no more tasks.
MayTakeUncancelled(w) == stack[w] = <<>> /\ queue # <<>> /\ ~cancelled

MayTake(w) == stack[w] = <<>> /\ queue # <<>>

\* A worker receives the next task.
TakeTask(w) ==
  /\ MayTake(w)
  /\ queue' = Tail(queue)
  /\ stack' = [stack EXCEPT ![w] = <<Call(Head(queue))>>]
  /\ UNCHANGED <<memory, disk, run, cancelled, fetched>>

\* Variant: the cleaner does not wait for the context to end.
DropTaskEarly ==
  /\ queue # <<>>
  /\ queue' = Tail(queue)
  /\ UNCHANGED <<memory, disk, stack, run, cancelled, fetched>>

\* The cleaner of a cancelled pool throws the next task away.
DropTask ==
  /\ cancelled /\ queue # <<>>
  /\ queue' = Tail(queue)
  /\ UNCHANGED <<memory, disk, stack, run, cancelled, fetched>>

Idle == queue = <<>> /\ \A th \in Threads : stack[th] = <<>>
-----------------------------------------------------------------------------
(* ScrapeWithContext *)

At(th, pc) == stack[th] # <<>> /\ Head(stack[th]).pc = pc

Top(th) == Head(stack[th])
Page(th) == Top(th).task.url

Goto(th, frame) ==
  /\ stack' = [stack EXCEPT ![th] = <<frame>> \o Tail(@)]
  /\ UNCHANGED queue

Return(th) ==
  /\ stack' = [stack EXCEPT ![th] = Tail(@)]
  /\ UNCHANGED queue

\* checkContext: the task's context ends with the global one or by its deadline.
MayEnd == cancelled \/ "timeout" \in Faults

May(fault) == fault \in Faults \/ cancelled

\* Variant: the depth check lets one level more through.
TooDeepLate(t) == t.depth > MaxDepth

TooDeep(t) == t.depth >= MaxDepth

\* Variant: only Run gives limiters to hosts.
NeedsLimiterOfRun(t) == t.first

NeedsLimiter(t) == t.first \/ rlMap[Host[t.url]] = None

\* The closure's prelude gives the host a limiter: Run's closures always a new one,
\* the others only if there is none.  Then the context and depth checks.
Enter(th) ==
  LET t == Top(th).task
  IN  /\ At(th, "enter")
      /\ rlMap' = IF NeedsLimiter(t)
                  THEN [rlMap EXCEPT ![Host[t.url]] = DefaultDelay] ELSE rlMap
      /\ \/ /\ MayEnd \/ TooDeep(t)
            /\ Return(th)
         \/ /\ ~cancelled /\ ~TooDeep(t)
            /\ Goto(th, [Top(th) EXCEPT !.pc = "rules"])
      /\ UNCHANGED <<visited, lru, disk, run, cancelled, fetched>>

\* A crawl delay found in robots.txt replaces a missing or a default limiter.
LimiterFor(h, delay) ==
  IF rlMap[h] \in {None, DefaultDelay} /\ delay > 0 THEN delay
  ELSE IF rlMap[h] = None THEN DefaultDelay ELSE rlMap[h]

\* fetchPageRulesAndOffers: robots.txt may replace the limiter, and the rules that
\* were parsed are assigned to a parameter that the caller never sees.  A sitemap
\* that decodes ends the call, whatever links it lists.
FetchRules(th) ==
  LET u == Page(th)
      h == Host[u]
  IN  /\ At(th, "rules")
      /\ \/ /\ RobotsDelay[u] # None
            /\ rlMap' = [rlMap EXCEPT ![h] = LimiterFor(h, RobotsDelay[u])]
         \/ /\ RobotsDelay[u] = None \/ May("fetch")
            /\ UNCHANGED rlMap
      /\ \/ /\ u \in Sitemaps \/ MayEnd
            /\ Return(th)
         \/ /\ u \notin Sitemaps \/ "fetch" \in Faults
            /\ ~cancelled
            /\ Goto(th, [Top(th) EXCEPT !.pc = "visit"])
      /\ UNCHANGED <<visited, lru, disk, run, cancelled, fetched>>

\* visited.LoadOrStore(normalized, depth)
LoadOrStore(k, d) == IF visited[k] = None THEN d ELSE visited[k]

\* Variant: a page seen at a greater depth is requested again.
FreshAgain(k, d) == IF visited[k] = None THEN TRUE ELSE visited[k] > d

Fresh(k, d) == visited[k] = None

\* The first visit requests the page, one at a smaller depth than the first looks
\* for its links, any other returns.
Visit(th) ==
  LET k == Key[Page(th)]
      d == Top(th).task.depth
  IN  /\ At(th, "visit")
      /\ visited' = [visited EXCEPT ![k] = LoadOrStore(k, d)]
      /\ \/ Fresh(k, d) /\ Goto(th, [Top(th) EXCEPT !.pc = "fetch"])
         \/ visited[k] # None /\ visited[k] <= d /\ Return(th)
         \/ visited[k] # None /\ visited[k] > d /\ Goto(th, [Top(th) EXCEPT !.pc = "lookup"])
      /\ UNCHANGED <<lru, rlMap, disk, run, cancelled, fetched>>

Submitting(frame, links) ==
  [frame EXCEPT !.pc = "submit", !.hrefs = <<>>, !.deeper = <<>>, !.links = links]

\* A page seen at a greater depth before: its links come from the cache ...
LookupCache(th) ==
  LET k == Key[Page(th)]
  IN  /\ At(th, "lookup")
      /\ \/ /\ Has(lru, k)
            /\ lru' = AfterGet(lru, k)
            /\ Goto(th, Submitting(Top(th), Lookup(lru, k)))
         \/ /\ ~Has(lru, k)
            /\ Goto(th, [Top(th) EXCEPT !.pc = "bank"])
            /\ UNCHANGED lru
      /\ UNCHANGED <<visited, rlMap, disk, run, cancelled, fetched>>

\* GetPageUrlsByHash: no links, for want of an entry or because the read fails, or
\* all that were saved.
SavedLinks(k) == {bank[k]} \cup (IF "bank" \in Faults THEN {<<>>} ELSE {})

\* ... or from the bank, and are cached again; with neither the call returns.
LookupBank(th) ==
  LET k == Key[Page(th)]
  IN  /\ At(th, "bank")
      /\ \/ \E links \in SavedLinks(k) \ {<<>>} :
              /\ lru' = AfterPut(lru, k, links, CacheCapacity)
              /\ Goto(th, Submitting(Top(th), links))
         \/ /\ <<>> \in SavedLinks(k)
            /\ Return(th)
            /\ UNCHANGED lru
      /\ UNCHANGED <<visited, rlMap, disk, run, cancelled, fetched>>

\* getHTML: waits for the limiter, asks for the page, and on success starts
\* parseHTMLStream.
Fetch(th) ==
  LET u == Page(th)
  IN  /\ At(th, "fetch")
      /\ fetched' = [fetched EXCEPT ![Key[u]] = @ + 1]
      /\ \/ May("fetch") /\ Return(th)
         \/ ~cancelled
            /\ Goto(th, [Top(th) EXCEPT !.pc = "parse", !.hrefs = Links[u]])
      /\ UNCHANGED <<memory, disk, run, cancelled>>

\* One href of parseHTMLStream: links not visited go to links, links visited at a
\* depth greater than this page's to deeper, the others are forgotten.
ParseLink(th) ==
  LET frame == Top(th)
      u     == Page(th)
      link  == Head(frame.hrefs)
      token == [link |-> link, same |-> <<link, u>> \in SameOrigin]
      seen  == visited[Key[link]]
      rest  == [frame EXCEPT !.hrefs = Tail(@)]
      denied == frame.task.rules # None /\ link \in Disallowed
  IN  /\ At(th, "parse") /\ frame.hrefs # <<>>
      /\ \/ /\ ~denied /\ seen = None
            /\ Goto(th, [rest EXCEPT !.links = Append(@, token)])
         \/ /\ ~denied /\ seen # None /\ seen > frame.task.depth
            /\ Goto(th, [rest EXCEPT !.deeper = Append(@, token)])
         \/ /\ denied \/ (seen # None /\ seen <= frame.task.depth)
            /\ Goto(th, rest)
      /\ UNCHANGED <<memory, disk, run, cancelled, fetched>>

\* Variant: a page without links is left before it is indexed.
AfterParseLinked(links) == IF links = <<>> THEN "submit" ELSE "index"

\* Variant: the links are saved before the page is indexed.
AfterParseSaving(links) == "save"

AfterParse(links) == "index"

\* The end of the page, or of the context in the middle of it: the list is cached.
EndParse(th) ==
  LET frame == Top(th)
      links == frame.links \o frame.deeper
  IN  /\ At(th, "parse")
      /\ frame.hrefs = <<>> \/ MayEnd
      /\ lru' = IF links = <<>> THEN lru
                ELSE AfterPut(lru, Key[Page(th)], links, CacheCapacity)
      /\ Goto(th, [frame EXCEPT !.pc = AfterParse(links), !.hrefs = <<>>,
                                !.links = links, !.deeper = <<>>])
      /\ UNCHANGED <<visited, rlMap, disk, run, cancelled, fetched>>

\* IsCrawledContent, the embedding and HandleDocumentWords.  A failure may come
\* before or after the document is stored; a page without links ends the call.  The
\* embedding server may take the page and never answer for it: vectorize returns after
\* a failed POST without sending to the page's channel or closing it.
Index(th) ==
  LET frame == Top(th)
      k     == Key[Page(th)]
  IN  /\ At(th, "index")
      /\ \/ /\ docs' = docs \cup {k}
            /\ IF frame.links = <<>> THEN Return(th)
               ELSE Goto(th, [frame EXCEPT !.pc = "save"])
         \/ /\ May("index")
            /\ docs' \in {docs} \cup (IF "index" \in Faults THEN {docs \cup {k}} ELSE {})
            /\ Return(th)
         \/ /\ "vector" \in Faults
            /\ Goto(th, [frame EXCEPT !.pc = "lost"])
            /\ UNCHANGED docs
      /\ UNCHANGED <<memory, bank, saved, run, cancelled, fetched>>

\* The page whose vector does not come waits until the crawl is interrupted.
Abandon(th) ==
  /\ At(th, "lost") /\ cancelled
  /\ Return(th)
  /\ UNCHANGED <<memory, disk, run, cancelled, fetched>>

\* Variant: only the links of the page's own site are saved.
BankedOfSite(frame) == LET Same(token) == token.same IN SelectSeq(frame.links, Same)

Banked(frame) == frame.links

\* SaveUrlsToBank
SaveLinks(th) ==
  LET frame == Top(th)
  IN  /\ At(th, "save")
      /\ \/ /\ bank' = [bank EXCEPT ![Key[Page(th)]] = Banked(frame)]
            /\ Goto(th, Submitting(frame, frame.links))
         \/ /\ "bank" \in Faults
            /\ Return(th)
            /\ UNCHANGED bank
      /\ UNCHANGED <<memory, docs, saved, run, cancelled, fetched>>

\* Variant: the depth of the page is passed on to its links.
SameDepth(frame) == frame.task.depth

Deeper(frame) == frame.task.depth + 1

\* The loop that submits skips links that leave the site when it must stay on it.
Followed(token) == ~OnlySameDomain \/ token.same

\* It comes to the i-th link next.
FollowedFirst(links, i) == Followed(links[i]) /\ \A j \in 1..(i - 1) : ~Followed(links[j])

TaskFor(frame, token) ==
  [url |-> token.link, depth |-> Deeper(frame),
   rules |-> IF token.same THEN frame.task.rules ELSE None, first |-> FALSE]

\* One round of the submitting loop: the rules go along on the same site only.
SubmitLink(th) ==
  LET frame == Top(th)
      after(i) == [frame EXCEPT !.links = SubSeq(@, i + 1, Len(@))]
  IN  /\ At(th, "submit")
      /\ \E i \in 1..Len(frame.links) :
           /\ FollowedFirst(frame.links, i)
           /\ Submit(th, TaskFor(frame, frame.links[i]), <<after(i)>> \o Tail(stack[th]))
      /\ UNCHANGED <<memory, disk, run, cancelled, fetched>>

SubmittedAll(th) ==
  /\ At(th, "submit") /\ \A i \in 1..Len(Top(th).links) : ~Followed(Top(th).links[i])
  /\ Return(th)
  /\ UNCHANGED <<memory, disk, run, cancelled, fetched>>
-----------------------------------------------------------------------------
(* Run, the deferred saves of Index, and the process around them *)

SubmitStart ==
  /\ mpc = "submit" /\ stack[Main] = <<>> /\ todo # <<>>
  /\ Submit(Main, [url |-> Head(todo), depth |-> 0, rules |-> None, first |-> TRUE], <<>>)
  /\ todo' = Tail(todo)
  /\ UNCHANGED <<memory, disk, mpc, session, cancelled, fetched>>

\* pool.Wait() returns; Stop follows and changes nothing here.
Wait ==
  /\ mpc = "submit" /\ todo = <<>> /\ Idle
  /\ mpc' = "saving"
  /\ UNCHANGED <<memory, disk, pool, todo, session, cancelled, fetched>>

\* SaveVisitedUrls: one transaction per entry of visited, in no particular order.  The
\* error of a transaction is ignored: the mark is not saved and the loop goes on.
Unsaved == {k \in Keys : visited[k] # None /\ saved[k] # visited[k]}

SaveVisited ==
  /\ mpc = "saving"
  /\ \/ \E k \in Unsaved : saved' = [saved EXCEPT ![k] = visited[k]] /\ UNCHANGED mpc
     \/ (Unsaved = {} \/ "save" \in Faults) /\ mpc' = "done" /\ UNCHANGED saved
  /\ UNCHANGED <<memory, bank, docs, pool, todo, session, cancelled, fetched>>

Cancel ==
  /\ Interrupts /\ ~cancelled /\ mpc = "submit"
  /\ cancelled' = TRUE
  /\ UNCHANGED <<memory, disk, pool, run, fetched>>

\* Variant: LoadVisitedUrls is not called.
LoadedNothing == [k \in Keys |-> None]

Loaded == saved

\* The program is started again, after its end or after a crash: what is in memory
\* is gone and LoadVisitedUrls reads what was saved.
Restart ==
  /\ session < Sessions
  /\ mpc = "done" \/ Crashes
  /\ session' = session + 1 /\ fetched' = [k \in Keys |-> 0]
  /\ visited' = Loaded /\ lru' = <<>> /\ rlMap' = [h \in Hosts |-> None]
  /\ queue' = <<>> /\ stack' = [th \in Threads |-> <<>>]
  /\ mpc' = "submit" /\ todo' = StartURLs /\ cancelled' = FALSE
  /\ UNCHANGED disk

ScrapeStep(th) ==
  \/ Enter(th) \/ FetchRules(th) \/ Visit(th)
  \/ LookupCache(th) \/ LookupBank(th)
  \/ Fetch(th) \/ ParseLink(th) \/ EndParse(th)
  \/ Index(th) \/ Abandon(th) \/ SaveLinks(th)
  \/ SubmitLink(th) \/ SubmittedAll(th)

RunStep == SubmitStart \/ Wait \/ SaveVisited

Finished == mpc = "done" /\ UNCHANGED vars

Next ==
  \/ \E th \in Threads : ScrapeStep(th)
  \/ \E w \in Workers : TakeTask(w)
  \/ RunStep
  \/ DropTask \/ Cancel
  \/ Restart
  \/ Finished

Spec == Init /\ [][Next]_vars

\* Goroutines that can run do run; requests and the store return, with an answer or an
\* error.  The embedding may not come back at all (Abandon waits for an interrupt).
Fairness ==
  /\ \A th \in Threads : WF_vars(ScrapeStep(th))
  /\ \A w \in Workers : WF_vars(TakeTask(w))
  /\ WF_vars(RunStep)

FairSpec == Spec /\ Fairness
-----------------------------------------------------------------------------
(* Properties *)

\* However many calls reach a page at the same time, under whatever spelling of
\* its URL, at most one of a run requests it: LoadOrStore decides.  None does in a run
\* that found the page's mark on disk.  (A mark that was not saved, because its
\* transaction failed or the process died, does not keep the next run from it.)
FetchedOnce ==
  \A k \in Keys : /\ fetched[k] <= 1
                  /\ mpc = "submit" /\ saved[k] # None => fetched[k] = 0

\* Keys of the pages that lie n links away from a start URL, following the links
\* that the configuration lets the crawler follow and no link of a page that is
\* always skipped because its sitemap.xml decodes.
LinksOf(k) == UNION {{Links[u][i] : i \in 1..Len(Links[u])} : u \in {v \in URLs : Key[v] = k}}

Leads ==
  {<<Key[p[1]], Key[p[2]]>> : p \in
     {q \in URLs \X URLs : /\ \E i \in 1..Len(Links[q[1]]) : Links[q[1]][i] = q[2]
                           /\ q[1] \notin Sitemaps \/ "fetch" \in Faults
                           /\ ~OnlySameDomain \/ <<q[2], q[1]>> \in SameOrigin}}

Level[n \in Depths] ==
  IF n = 0
  THEN {Key[StartURLs[i]] : i \in 1..Len(StartURLs)}
  ELSE {p[2] : p \in {q \in Leads : q[1] \in Level[n - 1]}}

\* The depth stored for a page is the length of a path of links that leads to it,
\* although link lists are cached, saved, filtered by what was visited when they
\* were parsed, and reused from other depths and in later runs.
DepthSound ==
  \A k \in Keys : visited[k] # None => k \in Level[visited[k]]

\* A page's links are in the bank only when its document is stored, and what the
\* bank or the cache holds for a page are links of that page: a rewalk never
\* follows the links of a page that was not indexed, or of another page.
BankSound ==
  /\ \A k \in Keys : bank[k] # <<>> => k \in docs
  /\ \A k \in Keys : \A i \in 1..Len(bank[k]) : bank[k][i].link \in LinksOf(k)
  /\ \A i \in 1..Len(lru) : \A j \in 1..Len(lru[i].value) :
       lru[i].value[j].link \in LinksOf(lru[i].key)

\* The cache and the bank agree on a page both know, so that it does not matter to
\* a rewalk whether the entry was evicted (as long as the process does not die); and
\* neither holds an empty list or the cache more than its capacity (TypeOK).
CacheAgreesWithBank ==
  /\ TypeOK
  /\ \A i \in 1..Len(lru) : bank[lru[i].key] \in {<<>>, lru[i].value}

\* getHTML calls GetToken on the limiter of the page's host without a nil check:
\* there is one whenever a page is about to be requested.
LimiterPresent ==
  \A th \in Threads : At(th, "fetch") => rlMap[Host[Page(th)]] # None

Undisturbed == Faults = {} /\ ~cancelled

\* When Run is over, every page marked as visited has its document stored: the
\* mark, set before the page is requested, is not ahead of the index.
VisitedIsIndexed ==
  mpc # "submit" /\ Undisturbed => \A k \in Keys : visited[k] # None => k \in docs

\* One worker and a queue that never fills up crawl breadth-first from start URLs
\* that do not lead to one another: what is indexed is every page within
\* MaxDepth - 1 links of a start URL and nothing else, each at its least depth, but
\* for the pages that are skipped because their sitemap.xml decodes.
Skipped == {Key[u] : u \in Sitemaps}

BreadthFirstCoverage ==
  mpc # "submit" /\ Undisturbed =>
    /\ docs = (UNION {Level[d] : d \in 0..(MaxDepth - 1)}) \ Skipped
    /\ \A d \in 0..(MaxDepth - 1) : \A k \in Level[d] \ Skipped : visited[k] <= d

\* Whatever the timing of the workers, no link that may be followed is left out next to
\* a page that was crawled above the last level: the list of the page, filtered by what
\* others had visited when it was parsed, is submitted in full.  (How deep a page counts
\* does depend on timing, and with it where the crawl stops.)
LinksFollowed ==
  mpc # "submit" /\ Undisturbed =>
    \A link \in Leads :
      visited[link[1]] # None /\ visited[link[1]] + 1 < MaxDepth =>
        visited[link[2]] # None \/ link[2] \in Skipped

\* Over interrupted, crashed and complete runs of the program no visited mark is
\* lost from the disk or replaced by that of a longer way to the page.
SavedMarksStay ==
  [][\A k \in Keys : saved[k] # None => saved'[k] # None /\ saved'[k] <= saved[k]]_vars

\* Run returns and SaveVisitedUrls comes to its end, whatever requests, transactions
\* and embeddings fail, when the crawl is interrupted, and after a crash, with one
\* exception: while a page waits for a vector that does not come, the crawl ends only
\* if it is interrupted.
Unanswered == \E th \in Threads : At(th, "lost")

CrawlEnds ==
  []<>(Unanswered => cancelled) => (mpc = "submit" ~> mpc = "done")

\* What the documentation says is in the index after an undisturbed crawl that stays on
\* its sites: the pages of every level from 0 to the maximal depth (README.md:449), on ways
\* over links that robots.txt allows, as links on the same site inherit its rules
\* (README.md:49).
Promised[n \in Depths] ==
  IF n = 0 THEN Level[0]
  ELSE {p[2] : p \in {q \in Leads : q[1] \in Promised[n - 1] /\ q[2] \notin {Key[u] : u \in Disallowed}}}

DocumentsAsDescribed ==
  mpc # "submit" /\ Undisturbed /\ OnlySameDomain =>
    docs = (UNION {Promised[d] : d \in Depths}) \ Skipped
=============================================================================
