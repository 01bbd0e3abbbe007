---------------------------- MODULE MCCrawlTurns ----------------------------
(***************************************************************************)
(* The crawl of MCCrawl, watched for whether two pages have ever been      *)
(* under way at a time.                                                    *)
(***************************************************************************)
EXTENDS MCCrawl

VARIABLE inTurn  \* history: none have

\* At most one thread has a call, and that has no other above it.
OneAtATime ==
  /\ stack[Main] = <<>> /\ \A w \in Workers : Len(stack[w]) <= 1
  /\ \A v, w \in Workers : stack[v] # <<>> /\ stack[w] # <<>> => v = w

WatchedInit == Init /\ inTurn = TRUE

WatchedNext == Next /\ inTurn' = (inTurn /\ OneAtATime')

WatchedSpec == WatchedInit /\ [][WatchedNext]_<<vars, inTurn>>

\* A crawl that went page by page, whichever worker took them, was breadth-first: it has
\* indexed every page within MaxDepth - 1 links of a start URL and nothing else, each at
\* its least depth, but for those skipped for their sitemaps.
CoverageInTurn == inTurn => BreadthFirstCoverage
=============================================================================
