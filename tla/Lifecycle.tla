----------------------------- MODULE Lifecycle -----------------------------
(***************************************************************************)
(* The program from its start to its end: main and initGUI of cmd/app, the *)
(* crawl they run or start (Index), the search, the goroutine that waits   *)
(* for an interrupt, the goroutine of the logger, and the embedding queue  *)
(* of module Vectorizer between them.                                      *)
(*                                                                         *)
(* In the "cli" the crawl is over before the first query is read; in the   *)
(* "gui" it goes on behind the interface, also while that is being left.   *)
(* The end is the deferred calls: Close of the vectorizer, cancel, Close   *)
(* of the database and Close of the logger.  What other goroutines do then *)
(* with a closed channel ends the process.  A panic of main or initGUI runs*)
(* the deferred calls too, so that it is one more way to begin the end;    *)
(* what may panic elsewhere for reasons of its own is left to the modules  *)
(* of that code (the cleaner's counter to WorkerPool, a word's goroutine   *)
(* that runs out of range to Search).                                      *)
(*                                                                         *)
(* The pages of the crawl are the Scrapers, the program's one search at a  *)
(* time is the request of User.  Signals that nothing waits for are left   *)
(* out, among them ^C before the interface is there.                       *)
(*                                                                         *)
(* Definitions marked Variant are faulty forms of a definition below them, *)
(* which the properties tell apart; the specification does not use them.   *)
(***************************************************************************)
EXTENDS Vectorizer

CONSTANTS
  User,         \* the client that searches
  LogCapacity   \* log_channel_size

\* Who may panic.
Panickers == {"sender", "batcher", "crawl", "word", "listener", "interface", "main"}

ASSUME LifecycleAssumption ==
  Searchers = {User} /\ LogCapacity \in Nat \ {0} /\ Nothing \notin Panickers

VARIABLES
  mode,      \* "cli" or "gui"
  main,      \* where main or initGUI is
  pressed,   \* an interrupt is in the channel of the listener
  listener,  \* where the goroutine is that waits for it
  crawl,     \* where Index is
  saved,     \* the saves Index defers have reached the database
  dbOpen,
  own,       \* the goroutines of the words of the search under way have not ended
  left,      \* those of a search that was given up have not ended
  logged,    \* messages in the channel of the logger
  logClosed, \* it is closed
  logger,    \* where the goroutine of the logger is
  sized      \* the log of the interface has a width

crawlVars  == <<crawl, saved>>
searchVars == <<own, left>>
logVars    == <<logged, logClosed, logger>>
signalVars == <<pressed, listener>>
mainVars   == <<mode, main, dbOpen, sized>>
vars == <<vectorizerVars, mainVars, signalVars, crawlVars, searchVars, logVars>>

Init ==
  /\ VectorizerInit
  /\ mode \in {"cli", "gui"} /\ main = "server" /\ dbOpen = TRUE /\ sized = FALSE
  /\ pressed = FALSE /\ listener = "waiting"
  /\ crawl = "none" /\ saved = FALSE
  /\ own = FALSE /\ left = FALSE
  /\ logged = 0 /\ logClosed = FALSE /\ logger = "range"

Alive == main # "exited" /\ panicked = Nothing

Least(a, b) == IF a < b THEN a ELSE b

\* log.Write by who: a message that finds the channel full is dropped, one that finds
\* it closed is a panic.
Write(who) ==
  IF logClosed
    THEN /\ panicked' = who
         /\ UNCHANGED <<logged, docQueue, out, batcherVars, clientVars, expired, cancelled, closed>>
    ELSE logged' = Least(logged + 1, LogCapacity) /\ UNCHANGED vectorizerVars

WriteOnly(who) == Write(who) /\ UNCHANGED <<logClosed, logger>>
-----------------------------------------------------------------------------
(* The logger *)

\* The interface divides the length of a message by the width of its log: that is 0
\* before the first message about the size of the window, and in one of two columns.
\* If bubbletea turns the panic into an error of its Run, initGUI goes on as in Quit.
ShowPanics ==
  /\ mode = "gui" /\ main = "ui" /\ ~sized
  /\ panicked' = "interface"
  /\ UNCHANGED <<docQueue, out, batcherVars, clientVars, expired, cancelled, closed>>

\* In the gui the message goes on to the interface.
LoggerWrites ==
  /\ logger = "range" /\ logged > 0
  /\ logged' = logged - 1
  /\ UNCHANGED vectorizerVars \/ ShowPanics
  /\ UNCHANGED <<mainVars, signalVars, crawlVars, searchVars, logClosed, logger>>

LoggerEnds ==
  /\ logger = "range" /\ logged = 0 /\ logClosed
  /\ logger' = "ended"
  /\ UNCHANGED <<vectorizerVars, mainVars, signalVars, crawlVars, searchVars, logged, logClosed>>
-----------------------------------------------------------------------------
(* The interrupt *)

\* ^C, which the interface sees as a key.  The channel has room for one, and only one
\* is ever taken from it.
Interrupt ==
  /\ mode = "gui" => main = "ui"
  /\ listener = "waiting" /\ ~pressed
  /\ pressed' = TRUE
  /\ UNCHANGED <<vectorizerVars, mainVars, listener, crawlVars, searchVars, logVars>>

\* In the interface "Shutting down..." is logged, in the cli it is printed.
ListenerWakes ==
  /\ listener = "waiting" /\ pressed
  /\ pressed' = FALSE /\ listener' = "cancel"
  /\ IF mode = "gui" THEN WriteOnly("listener") ELSE UNCHANGED <<vectorizerVars, logVars>>
  /\ UNCHANGED <<mainVars, crawlVars, searchVars>>

Cancel ==
  /\ cancelled' = TRUE
  /\ UNCHANGED <<docQueue, out, batcherVars, clientVars, expired, closed, panicked>>

ListenerCancels ==
  /\ listener = "cancel" /\ listener' = "ended"
  /\ Cancel
  /\ UNCHANGED <<mainVars, pressed, crawlVars, searchVars, logVars>>
-----------------------------------------------------------------------------
(* The crawl *)

\* A page asks for its vector; PutDocQuery gets the global context.
PageAsks(c) ==
  /\ crawl = "running" /\ ~cancelled
  /\ Ask(c)
  /\ UNCHANGED <<mainVars, signalVars, crawlVars, searchVars, logVars>>

\* A page that failed, or a rule, a word or a list of links that could not be stored.
CrawlLogs ==
  /\ crawl \in {"running", "saving"}
  /\ WriteOnly("crawl")
  /\ UNCHANGED <<mainVars, signalVars, crawlVars, searchVars>>

\* Run returns when no page is under way.
RunReturns ==
  /\ crawl = "running"
  /\ \A c \in Scrapers : cpc[c] = "idle" /\ (asked[c] = Asks[c] \/ cancelled)
  /\ crawl' = "saving"
  /\ UNCHANGED <<vectorizerVars, mainVars, signalVars, saved, searchVars, logVars>>

\* FlushAll, SaveVisitedUrls and SavePageRank, whose errors nobody looks at.
IndexSaves ==
  /\ crawl = "saving" /\ crawl' = "ended"
  /\ saved' = dbOpen
  /\ UNCHANGED <<vectorizerVars, mainVars, signalVars, searchVars, logVars>>
-----------------------------------------------------------------------------
(* main and initGUI *)

Goto(stage) == main' = stage /\ UNCHANGED <<mode, dbOpen, sized>>

\* The Python server answers the ping, and the crawl begins, unless the flag -i says
\* otherwise or Index cannot read the visited URLs.
ServerIsUp ==
  /\ main = "server"
  /\ Goto(IF mode = "cli" THEN "index" ELSE "ui")
  /\ crawl' \in {"running", "ended"} /\ saved' = (crawl' = "ended")
  /\ UNCHANGED <<vectorizerVars, signalVars, searchVars, logVars>>

\* WaitForPythonServer is interrupted: vec.Close has not been deferred yet.
ServerGivenUp ==
  /\ main = "server" /\ cancelled
  /\ Goto("closeDB")
  /\ WriteOnly("main")
  /\ UNCHANGED <<signalVars, crawlVars, searchVars>>

\* panic(err): the ping fails without an interrupt, when vec.Close has not been deferred
\* yet, or NewIndexer cannot read the page rank, when it has.
StartFails ==
  /\ main = "server"
  /\ \/ Goto("cancel") /\ UNCHANGED <<vectorizerVars, logVars>>
     \/ Goto("closeVec") /\ WriteOnly("main")
  /\ UNCHANGED <<signalVars, crawlVars, searchVars>>

\* Variant: the cli starts the crawl in a goroutine, like the interface.
IndexedAtOnce == TRUE

\* Index has returned.
Indexed == crawl = "ended"

\* The number of documents is logged, or cannot be read: panic(err).
IndexOver ==
  /\ main = "index" /\ Indexed
  /\ \/ Goto("ui") /\ WriteOnly("main")
     \/ Goto("closeVec") /\ UNCHANGED <<vectorizerVars, logVars>>
  /\ UNCHANGED <<signalVars, crawlVars, searchVars>>

\* A query is read or entered: a goroutine for each of its words, and the request for
\* its vector.  Search runs on the goroutine of main or of the interface.
SearchBegins ==
  /\ main = "ui"
  /\ Goto("search")
  /\ Ask(User)
  /\ own' = TRUE
  /\ UNCHANGED <<signalVars, crawlVars, left, logVars>>

\* The goroutines of words log what they find and what they cannot read.
WordLogs ==
  /\ own \/ left
  /\ WriteOnly("word")
  /\ UNCHANGED <<mainVars, signalVars, crawlVars, searchVars>>

WordsEnd ==
  /\ \/ own /\ own' = FALSE /\ UNCHANGED left
     \/ left /\ left' = FALSE /\ UNCHANGED own
  /\ UNCHANGED <<vectorizerVars, mainVars, signalVars, crawlVars, logVars>>

\* With a vector Search waits for the goroutines; without it does not.
SearchReturns ==
  /\ main = "search" /\ cpc[User] = "idle"
  /\ result[Current(User)] \in Requests => ~own
  /\ Goto("ui")
  /\ left' = (left \/ own) /\ own' = FALSE
  /\ WriteOnly("main")
  /\ UNCHANGED <<signalVars, crawlVars>>

\* The log gets two fifths of the window, rounded down: nothing of one or two columns.
WindowSize ==
  /\ mode = "gui" /\ main = "ui"
  /\ sized' = ~sized
  /\ UNCHANGED <<vectorizerVars, mode, main, dbOpen, signalVars, crawlVars, searchVars, logVars>>

\* "q", or the interface ends with an error: panic(err).
Quit ==
  /\ main = "ui"
  /\ Goto("closeVec")
  /\ UNCHANGED <<vectorizerVars, signalVars, crawlVars, searchVars, logVars>>

CloseVec ==
  /\ main = "closeVec"
  /\ Goto("cancel")
  /\ Close
  /\ UNCHANGED <<signalVars, crawlVars, searchVars, logVars>>

CancelAll ==
  /\ main = "cancel"
  /\ Goto("closeDB")
  /\ Cancel
  /\ UNCHANGED <<signalVars, crawlVars, searchVars, logVars>>

CloseDB ==
  /\ main = "closeDB" /\ main' = "closeLog" /\ dbOpen' = FALSE
  /\ UNCHANGED <<vectorizerVars, mode, sized, signalVars, crawlVars, searchVars, logVars>>

CloseLog ==
  /\ main = "closeLog"
  /\ Goto("waitLog")
  /\ logClosed' = TRUE
  /\ UNCHANGED <<vectorizerVars, signalVars, crawlVars, searchVars, logged, logger>>

\* Variant: Close of the logger does not wait for its goroutine.
LoggerLeft == TRUE

\* log.wg.Wait()
LoggerEnded == logger = "ended"

Exit ==
  /\ main = "waitLog" /\ LoggerEnded
  /\ Goto("exited")
  /\ UNCHANGED <<vectorizerVars, signalVars, crawlVars, searchVars, logVars>>
-----------------------------------------------------------------------------
LoggerStep == LoggerWrites \/ LoggerEnds

ListenerStep == ListenerWakes \/ ListenerCancels

Others == UNCHANGED <<mainVars, signalVars, crawlVars, searchVars, logVars>>

Leave == CloseVec \/ CancelAll \/ CloseDB \/ CloseLog \/ Exit

\* What main does without being asked.
MainStep == ServerGivenUp \/ IndexOver \/ SearchReturns \/ Leave

CrawlStep == RunReturns \/ IndexSaves

Over == ~Alive /\ UNCHANGED vars

Next ==
  \/ Alive /\ LoggerStep
  \/ Alive /\ (Interrupt \/ ListenerStep)
  \/ Alive /\ (\E c \in Scrapers : PageAsks(c))
  \/ Alive /\ (\E c \in Clients : (ClientStep(c) \/ TimerRunsOut(c)) /\ Others)
  \/ Alive /\ BatcherStep /\ Others
  \/ Alive /\ (CrawlLogs \/ CrawlStep)
  \/ Alive /\ (ServerIsUp \/ StartFails \/ MainStep)
  \/ Alive /\ (SearchBegins \/ WordLogs \/ WordsEnd)
  \/ Alive /\ (WindowSize \/ Quit)
  \/ Over

Spec == Init /\ [][Next]_vars

\* Goroutines run, the ticker ticks, a POST ends within its 10 s, the timer of a query
\* runs out, and a crawl goes from page to page.  Nobody has to press a key, and the
\* Python server need not come up.
FairSpec ==
  /\ Spec
  /\ \A c \in Clients : /\ WF_vars(Alive /\ ClientStep(c) /\ Others)
                        /\ WF_vars(Alive /\ TimerRunsOut(c) /\ Others)
  /\ \A c \in Scrapers : WF_vars(Alive /\ PageAsks(c))
  /\ WF_vars(Alive /\ BatcherStep /\ Others)
  /\ WF_vars(Alive /\ LoggerStep) /\ WF_vars(Alive /\ ListenerStep)
  /\ WF_vars(Alive /\ CrawlStep) /\ WF_vars(Alive /\ WordsEnd)
  /\ WF_vars(Alive /\ MainStep)
-----------------------------------------------------------------------------
(* Properties *)

Holds(s, r) == {i \in 1..Len(s) : s[i] = r}

\* What a caller receives is the vector of its own text, although requests are batched,
\* answered by position, and abandoned by callers that gave up; and a request is in one
\* place only, and nowhere once it is answered, so that no vector is sent twice to a
\* channel that has room for one, also when the queue is closed under it.
AnswersMatch ==
  /\ TypeOK
  /\ \A r \in Requests :
       LET places == Cardinality(Holds(docQueue, r)) + Cardinality(Holds(batch, r))
       IN  /\ result[r] \in {r, Nothing, Closed} /\ out[r] \in {r, Nothing, Closed}
           /\ places <= 1
           /\ out[r] # Nothing \/ result[r] # Nothing => places = 0

\* A page comes back from the vectorizer unless the server failed for its batch, and
\* from there too once the program is interrupted (htmlHandling.go reports a timeout
\* where there is none).
PageVectorEnds ==
  \A c \in Scrapers : cpc[c] # "idle" ~> cpc[c] = "idle" \/ (Current(c) \in lost /\ ~cancelled) \/ ~Alive

\* A search comes back, whatever the server does and whoever waits in the queue.
SearchEnds == main = "search" ~> main # "search" \/ ~Alive

\* An interrupt ends the crawl, and to quit ends the program.
QuitEnds ==
  /\ pressed /\ crawl = "running" /\ listener = "waiting" ~> crawl = "ended" \/ ~Alive
  /\ main = "closeVec" ~> ~Alive

Leaving == main \in {"cancel", "closeDB", "closeLog", "waitLog"}

\* Who may send to a channel that is closed, the queue of the vectorizer or that of the
\* logger, which is a panic: behind the interface a page, the crawl and the interrupt, and
\* in both modes the goroutines of a search that was given up, and all of them only while
\* the program is being left; main itself never.
SendsAfterClose ==
  /\ panicked \in {"sender", "crawl", "listener"} => mode = "gui" /\ Leaving
  /\ panicked = "word" => left /\ Leaving
  /\ panicked # "main"

\* In the cli what Index saves is in the database before that is closed, and wherever
\* the program ends by itself every message the logger accepted has been written.
NothingLost ==
  /\ mode = "cli" /\ ~dbOpen /\ crawl # "none" => saved
  /\ main = "exited" => logged = 0
=============================================================================
