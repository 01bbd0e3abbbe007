---------------------------- MODULE RateLimiter ----------------------------
(***************************************************************************)
(* The limiters of one host (rateLimiter.go) with all who use them: the    *)
(* closures and fetchPageRulesAndOffers, which put limiters into rlMap,    *)
(* getHTML, which waits for a token of the one it found there, and Run,    *)
(* which shuts down the one it finds in the end.  A limiter that has been  *)
(* replaced in rlMap lives on, for the requests that hold it.  Hosts do    *)
(* not share limiters.                                                     *)
(*                                                                         *)
(* Time passes in seconds, and only when the limiters' goroutines have     *)
(* dealt with what the last one brought.                                   *)
(*                                                                         *)
(* Definitions marked Variant are faulty forms of a definition below them, *)
(* which the properties tell apart; the specification does not use them.   *)
(***************************************************************************)
EXTENDS Naturals, Sequences

CONSTANTS
  Visits,        \* calls of ScrapeWithContext for pages of the host
  Starts,        \* those of Run's own closures
  DefaultDelay,  \* DefaultDelay, in seconds
  RobotsDelays,  \* crawl delays that robots.txt may give
  Tries,         \* numOfTries
  Interrupts     \* whether the global context may be cancelled

ASSUME RateLimiterAssumption ==
  /\ Starts \subseteq Visits
  /\ DefaultDelay \in Nat \ {0} /\ RobotsDelays \subseteq Nat
  /\ Tries \in Nat \ {0}
  /\ Interrupts \in BOOLEAN

VARIABLES
  limiters,   \* the limiters made, oldest first
  current,    \* the index of the one in rlMap, or 0
  pc,         \* pc[v]: where visit v is
  mine,       \* mine[v]: the limiter that getHTML was given, or 0
  tries,      \* tries[v]: the parameter try of getHTML
  mpc,        \* where Run is
  cancelled   \* the global context is done

vars == <<limiters, current, pc, mine, tries, mpc, cancelled>>

\* R: seconds between ticks; left: until the next; tick: one is waiting in the
\* ticker's channel; token: elements of the channel token; quit, closed: the
\* channels quit and token are closed; gone: the goroutine has returned.
\* History: idle, the seconds since the last token was taken, and gap, the seconds
\* between that one and the one before (R stands for more).
NewRateLimiter(rate) ==
  [R |-> rate, left |-> rate, tick |-> FALSE, token |-> 0,
   quit |-> FALSE, closed |-> FALSE, gone |-> FALSE,
   idle |-> rate, gap |-> rate]

Rates == {DefaultDelay} \cup (RobotsDelays \ {0})

Limiters ==
  [R : Rates, left : Nat, tick : BOOLEAN, token : 0..1,
   quit : BOOLEAN, closed : BOOLEAN, gone : BOOLEAN, idle : Nat, gap : Nat]

TypeOK ==
  /\ limiters \in Seq(Limiters)
  /\ \A l \in 1..Len(limiters) :
       /\ limiters[l].left \in 1..limiters[l].R
       /\ {limiters[l].idle, limiters[l].gap} \subseteq 0..limiters[l].R
  /\ current \in 0..Len(limiters)
  /\ pc \in [Visits -> {"new", "rules", "read", "token", "asked", "done"}]
  /\ mine \in [Visits -> 0..Len(limiters)]
  /\ tries \in [Visits -> 1..Tries]
  /\ mpc \in {"wait", "quit", "join", "close", "over"}
  /\ cancelled \in BOOLEAN

Init ==
  /\ limiters = <<>> /\ current = 0
  /\ pc = [v \in Visits |-> "new"]
  /\ mine = [v \in Visits |-> 0] /\ tries = [v \in Visits |-> Tries]
  /\ mpc = "wait" /\ cancelled = FALSE
-----------------------------------------------------------------------------
(* rlMap *)

\* Variant: the goroutine of a limiter that is replaced is stopped ...
ReplacedStopped(limiter) == [limiter EXCEPT !.gone = TRUE]

\* Variant: ... or its channel quit is closed.
ReplacedQuit(limiter) == [limiter EXCEPT !.quit = TRUE]

\* Nobody stops a limiter that is replaced.
Replaced(limiter) == limiter

Install(rate) ==
  /\ limiters' = Append([l \in 1..Len(limiters) |->
                           IF l = current THEN Replaced(limiters[l]) ELSE limiters[l]],
                        NewRateLimiter(rate))
  /\ current' = Len(limiters) + 1

KeepLimiters == UNCHANGED <<limiters, current>>

\* The prelude of a closure: Run's make a new limiter, the others if there is none.
Enter(v) ==
  /\ pc[v] = "new"
  /\ IF v \in Starts \/ current = 0 THEN Install(DefaultDelay) ELSE KeepLimiters
  /\ pc' = [pc EXCEPT ![v] = "rules"]
  /\ UNCHANGED <<mine, tries, mpc, cancelled>>

\* fetchPageRulesAndOffers: a delay from robots.txt replaces a default.  Whether the
\* page is fetched is decided elsewhere (its depth, its context, visited).
Rules(v) ==
  /\ pc[v] = "rules"
  /\ \/ \E delay \in RobotsDelays :
          IF delay > 0 /\ limiters[current].R = DefaultDelay
          THEN Install(delay) ELSE KeepLimiters
     \/ KeepLimiters
  /\ \E to \in {"read", "done"} : pc' = [pc EXCEPT ![v] = to]
  /\ UNCHANGED <<mine, tries, mpc, cancelled>>

\* fetchHTMLcontent reads rlMap and lets go of its lock: from here on the limiter in
\* rlMap may be another.
ReadLimiter(v) ==
  /\ pc[v] = "read"
  /\ mine' = [mine EXCEPT ![v] = current]
  /\ pc' = [pc EXCEPT ![v] = "token"]
  /\ UNCHANGED <<limiters, current, tries, mpc, cancelled>>
-----------------------------------------------------------------------------
(* getHTML *)

\* GetToken, case <-rl.token.
TakeToken(v) ==
  LET l == mine[v]
      limiter == limiters[l]
  IN  /\ pc[v] = "token" /\ limiter.token > 0
      /\ limiters' = [limiters EXCEPT ![l].token = @ - 1, ![l].idle = 0,
                                      ![l].gap = limiter.idle]
      /\ pc' = [pc EXCEPT ![v] = "asked"]
      /\ UNCHANGED <<current, mine, tries, mpc, cancelled>>

\* case <-rl.quit, case <-ctx.Done(): the request goes out without a token.
GoWithout(v) ==
  /\ pc[v] = "token"
  /\ cancelled \/ limiters[mine[v]].quit
  /\ pc' = [pc EXCEPT ![v] = "asked"]
  /\ UNCHANGED <<limiters, current, mine, tries, mpc, cancelled>>

\* The server answers, or asks to be left alone (429): then getHTML calls itself
\* with the limiter it had.
Answer(v) ==
  /\ pc[v] = "asked"
  /\ \/ pc' = [pc EXCEPT ![v] = "done"] /\ UNCHANGED tries
     \/ /\ tries[v] > 1 /\ ~cancelled
        /\ tries' = [tries EXCEPT ![v] = @ - 1]
        /\ pc' = [pc EXCEPT ![v] = "token"]
  /\ UNCHANGED <<limiters, current, mine, mpc, cancelled>>
-----------------------------------------------------------------------------
(* handleLimits, and time *)

Handling(l) == ~limiters[l].gone

HandleQuit(l) ==
  /\ Handling(l) /\ limiters[l].quit
  /\ limiters' = [limiters EXCEPT ![l].gone = TRUE]
  /\ UNCHANGED <<current, pc, mine, tries, mpc, cancelled>>

\* Variant: the channel token has two places.
WithTokenOfTwo(n) == IF n < 2 THEN n + 1 ELSE n

\* select { case rl.token <- struct{}{}: default: }
WithToken(n) == IF n < 1 THEN n + 1 ELSE n

HandleTick(l) ==
  /\ Handling(l) /\ limiters[l].tick
  /\ limiters' = [limiters EXCEPT ![l].tick = FALSE, ![l].token = WithToken(@)]
  /\ UNCHANGED <<current, pc, mine, tries, mpc, cancelled>>

Later(limiter) ==
  [limiter EXCEPT !.left = IF @ = 1 THEN limiter.R ELSE @ - 1,
                  !.tick = (limiter.left = 1),
                  !.idle = IF @ < limiter.R THEN @ + 1 ELSE @]

Second ==
  /\ \A l \in 1..Len(limiters) : Handling(l) => ~limiters[l].tick /\ ~limiters[l].quit
  /\ limiters' = [l \in 1..Len(limiters) |->
                    IF Handling(l) THEN Later(limiters[l]) ELSE limiters[l]]
  /\ UNCHANGED <<current, pc, mine, tries, mpc, cancelled>>
-----------------------------------------------------------------------------
(* Run: pool.Wait, then putDownLimiters and Shutdown *)

MainGoes(from, to) == mpc = from /\ mpc' = to

mainRest == <<current, pc, mine, tries, cancelled>>

Wait ==
  /\ \A v \in Visits : pc[v] = "done"
  /\ MainGoes("wait", IF current = 0 THEN "over" ELSE "quit")
  /\ UNCHANGED <<limiters, mainRest>>

CloseQuit ==
  /\ MainGoes("quit", "join")
  /\ limiters' = [limiters EXCEPT ![current].quit = TRUE]
  /\ UNCHANGED mainRest

\* Variant: Shutdown does not wait for the goroutine.
JoinNot == MainGoes("join", "close") /\ UNCHANGED <<limiters, mainRest>>

Join ==
  /\ MainGoes("join", "close")
  /\ limiters[current].gone
  /\ UNCHANGED <<limiters, mainRest>>

CloseToken ==
  /\ MainGoes("close", "over")
  /\ limiters' = [limiters EXCEPT ![current].closed = TRUE]
  /\ UNCHANGED mainRest

Cancel ==
  /\ Interrupts /\ ~cancelled
  /\ cancelled' = TRUE
  /\ UNCHANGED <<limiters, current, pc, mine, tries, mpc>>

VisitStep(v) ==
  \/ Enter(v) \/ Rules(v) \/ ReadLimiter(v)
  \/ TakeToken(v) \/ GoWithout(v) \/ Answer(v)

MainStep == Wait \/ CloseQuit \/ Join \/ CloseToken

HandlerStep == \E l \in 1..Len(limiters) : HandleQuit(l) \/ HandleTick(l)

Next == (\E v \in Visits : VisitStep(v)) \/ HandlerStep \/ Second \/ MainStep \/ Cancel

Spec == Init /\ [][Next]_vars

\* Goroutines run, requests are answered, and time passes.
Fairness ==
  /\ \A v \in Visits : WF_vars(VisitStep(v))
  /\ WF_vars(HandlerStep) /\ WF_vars(Second) /\ WF_vars(MainStep)

FairSpec == Spec /\ Fairness
-----------------------------------------------------------------------------
(* Properties *)

\* What a limiter guarantees a host although it keeps a token while nobody asks: two
\* requests may follow each other at once, but of any three that were let through by
\* a token of it the first and the last are R seconds apart.
BurstOfTwo ==
  [][\A v \in Visits :
       TakeToken(v) => LET limiter == limiters[mine[v]]
                       IN  limiter.gap + limiter.idle >= limiter.R]_vars

\* Only an interruption lets a request out without a token: no limiter is shut down
\* under a request that waits for it, be it the host's limiter still or not, since
\* Run shuts down after pool.Wait, and only what is in rlMap.
PaidRequests ==
  \A v \in Visits : pc[v] = "token" => mine[v] # 0 /\ ~limiters[mine[v]].quit

\* Shutdown closes the channel token when nothing can be sent to it any more, and
\* the channel never holds more than its one token (TypeOK).
SendsSafe == TypeOK /\ \A l \in 1..Len(limiters) : limiters[l].closed => limiters[l].gone

\* Every request gets through, whatever becomes of its limiter, and Run, having shut
\* down the limiter of the host, returns.
RunEnds == <>(mpc = "over")
=============================================================================
