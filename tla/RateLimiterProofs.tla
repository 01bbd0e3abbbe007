------------------------- MODULE RateLimiterProofs -------------------------
(***************************************************************************)
(* The properties of RateLimiter, for any number of visits, limiters,      *)
(* delays and tries.                                                       *)
(***************************************************************************)
EXTENDS RateLimiter, SequenceTheorems, TLAPS

\* Seconds since the last tick of a limiter; R while that tick is being dealt with.
Age(x) == IF x.tick THEN x.R ELSE x.R - x.left

\* What keeps requests apart: a token that lies there has done so since the last tick,
\* and was put there a whole R after the tick that allowed the request before.
Spaced(x) ==
  /\ x.tick => x.left = x.R
  /\ x.gap + x.idle >= Age(x)
  /\ x.token = 1 => x.idle >= Age(x) /\ x.gap + x.idle >= x.R

LimiterOK(x) ==
  /\ x \in Limiters
  /\ x.left \in 1..x.R /\ x.idle \in 0..x.R /\ x.gap \in 0..x.R
  /\ x.closed => x.gone
  /\ Spaced(x)

LimitersOK == limiters \in Seq(Limiters) /\ \A l \in 1..Len(limiters) : LimiterOK(limiters[l])

\* A visit past its prelude finds a limiter in rlMap, one that waits or asks holds one.
VisitsHaveLimiter ==
  \A v \in Visits :
    /\ pc[v] \in {"rules", "read", "token", "asked"} => current # 0
    /\ pc[v] \in {"token", "asked"} => mine[v] # 0

\* Run shuts down after the last visit, what is in rlMap only, and in order.
ShutdownInOrder ==
  /\ mpc # "wait" => \A v \in Visits : pc[v] = "done"
  /\ mpc \in {"quit", "join", "close"} => current # 0
  /\ mpc = "close" => limiters[current].gone
  /\ \A l \in 1..Len(limiters) : limiters[l].quit => mpc \in {"join", "close", "over"}

RestTypes ==
  /\ current \in 0..Len(limiters)
  /\ pc \in [Visits -> {"new", "rules", "read", "token", "asked", "done"}]
  /\ mine \in [Visits -> 0..Len(limiters)]
  /\ tries \in [Visits -> 1..Tries]
  /\ mpc \in {"wait", "quit", "join", "close", "over"}
  /\ cancelled \in BOOLEAN

LimiterInv == LimitersOK /\ RestTypes /\ VisitsHaveLimiter /\ ShutdownInOrder
-----------------------------------------------------------------------------
(* What each operation does to one limiter *)

\* Delays are whole seconds, one at least.
LEMMA RatesPositive == Rates \subseteq Nat \ {0}
BY RateLimiterAssumption DEF Rates

\* The fields of a limiter.
LEMMA Fields ==
  ASSUME NEW x \in Limiters
  PROVE  /\ x.R \in Nat \ {0} /\ x.left \in Nat /\ x.token \in 0..1 /\ x.idle \in Nat /\ x.gap \in Nat
         /\ x.tick \in BOOLEAN /\ x.quit \in BOOLEAN /\ x.closed \in BOOLEAN /\ x.gone \in BOOLEAN
<1>1. x.R \in Rates
  BY DEF Limiters
<1> QED
  BY <1>1, RatesPositive DEF Limiters

LEMMA NewOK == ASSUME NEW rate \in Rates PROVE LimiterOK(NewRateLimiter(rate))
BY RatesPositive DEF LimiterOK, NewRateLimiter, Limiters, Spaced, Age

\* A request takes the token.
LEMMA TakenOK ==
  ASSUME NEW x, LimiterOK(x), x.token > 0
  PROVE  /\ x.gap + x.idle >= x.R
         /\ LimiterOK([x EXCEPT !.token = @ - 1, !.idle = 0, !.gap = x.idle])
<1> DEFINE y == [x EXCEPT !.token = @ - 1, !.idle = 0, !.gap = x.idle]
<1>1. x.token = 1 /\ x.R \in Nat \ {0}
  BY Fields DEF LimiterOK
<1>2. y \in Limiters
  <2>1. x \in Limiters
    BY DEF LimiterOK
  <2>2. x.token - 1 \in 0..1 /\ 0 \in Nat /\ x.idle \in Nat
    BY <1>1, <2>1, Fields
  <2> QED
    BY <2>1, <2>2 DEF Limiters
<1>3. /\ y.R = x.R /\ y.left = x.left /\ y.tick = x.tick /\ y.token = 0
      /\ y.idle = 0 /\ y.gap = x.idle /\ y.closed = x.closed /\ y.gone = x.gone
  BY <1>1 DEF LimiterOK, Limiters
<1>4. x.gap + x.idle >= x.R
  BY <1>1 DEF LimiterOK, Spaced
<1> HIDE DEF y
<1>5. LimiterOK(y)
  BY <1>1, <1>2, <1>3 DEF LimiterOK, Spaced, Age, Limiters
<1> QED
  BY <1>4, <1>5 DEF y

\* A tick is dealt with.
LEMMA TickedOK ==
  ASSUME NEW x, LimiterOK(x), x.tick
  PROVE  LimiterOK([x EXCEPT !.tick = FALSE, !.token = WithToken(@)])
<1> DEFINE y == [x EXCEPT !.tick = FALSE, !.token = WithToken(@)]
<1>1. x.R \in Nat \ {0} /\ x.token \in 0..1 /\ WithToken(x.token) = 1
  BY Fields DEF LimiterOK, WithToken
<1>2. y \in Limiters
  <2>1. x \in Limiters /\ WithToken(x.token) \in 0..1
    BY <1>1 DEF LimiterOK
  <2> QED
    BY <1>1, <2>1 DEF Limiters
<1>3. /\ y.R = x.R /\ y.left = x.left /\ y.tick = FALSE /\ y.token = 1
      /\ y.idle = x.idle /\ y.gap = x.gap /\ y.closed = x.closed /\ y.gone = x.gone
  BY <1>1 DEF LimiterOK, Limiters
<1> HIDE DEF y
<1>5. LimiterOK(y)
  BY <1>1, <1>2, <1>3 DEF LimiterOK, Spaced, Age, Limiters
<1> QED
  BY <1>5 DEF y

\* A second passes; the limiter has dealt with its tick.
LEMMA LaterOK ==
  ASSUME NEW x, LimiterOK(x), ~x.tick
  PROVE  LimiterOK(Later(x))
<1> DEFINE y == Later(x)
<1>1. x.R \in Nat \ {0}
  BY Fields DEF LimiterOK
<1>2. y \in Limiters
  <2>1. x \in Limiters /\ (x.left = 1) \in BOOLEAN
    BY DEF LimiterOK
  <2>2. /\ (IF x.left = 1 THEN x.R ELSE x.left - 1) \in Nat
        /\ (IF x.idle < x.R THEN x.idle + 1 ELSE x.idle) \in Nat
    BY <1>1, <2>1, Fields DEF LimiterOK
  <2> QED
    BY <2>1, <2>2 DEF Limiters, Later
<1>3. /\ y.R = x.R /\ y.token = x.token /\ y.gap = x.gap
      /\ y.closed = x.closed /\ y.gone = x.gone
      /\ y.left = (IF x.left = 1 THEN x.R ELSE x.left - 1)
      /\ y.tick = (x.left = 1)
      /\ y.idle = (IF x.idle < x.R THEN x.idle + 1 ELSE x.idle)
  BY <1>1 DEF LimiterOK, Limiters, Later
<1> HIDE DEF y
<1>4. LimiterOK(y)
  BY <1>1, <1>2, <1>3 DEF LimiterOK, Spaced, Age, Limiters
<1> QED
  BY <1>4 DEF y

\* The goroutine returns, or one of the channels is closed.
LEMMA ClosedOK ==
  ASSUME NEW x, LimiterOK(x)
  PROVE  /\ LimiterOK([x EXCEPT !.gone = TRUE])
         /\ LimiterOK([x EXCEPT !.quit = TRUE])
         /\ x.gone => LimiterOK([x EXCEPT !.closed = TRUE])
BY DEF LimiterOK, Spaced, Age, Limiters
-----------------------------------------------------------------------------
(* LimiterInv is inductive *)

limiterVars == <<limiters, current>>
visitVars   == <<pc, mine, tries, cancelled>>

LEMMA InitLimiterInv == Init => LimiterInv
<1> SUFFICES ASSUME Init PROVE LimiterInv
  OBVIOUS
<1> USE RateLimiterAssumption DEF Init
<1>1. limiters \in Seq(Limiters) /\ Len(limiters) = 0
  OBVIOUS
<1>2. RestTypes
  <2>1. Tries \in 1..Tries /\ 0 \in 0..Len(limiters)
    BY <1>1
  <2> QED
    BY <2>1 DEF RestTypes
<1>3. LimitersOK /\ VisitsHaveLimiter /\ ShutdownInOrder
  BY <1>1 DEF LimitersOK, VisitsHaveLimiter, ShutdownInOrder
<1> QED
  BY <1>2, <1>3 DEF LimiterInv

\* A new limiter comes to the end of the list and into rlMap.
LEMMA InstallOK ==
  ASSUME LimiterInv, NEW rate \in Rates, Install(rate)
  PROVE  /\ LimitersOK'
         /\ Len(limiters') = Len(limiters) + 1 /\ current' = Len(limiters')
         /\ \A l \in 1..Len(limiters) : limiters'[l] = limiters[l]
         /\ limiters'[current'].quit = FALSE
<1> DEFINE same == [l \in 1..Len(limiters) |->
                      IF l = current THEN Replaced(limiters[l]) ELSE limiters[l]]
<1>1. limiters \in Seq(Limiters) /\ NewRateLimiter(rate) \in Limiters
  BY NewOK DEF LimiterInv, LimitersOK, LimiterOK
<1>2. same = limiters
  BY <1>1 DEF Replaced
<1>3. limiters' = Append(limiters, NewRateLimiter(rate)) /\ current' = Len(limiters) + 1
  BY <1>2 DEF Install
<1>4. /\ limiters' \in Seq(Limiters) /\ Len(limiters') = Len(limiters) + 1
      /\ \A l \in 1..Len(limiters) : limiters'[l] = limiters[l]
      /\ limiters'[Len(limiters) + 1] = NewRateLimiter(rate)
  BY <1>1, <1>3, AppendProperties
<1>5. \A l \in 1..Len(limiters') : LimiterOK(limiters'[l])
  BY <1>1, <1>4, NewOK DEF LimiterInv, LimitersOK
<1>6. NewRateLimiter(rate).quit = FALSE
  BY DEF NewRateLimiter
<1> QED
  BY <1>1, <1>3, <1>4, <1>5, <1>6 DEF LimitersOK

\* One limiter changes, and no other.
LEMMA OneChanges ==
  ASSUME LimiterInv, NEW l \in 1..Len(limiters), NEW x, LimiterOK(x),
         limiters' = [limiters EXCEPT ![l] = x]
  PROVE  /\ LimitersOK' /\ Len(limiters') = Len(limiters)
         /\ limiters'[l] = x
         /\ \A k \in 1..Len(limiters) : k # l => limiters'[k] = limiters[k]
<1>1. limiters \in Seq(Limiters) /\ x \in Limiters
  BY DEF LimiterInv, LimitersOK, LimiterOK
<1>2. /\ limiters' \in Seq(Limiters) /\ Len(limiters') = Len(limiters)
      /\ \A k \in 1..Len(limiters) : limiters'[k] = IF k = l THEN x ELSE limiters[k]
  BY <1>1, ExceptSeq
<1> QED
  BY <1>2 DEF LimiterInv, LimitersOK

\* A visit makes a limiter, or one that a default of the host is replaced with.
LEMMA InstallInv ==
  ASSUME LimiterInv, NEW rate \in Rates, Install(rate), mpc = "wait",
         NEW v \in Visits, NEW to \in {"rules", "read", "done"},
         pc' = [pc EXCEPT ![v] = to], UNCHANGED <<mine, tries, mpc, cancelled>>
  PROVE  LimiterInv'
<1>1. /\ LimitersOK' /\ Len(limiters') = Len(limiters) + 1 /\ current' = Len(limiters')
      /\ \A l \in 1..Len(limiters) : limiters'[l] = limiters[l]
      /\ limiters'[current'].quit = FALSE
  BY InstallOK
<1>2. Len(limiters) \in Nat
  BY DEF LimiterInv, LimitersOK
<1>3. RestTypes'
  BY <1>1, <1>2 DEF LimiterInv, RestTypes
<1>4. VisitsHaveLimiter'
  BY <1>1, <1>2 DEF LimiterInv, RestTypes, VisitsHaveLimiter
<1>5. ShutdownInOrder'
  BY <1>1, <1>2 DEF LimiterInv, ShutdownInOrder
<1> QED
  BY <1>1, <1>3, <1>4, <1>5 DEF LimiterInv

\* A visit goes on, and the limiters stay as they are.
LEMMA VisitInv ==
  ASSUME LimiterInv, mpc = "wait", NEW v \in Visits,
         NEW to \in {"rules", "read", "token", "asked", "done"},
         to \in {"rules", "read"} => current # 0,
         to \in {"token", "asked"} => mine'[v] # 0 /\ current # 0,
         pc' = [pc EXCEPT ![v] = to],
         mine' \in [Visits -> 0..Len(limiters)], tries' \in [Visits -> 1..Tries],
         \A w \in Visits \ {v} : mine'[w] = mine[w],
         UNCHANGED <<limiters, current, mpc, cancelled>>
  PROVE  LimiterInv'
<1>1. LimitersOK' /\ RestTypes'
  BY DEF LimiterInv, LimitersOK, RestTypes
<1>2. VisitsHaveLimiter'
  BY DEF LimiterInv, RestTypes, VisitsHaveLimiter
<1>3. ShutdownInOrder'
  BY DEF LimiterInv, ShutdownInOrder
<1> QED
  BY <1>1, <1>2, <1>3 DEF LimiterInv

LEMMA VisitStepInv ==
  ASSUME LimiterInv, NEW v \in Visits, VisitStep(v)
  PROVE  LimiterInv'
<1>0. /\ pc[v] # "done" => mpc = "wait"
      /\ pc \in [Visits -> {"new", "rules", "read", "token", "asked", "done"}]
      /\ mine \in [Visits -> 0..Len(limiters)] /\ tries \in [Visits -> 1..Tries]
      /\ current \in 0..Len(limiters)
      /\ limiters \in Seq(Limiters)
  BY DEF LimiterInv, ShutdownInOrder, RestTypes, LimitersOK
<1>h. VisitsHaveLimiter
  BY DEF LimiterInv
<1>1. CASE Enter(v)
  <2>1. CASE Install(DefaultDelay)
    BY <1>0, <1>1, <2>1, InstallInv DEF Enter, Rates
  <2>2. CASE KeepLimiters /\ current # 0
    BY <1>0, <1>1, <2>2, VisitInv DEF Enter, KeepLimiters
  <2> QED
    BY <1>1, <2>1, <2>2 DEF Enter
<1>2. CASE Rules(v)
  <2>1. ASSUME NEW delay \in RobotsDelays, delay > 0, Install(delay)
        PROVE  LimiterInv'
    <3>1. delay \in Rates
      BY <2>1, RateLimiterAssumption DEF Rates
    <3> QED
      BY <1>0, <1>2, <2>1, <3>1, InstallInv DEF Rules
  <2>2. CASE KeepLimiters
    <3>1. current # 0
      BY <1>2, <1>h DEF Rules, VisitsHaveLimiter
    <3> QED
      BY <1>0, <1>2, <2>2, <3>1, VisitInv DEF Rules, KeepLimiters
  <2> QED
    BY <1>2, <2>1, <2>2 DEF Rules
<1>3. CASE ReadLimiter(v)
  <2>1. current # 0
    BY <1>3, <1>h DEF ReadLimiter, VisitsHaveLimiter
  <2> QED
    BY <1>0, <1>3, <2>1, VisitInv DEF ReadLimiter
<1>4. CASE TakeToken(v)
  <2> DEFINE l == mine[v]
             x == [limiters[l] EXCEPT !.token = @ - 1, !.idle = 0, !.gap = limiters[l].idle]
  <2>1. mine[v] \in 1..Len(limiters) /\ current # 0
    BY <1>0, <1>4, <1>h DEF TakeToken, VisitsHaveLimiter
  <2>2. LimiterOK(x)
    BY <1>4, <2>1, TakenOK DEF TakeToken, LimiterInv, LimitersOK
  <2>3. limiters' = [limiters EXCEPT ![l] = x]
    BY <1>4 DEF TakeToken
  <2>4. x.quit = limiters[l].quit /\ x.gone = limiters[l].gone
    BY <2>1, <1>0 DEF Limiters
  <2> HIDE DEF x
  <2>5. /\ LimitersOK' /\ Len(limiters') = Len(limiters)
        /\ limiters'[l] = x
        /\ \A k \in 1..Len(limiters) : k # l => limiters'[k] = limiters[k]
    BY <2>1, <2>2, <2>3, OneChanges
  <2>6. RestTypes' /\ VisitsHaveLimiter'
    BY <1>0, <1>4, <2>1, <2>5 DEF LimiterInv, RestTypes, VisitsHaveLimiter, TakeToken
  <2>7. ShutdownInOrder'
    BY <1>0, <1>4, <2>1, <2>4, <2>5 DEF LimiterInv, ShutdownInOrder, TakeToken
  <2> QED
    BY <2>5, <2>6, <2>7 DEF LimiterInv
<1>5. CASE GoWithout(v)
  <2>1. mine[v] # 0 /\ current # 0
    BY <1>5, <1>h DEF GoWithout, VisitsHaveLimiter
  <2> QED
    BY <1>0, <1>5, <2>1, VisitInv DEF GoWithout
<1>6. CASE Answer(v)
  <2>1. mine[v] # 0 /\ current # 0
    BY <1>6, <1>h DEF Answer, VisitsHaveLimiter
  <2>2. tries' \in [Visits -> 1..Tries]
    BY <1>0, <1>6, RateLimiterAssumption DEF Answer
  <2> QED
    BY <1>0, <1>6, <2>1, <2>2, VisitInv DEF Answer
<1> QED
  BY <1>1, <1>2, <1>3, <1>4, <1>5, <1>6 DEF VisitStep

\* The goroutine of a limiter.
LEMMA HandlerInv ==
  ASSUME LimiterInv, HandlerStep
  PROVE  LimiterInv'
<1> PICK l \in 1..Len(limiters) : HandleQuit(l) \/ HandleTick(l)
  BY DEF HandlerStep
<1>0. limiters \in Seq(Limiters) /\ LimiterOK(limiters[l]) /\ limiters[l] \in Limiters
  BY DEF LimiterInv, LimitersOK, LimiterOK
<1>1. PICK x : /\ LimiterOK(x) /\ limiters' = [limiters EXCEPT ![l] = x]
               /\ x.quit = limiters[l].quit
               /\ limiters[l].gone => x.gone
  <2>1. CASE HandleQuit(l)
    <3> DEFINE x == [limiters[l] EXCEPT !.gone = TRUE]
    <3>1. LimiterOK(x) /\ x.quit = limiters[l].quit /\ x.gone
      BY <1>0, ClosedOK DEF Limiters
    <3> QED
      BY <2>1, <3>1 DEF HandleQuit
  <2>2. CASE HandleTick(l)
    <3> DEFINE x == [limiters[l] EXCEPT !.tick = FALSE, !.token = WithToken(@)]
    <3>1. LimiterOK(x)
      BY <1>0, <2>2, TickedOK DEF HandleTick
    <3>2. x.quit = limiters[l].quit /\ x.gone = limiters[l].gone
      BY <1>0 DEF Limiters
    <3>3. limiters' = [limiters EXCEPT ![l] = x]
      BY <2>2 DEF HandleTick
    <3> QED
      BY <3>1, <3>2, <3>3
  <2> QED
    BY <2>1, <2>2
<1>2. /\ LimitersOK' /\ Len(limiters') = Len(limiters) /\ limiters'[l] = x
      /\ \A k \in 1..Len(limiters) : k # l => limiters'[k] = limiters[k]
  BY <1>1, OneChanges
<1>3. UNCHANGED <<current, pc, mine, tries, mpc, cancelled>>
  BY DEF HandleQuit, HandleTick
<1>4. RestTypes' /\ VisitsHaveLimiter'
  BY <1>2, <1>3 DEF LimiterInv, RestTypes, VisitsHaveLimiter
<1>5. ShutdownInOrder'
  <2>1. \A k \in 1..Len(limiters) :
          limiters'[k].quit = limiters[k].quit /\ (limiters[k].gone => limiters'[k].gone)
    BY <1>1, <1>2
  <2>2. current # 0 => current \in 1..Len(limiters)
    BY <1>0 DEF LimiterInv, RestTypes
  <2> QED
    BY <1>2, <1>3, <2>1, <2>2 DEF LimiterInv, ShutdownInOrder
<1> QED
  BY <1>2, <1>4, <1>5 DEF LimiterInv

LEMMA SecondInv ==
  ASSUME LimiterInv, Second
  PROVE  LimiterInv'
<1>0. limiters \in Seq(Limiters) /\ Len(limiters) \in Nat /\ Len(limiters') = Len(limiters)
  BY DEF LimiterInv, LimitersOK, Second
<1>1. ASSUME NEW l \in 1..Len(limiters)
      PROVE  /\ LimiterOK(limiters'[l]) /\ limiters'[l].quit = limiters[l].quit
             /\ limiters'[l].gone = limiters[l].gone
  <2>1. LimiterOK(limiters[l]) /\ limiters[l] \in Limiters
    BY DEF LimiterInv, LimitersOK, LimiterOK
  <2>2. CASE Handling(l)
    <3>1. limiters'[l] = Later(limiters[l]) /\ ~limiters[l].tick
      BY <2>2 DEF Second
    <3>2. LimiterOK(limiters'[l])
      BY <2>1, <3>1, LaterOK
    <3> QED
      BY <2>1, <3>1, <3>2 DEF Later, Limiters
  <2>3. CASE ~Handling(l)
    BY <2>1, <2>3 DEF Second
  <2> QED
    BY <2>2, <2>3
<1>2. LimitersOK'
  <2>1. \A l \in 1..Len(limiters) : limiters'[l] \in Limiters
    BY <1>1 DEF LimiterOK
  <2>2. limiters' = [l \in 1..Len(limiters) |-> limiters'[l]]
    BY DEF Second
  <2>3. limiters' \in Seq(Limiters)
    BY <1>0, <2>1, <2>2
  <2> QED
    BY <1>0, <1>1, <2>3 DEF LimitersOK
<1>3. RestTypes' /\ VisitsHaveLimiter'
  BY <1>0 DEF LimiterInv, RestTypes, VisitsHaveLimiter, Second
<1>4. ShutdownInOrder'
  BY <1>0, <1>1 DEF LimiterInv, RestTypes, ShutdownInOrder, Second
<1> QED
  BY <1>2, <1>3, <1>4 DEF LimiterInv

\* Run's shutdown.
LEMMA MainInv ==
  ASSUME LimiterInv, MainStep
  PROVE  LimiterInv'
<1>0. limiters \in Seq(Limiters) /\ current \in 0..Len(limiters)
  BY DEF LimiterInv, LimitersOK, RestTypes
<1>1. CASE Wait
  BY <1>1 DEF Wait, MainGoes, mainRest, LimiterInv, LimitersOK, RestTypes, VisitsHaveLimiter, ShutdownInOrder
<1>2. CASE Join
  BY <1>2 DEF Join, MainGoes, mainRest, LimiterInv, LimitersOK, RestTypes, VisitsHaveLimiter, ShutdownInOrder
<1>3. CASE CloseQuit \/ CloseToken
  <2>1. current \in 1..Len(limiters)
    BY <1>0, <1>3 DEF CloseQuit, CloseToken, MainGoes, LimiterInv, ShutdownInOrder
  <2>2. LimiterOK(limiters[current]) /\ limiters[current] \in Limiters
    BY <2>1 DEF LimiterInv, LimitersOK, LimiterOK
  <2>3. PICK x : /\ LimiterOK(x) /\ limiters' = [limiters EXCEPT ![current] = x]
                 /\ mpc' = "over" => x.quit = limiters[current].quit
    <3>1. CASE CloseQuit
      <4>1. mpc' # "over"
        BY <3>1 DEF CloseQuit, MainGoes
      <4> QED
        BY <2>2, <3>1, <4>1, ClosedOK DEF CloseQuit
    <3>2. CASE CloseToken
      <4> DEFINE x == [limiters[current] EXCEPT !.closed = TRUE]
      <4>1. limiters[current].gone
        BY <3>2 DEF CloseToken, MainGoes, LimiterInv, ShutdownInOrder
      <4>2. LimiterOK(x)
        BY <2>2, <4>1, ClosedOK
      <4>3. x.quit = limiters[current].quit
        BY <2>2 DEF Limiters
      <4>4. limiters' = [limiters EXCEPT ![current] = x]
        BY <3>2 DEF CloseToken
      <4> QED
        BY <4>2, <4>3, <4>4
    <3> QED
      BY <1>3, <3>1, <3>2
  <2>4. /\ LimitersOK' /\ Len(limiters') = Len(limiters) /\ limiters'[current] = x
        /\ \A k \in 1..Len(limiters) : k # current => limiters'[k] = limiters[k]
    BY <2>1, <2>3, OneChanges
  <2>5. UNCHANGED mainRest /\ (MainGoes("quit", "join") \/ MainGoes("close", "over"))
    BY <1>3 DEF CloseQuit, CloseToken
  <2>6. RestTypes' /\ VisitsHaveLimiter'
    BY <2>4, <2>5 DEF LimiterInv, RestTypes, VisitsHaveLimiter, mainRest, MainGoes
  <2>7. ShutdownInOrder'
    BY <1>0, <2>1, <2>3, <2>4, <2>5 DEF LimiterInv, ShutdownInOrder, mainRest, MainGoes
  <2> QED
    BY <2>4, <2>6, <2>7 DEF LimiterInv
<1> QED
  BY <1>1, <1>2, <1>3 DEF MainStep

LEMMA NextLimiterInv == LimiterInv /\ [Next]_vars => LimiterInv'
<1> SUFFICES ASSUME LimiterInv, [Next]_vars PROVE LimiterInv'
  OBVIOUS
<1>1. CASE Cancel
  BY <1>1 DEF Cancel, LimiterInv, LimitersOK, RestTypes, VisitsHaveLimiter, ShutdownInOrder
<1>2. CASE UNCHANGED vars
  BY <1>2 DEF vars, LimiterInv, LimitersOK, RestTypes, VisitsHaveLimiter, ShutdownInOrder
<1> QED
  BY <1>1, <1>2, VisitStepInv, HandlerInv, SecondInv, MainInv DEF Next

\* The inductive invariant always holds.
THEOREM LimiterInvariant == Spec => []LimiterInv
BY InitLimiterInv, NextLimiterInv, PTL DEF Spec
-----------------------------------------------------------------------------
(* The properties *)

\* No limiter is shut down under a request that waits for its token (Run's Shutdown
\* comes after pool.Wait), for any number of limiters replaced on the way.
THEOREM RequestsArePaid == Spec => []PaidRequests
<1>1. LimiterInv => PaidRequests
  <2> SUFFICES ASSUME LimiterInv, NEW v \in Visits, pc[v] = "token"
               PROVE  mine[v] # 0 /\ ~limiters[mine[v]].quit
    BY DEF PaidRequests
  <2>1. mpc = "wait" /\ mine[v] # 0 /\ mine[v] \in 0..Len(limiters)
    BY DEF LimiterInv, VisitsHaveLimiter, ShutdownInOrder, RestTypes
  <2>2. mine[v] \in 1..Len(limiters)
    BY <2>1 DEF LimiterInv, LimitersOK
  <2> QED
    BY <2>1, <2>2 DEF LimiterInv, ShutdownInOrder
<1> QED
  BY <1>1, LimiterInvariant, PTL

\* handleLimits never sends on the closed channel token, which holds one token at most.
THEOREM TokensSentSafely == Spec => []SendsSafe
<1>1. LimiterInv => SendsSafe
  BY DEF LimiterInv, LimitersOK, LimiterOK, RestTypes, SendsSafe, TypeOK
<1> QED
  BY <1>1, LimiterInvariant, PTL

\* Of any three requests that a limiter lets through the first and the last are its
\* delay apart.
THEOREM BurstsAreOfTwo == Spec => BurstOfTwo
<1>1. LimiterInv /\ [Next]_vars =>
        [\A v \in Visits :
           TakeToken(v) => LET limiter == limiters[mine[v]]
                           IN  limiter.gap + limiter.idle >= limiter.R]_vars
  <2> SUFFICES ASSUME LimiterInv, NEW v \in Visits, TakeToken(v)
               PROVE  limiters[mine[v]].gap + limiters[mine[v]].idle >= limiters[mine[v]].R
    OBVIOUS
  <2>1. mine[v] \in 1..Len(limiters)
    BY DEF LimiterInv, VisitsHaveLimiter, RestTypes, LimitersOK, TakeToken
  <2>2. LimiterOK(limiters[mine[v]]) /\ limiters[mine[v]].token > 0
    BY <2>1 DEF LimiterInv, LimitersOK, TakeToken
  <2> QED
    BY <2>2, TakenOK
<1> QED
  BY <1>1, LimiterInvariant, PTL DEF Spec, BurstOfTwo
=============================================================================
