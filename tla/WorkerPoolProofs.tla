-------------------------- MODULE WorkerPoolProofs --------------------------
(***************************************************************************)
(* PoolInv is inductive, for any number of workers and tasks and any queue *)
(* capacity; the safety properties of WorkerPool follow from it.           *)
(***************************************************************************)
EXTENDS WorkerPool, FiniteSetTheorems, TLAPS

Live == {"offered", "queued", "running"}

\* The set the WaitGroup counts is finite.
LEMMA OutstandingFinite == IsFiniteSet(Outstanding) /\ Cardinality(Outstanding) \in Nat
<1>1. Outstanding \subseteq Tasks
  BY DEF Outstanding
<1> QED
  BY <1>1, WorkerPoolAssumption, FS_Subset, FS_CardinalityType

\* wg.Add(1): a fresh task joins the outstanding ones.
LEMMA OutstandingAdd ==
  ASSUME TypeOK, NEW t \in Tasks, status[t] = "fresh",
         status' = [status EXCEPT ![t] = "offered"]
  PROVE  Cardinality(Outstanding') = Cardinality(Outstanding) + 1
<1>1. Outstanding' = Outstanding \cup {t}
  BY DEF Outstanding, TypeOK
<1>2. t \notin Outstanding
  BY DEF Outstanding
<1> QED
  BY <1>1, <1>2, OutstandingFinite, FS_AddElement

\* A task that only changes place stays outstanding.
LEMMA OutstandingMove ==
  ASSUME TypeOK, NEW t \in Tasks, status[t] \in Live, NEW s \in Live,
         status' = [status EXCEPT ![t] = s]
  PROVE  Outstanding' = Outstanding
BY DEF Outstanding, TypeOK, Live

\* wg.Done(): a task that ends leaves the outstanding ones, and was counted.
LEMMA OutstandingRemove ==
  ASSUME TypeOK, NEW t \in Tasks, status[t] \in Live, NEW s \in {"done", "dropped"},
         status' = [status EXCEPT ![t] = s]
  PROVE  /\ Outstanding' = Outstanding \ {t}
         /\ Cardinality(Outstanding) > 0
         /\ Cardinality(Outstanding') = Cardinality(Outstanding) - 1
<1>1. Outstanding' = Outstanding \ {t}
  BY DEF Outstanding, TypeOK, Live
<1>2. t \in Outstanding
  BY DEF Outstanding, Live
<1>3. Cardinality(Outstanding') = Cardinality(Outstanding) - 1
  BY <1>1, <1>2, OutstandingFinite, FS_RemoveElement
<1>4. Cardinality(Outstanding) > 0
  BY <1>2, OutstandingFinite, FS_EmptySet
<1> QED
  BY <1>1, <1>3, <1>4

\* The initial state satisfies the invariant.
LEMMA InitPoolInv == Init => PoolInv
<1> SUFFICES ASSUME Init PROVE PoolInv
  OBVIOUS
<1> USE WorkerPoolAssumption DEF Init, Threads
<1>1. TypeOK
  <2>1. <<>> \in Seq(Tasks) /\ Len(<<>>) <= QueueCapacity
    OBVIOUS
  <2>2. stack \in [Threads -> Seq(Tasks)]
    BY <2>1
  <2> QED
    BY <2>1, <2>2 DEF TypeOK
<1>2. QueueHoldsQueued /\ StacksHoldRunning /\ OffersHoldOffered /\ OnlyActiveThreadsHold
  BY DEF QueueHoldsQueued, StacksHoldRunning, OffersHoldOffered, OnlyActiveThreadsHold
<1>3. CountsOutstanding
  <2>1. Outstanding = {}
    BY DEF Outstanding
  <2> QED
    BY <2>1, FS_EmptySet DEF CountsOutstanding
<1>4. CountsWorkers
  <2>1. {w \in Workers : wpc[w] \in {"select", "leaving"}} = {}
    OBVIOUS
  <2> QED
    BY <2>1, FS_EmptySet DEF CountsWorkers
<1>5. ClosedAfterJoin /\ CleanerAwake /\ JoinSound /\ PanicsOnlyInRelease
  BY DEF ClosedAfterJoin, CleanerAwake, JoinSound, Joined, PanicsOnlyInRelease
<1> QED
  BY <1>1, <1>2, <1>3, <1>4, <1>5 DEF PoolInv
-----------------------------------------------------------------------------
(* One lemma per action. *)

\* A thread that has a task, or offers one, is at work before the pool is joined.
LEMMA HoldersAreLive ==
  ASSUME PoolInv, NEW th \in Threads, stack[th] # <<>> \/ offer[th] # None
  PROVE  ~Joined
<1>1. CASE th = Main
  BY <1>1 DEF PoolInv, OnlyActiveThreadsHold, Joined
<1>2. CASE th \in Workers
  <2>1. stack[th] # <<>>
    BY <1>2 DEF PoolInv, OnlyActiveThreadsHold
  <2>2. /\ Len(stack[th]) \in 1..Len(stack[th])
        /\ stack[th][Len(stack[th])] \in Tasks
    BY <2>1 DEF PoolInv, TypeOK
  <2>3. status[stack[th][Len(stack[th])]] = "running"
    BY <2>2 DEF PoolInv, StacksHoldRunning
  <2>4. stack[th][Len(stack[th])] \in Outstanding
    BY <2>2, <2>3 DEF Outstanding
  <2> QED
    BY <2>4 DEF PoolInv, JoinSound
<1> QED
  BY <1>1, <1>2 DEF Threads

LEMMA SubmitAddInv ==
  ASSUME PoolInv, ~panicked, NEW th \in Threads, NEW t \in Tasks, SubmitAdd(th, t)
  PROVE  PoolInv'
<1> USE DEF SubmitAdd, MaySubmit, workerVars, closing, cleanerVars
<1>0. ~Joined
  BY HoldersAreLive DEF Joined
<1>1. TypeOK'
  BY DEF PoolInv, TypeOK
<1>2. QueueHoldsQueued'
  BY DEF PoolInv, TypeOK, QueueHoldsQueued
<1>3. StacksHoldRunning'
  BY DEF PoolInv, TypeOK, StacksHoldRunning
<1>4. OffersHoldOffered'
  BY DEF PoolInv, TypeOK, OffersHoldOffered
<1>5. OnlyActiveThreadsHold'
  BY WorkerPoolAssumption DEF PoolInv, TypeOK, OnlyActiveThreadsHold, Threads
<1>6. CountsOutstanding'
  BY OutstandingAdd DEF PoolInv, CountsOutstanding
<1>7. CountsWorkers' /\ ClosedAfterJoin' /\ PanicsOnlyInRelease' /\ CleanerAwake'
  BY DEF PoolInv, CountsWorkers, ClosedAfterJoin, PanicsOnlyInRelease, CleanerAwake, Joined
<1>8. JoinSound'
  BY <1>0 DEF JoinSound, Joined
<1> QED
  BY <1>1, <1>2, <1>3, <1>4, <1>5, <1>6, <1>7, <1>8 DEF PoolInv

LEMMA SubmitEnqueueInv ==
  ASSUME PoolInv, ~panicked, NEW th \in Threads, SubmitEnqueue(th)
  PROVE  PoolInv'
<1> USE DEF SubmitEnqueue, workerVars, closing, cleanerVars
<1>0. ~Joined /\ ~closed
  BY HoldersAreLive DEF PoolInv, ClosedAfterJoin
<1>t. offer[th] \in Tasks /\ status[offer[th]] = "offered"
  BY DEF PoolInv, TypeOK, OffersHoldOffered
<1>1. TypeOK'
  <2>1. buf' \in Seq(Tasks) /\ Len(buf') <= QueueCapacity
    BY <1>0, <1>t, WorkerPoolAssumption DEF PoolInv, TypeOK
  <2>2. offer' \in [Threads -> Tasks \cup {None}]
    BY DEF PoolInv, TypeOK
  <2> QED
    BY <1>0, <2>1, <2>2 DEF PoolInv, TypeOK
<1>2. QueueHoldsQueued'
  BY <1>t DEF PoolInv, TypeOK, QueueHoldsQueued
<1>3. StacksHoldRunning'
  BY <1>t DEF PoolInv, TypeOK, StacksHoldRunning
<1>4. OffersHoldOffered'
  BY <1>t DEF PoolInv, TypeOK, OffersHoldOffered
<1>5. OnlyActiveThreadsHold'
  BY WorkerPoolAssumption DEF PoolInv, TypeOK, OnlyActiveThreadsHold, Threads
<1>6. CountsOutstanding'
  BY <1>t, OutstandingMove DEF PoolInv, CountsOutstanding, Live
<1>7. CountsWorkers' /\ ClosedAfterJoin' /\ PanicsOnlyInRelease' /\ CleanerAwake'
  BY <1>0 DEF PoolInv, CountsWorkers, ClosedAfterJoin, PanicsOnlyInRelease, CleanerAwake, Joined
<1>8. JoinSound'
  BY <1>0 DEF JoinSound, Joined
<1> QED
  BY <1>1, <1>2, <1>3, <1>4, <1>5, <1>6, <1>7, <1>8 DEF PoolInv

LEMMA SubmitInlineInv ==
  ASSUME PoolInv, ~panicked, NEW th \in Threads, SubmitInline(th)
  PROVE  PoolInv'
<1> USE DEF SubmitInline, workerVars, closing, cleanerVars
<1>0. ~Joined
  BY HoldersAreLive
<1>t. offer[th] \in Tasks /\ status[offer[th]] = "offered"
  BY DEF PoolInv, TypeOK, OffersHoldOffered
<1>s. /\ stack[th] \in Seq(Tasks)
      /\ stack' \in [Threads -> Seq(Tasks)]
      /\ stack'[th] = Append(stack[th], offer[th])
      /\ \A ti \in Threads \ {th} : stack'[ti] = stack[ti]
  BY <1>t DEF PoolInv, TypeOK
<1>1. TypeOK'
  BY <1>s, <1>t DEF PoolInv, TypeOK
<1>2. QueueHoldsQueued'
  BY <1>t DEF PoolInv, TypeOK, QueueHoldsQueued
<1>3. StacksHoldRunning'
  BY <1>s, <1>t DEF PoolInv, TypeOK, StacksHoldRunning
<1>4. OffersHoldOffered'
  BY <1>t DEF PoolInv, TypeOK, OffersHoldOffered
<1>5. OnlyActiveThreadsHold'
  BY <1>s, WorkerPoolAssumption DEF PoolInv, TypeOK, OnlyActiveThreadsHold, Threads
<1>6. CountsOutstanding'
  BY <1>t, OutstandingMove DEF PoolInv, CountsOutstanding, Live
<1>7. CountsWorkers' /\ ClosedAfterJoin' /\ PanicsOnlyInRelease' /\ CleanerAwake'
  BY DEF PoolInv, CountsWorkers, ClosedAfterJoin, PanicsOnlyInRelease, CleanerAwake, Joined
<1>8. JoinSound'
  BY <1>0 DEF JoinSound, Joined
<1> QED
  BY <1>1, <1>2, <1>3, <1>4, <1>5, <1>6, <1>7, <1>8 DEF PoolInv

LEMMA TaskDoneInv ==
  ASSUME PoolInv, ~panicked, NEW th \in Threads, TaskDone(th)
  PROVE  PoolInv'
<1> DEFINE n == Len(stack[th])
           t == stack[th][n]
<1> USE DEF TaskDone, workerVars, closing, cleanerVars
<1>0. ~Joined
  BY HoldersAreLive
<1>s. /\ stack[th] \in Seq(Tasks)
      /\ n \in Nat \ {0} /\ n \in 1..Len(stack[th])
      /\ t \in Tasks
  BY DEF PoolInv, TypeOK
<1>t. status[t] = "running"
  BY <1>s DEF PoolInv, StacksHoldRunning
<1>u. status' = [status EXCEPT ![t] = "done"]
  OBVIOUS
<1>r. /\ stack' \in [Threads -> Seq(Tasks)]
      /\ stack'[th] = SubSeq(stack[th], 1, n - 1)
      /\ Len(stack'[th]) = n - 1
      /\ \A i \in 1..(n - 1) : stack'[th][i] = stack[th][i]
      /\ \A ti \in Threads \ {th} : stack'[ti] = stack[ti]
  <2>1. stack'[th] = SubSeq(stack[th], 1, n - 1)
    BY DEF PoolInv, TypeOK
  <2>2. SubSeq(stack[th], 1, n - 1) \in Seq(Tasks)
    BY <1>s
  <2>3. /\ Len(SubSeq(stack[th], 1, n - 1)) = n - 1
        /\ \A i \in 1..(n - 1) : SubSeq(stack[th], 1, n - 1)[i] = stack[th][i]
    BY <1>s
  <2>4. stack' \in [Threads -> Seq(Tasks)] /\ \A ti \in Threads \ {th} : stack'[ti] = stack[ti]
    BY <2>2 DEF PoolInv, TypeOK
  <2> QED
    BY <2>1, <2>3, <2>4
<1>k. \* the other places do not hold t
      /\ \A i \in 1..Len(stack'[th]) : stack'[th][i] # t
      /\ \A ti \in Threads \ {th} : \A i \in 1..Len(stack'[ti]) : stack'[ti][i] # t
  BY <1>s, <1>r DEF PoolInv, StacksHoldRunning
<1>w. wg' = Cardinality(Outstanding') /\ panicked' = FALSE /\ wg' \in Nat
  <2>1. /\ Cardinality(Outstanding) > 0
        /\ Cardinality(Outstanding') = Cardinality(Outstanding) - 1
    BY <1>s, <1>t, <1>u, OutstandingRemove DEF PoolInv, Live
  <2>2. wg = Cardinality(Outstanding) /\ wg \in Nat
    BY DEF PoolInv, CountsOutstanding, TypeOK
  <2>3. wg # 0 /\ wg' = wg - 1
    BY <2>1, <2>2 DEF Done
  <2>4. panicked' = (wg = 0)
    BY DEF Done
  <2>5. panicked' = FALSE
    BY <2>3, <2>4, Zenon
  <2>6. wg' \in Nat /\ wg' = Cardinality(Outstanding')
    BY <2>1, <2>2, <2>3
  <2> QED
    BY <2>5, <2>6
<1> HIDE DEF n, t
<1>1. TypeOK'
  BY <1>s, <1>u, <1>r, <1>w DEF PoolInv, TypeOK
<1>2. QueueHoldsQueued'
  BY <1>t, <1>u DEF PoolInv, TypeOK, QueueHoldsQueued
<1>3. StacksHoldRunning'
  <2>1. \A ti \in Threads : \A i \in 1..Len(stack'[ti]) :
          i \in 1..Len(stack[ti]) /\ stack'[ti][i] = stack[ti][i] /\ stack[ti][i] \in Tasks
    <3> SUFFICES ASSUME NEW ti \in Threads, NEW i \in 1..Len(stack'[ti])
                 PROVE  i \in 1..Len(stack[ti]) /\ stack'[ti][i] = stack[ti][i] /\ stack[ti][i] \in Tasks
      OBVIOUS
    <3>1. stack[ti] \in Seq(Tasks)
      BY DEF PoolInv, TypeOK
    <3>2. i \in 1..Len(stack[ti]) /\ stack'[ti][i] = stack[ti][i]
      BY <1>s, <1>r DEF n
    <3> QED
      BY <3>1, <3>2
  <2>2. \A ti \in Threads : \A i \in 1..Len(stack'[ti]) : status'[stack'[ti][i]] = "running"
    BY <2>1, <1>k, <1>u DEF PoolInv, TypeOK, StacksHoldRunning
  <2> QED
    BY <2>1, <2>2 DEF PoolInv, StacksHoldRunning
<1>4. OffersHoldOffered'
  BY <1>t, <1>u DEF PoolInv, TypeOK, OffersHoldOffered
<1>5. OnlyActiveThreadsHold'
  BY <1>r, WorkerPoolAssumption DEF PoolInv, TypeOK, OnlyActiveThreadsHold, Threads
<1>6. CountsOutstanding'
  BY <1>w DEF CountsOutstanding
<1>7. CountsWorkers' /\ ClosedAfterJoin' /\ PanicsOnlyInRelease' /\ CleanerAwake'
  BY <1>w DEF PoolInv, CountsWorkers, ClosedAfterJoin, PanicsOnlyInRelease, CleanerAwake, Joined
<1>8. JoinSound'
  BY <1>0 DEF JoinSound, Joined
<1> QED
  BY <1>1, <1>2, <1>3, <1>4, <1>5, <1>6, <1>7, <1>8 DEF PoolInv

LEMMA WorkerStartInv ==
  ASSUME PoolInv, ~panicked, NEW w \in Workers, WorkerStart(w)
  PROVE  PoolInv'
<1> DEFINE Inside == {v \in Workers : wpc[v] \in {"select", "leaving"}}
<1> USE DEF WorkerStart, closing, cleanerVars
<1>1. TypeOK'
  BY DEF PoolInv, TypeOK
<1>2. QueueHoldsQueued' /\ StacksHoldRunning' /\ OffersHoldOffered'
  BY DEF PoolInv, QueueHoldsQueued, StacksHoldRunning, OffersHoldOffered
<1>3. OnlyActiveThreadsHold'
  BY DEF PoolInv, TypeOK, OnlyActiveThreadsHold
<1>4. CountsOutstanding' /\ JoinSound'
  BY DEF PoolInv, CountsOutstanding, JoinSound, Outstanding, Joined
<1>5. CountsWorkers'
  <2>1. Inside' = Inside \cup {w} /\ w \notin Inside
    BY DEF PoolInv, TypeOK
  <2>2. IsFiniteSet(Inside)
    BY WorkerPoolAssumption, FS_Subset
  <2> QED
    BY <2>1, <2>2, FS_AddElement DEF PoolInv, CountsWorkers
<1>6. ClosedAfterJoin' /\ PanicsOnlyInRelease' /\ CleanerAwake'
  BY DEF PoolInv, ClosedAfterJoin, PanicsOnlyInRelease, CleanerAwake, Joined
<1> QED
  BY <1>1, <1>2, <1>3, <1>4, <1>5, <1>6 DEF PoolInv

LEMMA WorkerTakeInv ==
  ASSUME PoolInv, ~panicked, NEW w \in Workers, WorkerTake(w)
  PROVE  PoolInv'
<1> DEFINE t == Head(buf)
<1> USE DEF WorkerTake, AtSelect, workerVars, closing, cleanerVars
<1>b. /\ buf \in Seq(Tasks) /\ t = buf[1] /\ 1 \in 1..Len(buf) /\ t \in Tasks
      /\ buf' \in Seq(Tasks) /\ Len(buf') = Len(buf) - 1 /\ Len(buf) \in Nat
      /\ \A i \in 1..Len(buf') : buf'[i] = buf[i + 1] /\ i + 1 \in 1..Len(buf)
  BY DEF PoolInv, TypeOK
<1>t. status[t] = "queued"
  BY <1>b DEF PoolInv, QueueHoldsQueued
<1>0. ~Joined
  BY <1>b, <1>t DEF PoolInv, JoinSound, Outstanding
<1>s. /\ stack' \in [Threads -> Seq(Tasks)]
      /\ stack'[w] = <<t>>
      /\ \A ti \in Threads \ {w} : stack'[ti] = stack[ti]
  BY <1>b DEF PoolInv, TypeOK, Threads
<1>u. status' = [status EXCEPT ![t] = "running"]
  OBVIOUS
<1> HIDE DEF t
<1>1. TypeOK'
  BY <1>b, <1>s, <1>u, WorkerPoolAssumption DEF PoolInv, TypeOK
<1>2. QueueHoldsQueued'
  <2>1. \A i \in 1..Len(buf') : buf'[i] # t /\ buf'[i] \in Tasks
    BY <1>b DEF PoolInv, QueueHoldsQueued
  <2> QED
    BY <2>1, <1>b, <1>u DEF PoolInv, TypeOK, QueueHoldsQueued
<1>3. StacksHoldRunning'
  <2>1. \A ti \in Threads \ {w} : \A i \in 1..Len(stack'[ti]) : stack'[ti][i] # t /\ stack'[ti][i] \in Tasks
    BY <1>s, <1>t DEF PoolInv, TypeOK, StacksHoldRunning
  <2>2. \A i \in 1..Len(stack'[w]) : i = 1 /\ stack'[w][i] = t
    BY <1>s
  <2>3. \A ti \in Threads : \A i \in 1..Len(stack'[ti]) : status'[stack'[ti][i]] = "running"
    BY <2>1, <2>2, <1>b, <1>s, <1>u DEF PoolInv, TypeOK, StacksHoldRunning
  <2> QED
    BY <2>1, <2>2, <2>3, <1>s DEF PoolInv, StacksHoldRunning
<1>4. OffersHoldOffered'
  BY <1>t, <1>u DEF PoolInv, TypeOK, OffersHoldOffered
<1>5. OnlyActiveThreadsHold'
  BY <1>s, WorkerPoolAssumption DEF PoolInv, TypeOK, OnlyActiveThreadsHold, Threads
<1>6. CountsOutstanding'
  BY <1>b, <1>t, <1>u, OutstandingMove DEF PoolInv, CountsOutstanding, Live
<1>7. CountsWorkers' /\ ClosedAfterJoin' /\ PanicsOnlyInRelease' /\ CleanerAwake'
  BY DEF PoolInv, CountsWorkers, ClosedAfterJoin, PanicsOnlyInRelease, CleanerAwake, Joined
<1>8. JoinSound'
  BY <1>0 DEF JoinSound, Joined
<1> QED
  BY <1>1, <1>2, <1>3, <1>4, <1>5, <1>6, <1>7, <1>8 DEF PoolInv

LEMMA WorkerExitInv ==
  ASSUME PoolInv, ~panicked, NEW w \in Workers, WorkerLeave(w) \/ WorkerGone(w)
  PROVE  PoolInv'
<1> DEFINE Inside == {v \in Workers : wpc[v] \in {"select", "leaving"}}
<1> USE DEF WorkerLeave, WorkerGone, AtSelect, closing, cleanerVars
<1>f. IsFiniteSet(Inside) /\ Cardinality(Inside) \in Nat
  BY WorkerPoolAssumption, FS_Subset, FS_CardinalityType
<1>5. CountsWorkers' /\ workers' \in Nat
  <2>1. CASE WorkerLeave(w)
    <3>1. Inside' = Inside
      BY <2>1 DEF PoolInv, TypeOK
    <3> QED
      BY <2>1, <3>1 DEF PoolInv, CountsWorkers, TypeOK
  <2>2. CASE WorkerGone(w)
    <3>1. Inside' = Inside \ {w} /\ w \in Inside
      BY <2>2 DEF PoolInv, TypeOK
    <3> HIDE DEF Inside
    <3>2. Cardinality(Inside') = Cardinality(Inside) - 1
      BY <3>1, <1>f, FS_RemoveElement
    <3>3. Cardinality(Inside) > 0
      BY <3>1, <1>f, FS_EmptySet
    <3> QED
      BY <2>2, <3>2, <3>3, <1>f DEF PoolInv, CountsWorkers, Inside
  <2> QED
    BY <2>1, <2>2
<1>1. TypeOK'
  BY <1>5 DEF PoolInv, TypeOK
<1>2. QueueHoldsQueued' /\ StacksHoldRunning' /\ OffersHoldOffered'
  BY DEF PoolInv, QueueHoldsQueued, StacksHoldRunning, OffersHoldOffered
<1>3. OnlyActiveThreadsHold'
  BY DEF PoolInv, TypeOK, OnlyActiveThreadsHold
<1>4. CountsOutstanding' /\ JoinSound'
  BY DEF PoolInv, CountsOutstanding, JoinSound, Outstanding, Joined
<1>6. ClosedAfterJoin' /\ PanicsOnlyInRelease' /\ CleanerAwake'
  BY DEF PoolInv, ClosedAfterJoin, PanicsOnlyInRelease, CleanerAwake, Joined
<1> QED
  BY <1>1, <1>2, <1>3, <1>4, <1>5, <1>6 DEF PoolInv

LEMMA MainStepInv ==
  ASSUME PoolInv, ~panicked, MainStep
  PROVE  PoolInv'
<1> USE DEF MainStep, MainSubmitted, MainWait, MainCloseQuit, MainCloseBuf, MainStopWait,
            MainGoes, mainRest, workerVars, cleanerVars
<1>1. TypeOK'
  BY DEF PoolInv, TypeOK
<1>2. QueueHoldsQueued' /\ StacksHoldRunning' /\ OffersHoldOffered'
  BY DEF PoolInv, QueueHoldsQueued, StacksHoldRunning, OffersHoldOffered
<1>3. OnlyActiveThreadsHold'
  BY DEF PoolInv, OnlyActiveThreadsHold
<1>4. CountsOutstanding' /\ CountsWorkers'
  BY DEF PoolInv, CountsOutstanding, CountsWorkers, Outstanding
<1>5. JoinSound'
  <2>1. CASE MainWait
    <3>1. Outstanding = {}
      BY <2>1, OutstandingFinite, FS_EmptySet DEF PoolInv, CountsOutstanding
    <3> QED
      BY <2>1, <3>1 DEF JoinSound, Outstanding
  <2>2. CASE ~MainWait
    BY <2>2 DEF PoolInv, JoinSound, Joined, Outstanding
  <2> QED
    BY <2>1, <2>2
<1>6. ClosedAfterJoin' /\ PanicsOnlyInRelease' /\ CleanerAwake'
  BY DEF PoolInv, ClosedAfterJoin, PanicsOnlyInRelease, CleanerAwake, Joined
<1> QED
  BY <1>1, <1>2, <1>3, <1>4, <1>5, <1>6 DEF PoolInv

LEMMA CleanerDrainInv ==
  ASSUME PoolInv, ~panicked, CleanerDrain
  PROVE  PoolInv'
<1> DEFINE t == Head(buf)
<1> USE DEF CleanerDrain, cleanerRest, workerVars, closing, cleanerVars
<1>b. /\ buf \in Seq(Tasks) /\ t = buf[1] /\ 1 \in 1..Len(buf) /\ t \in Tasks
      /\ buf' \in Seq(Tasks) /\ Len(buf') = Len(buf) - 1 /\ Len(buf) \in Nat
      /\ \A i \in 1..Len(buf') : buf'[i] = buf[i + 1] /\ i + 1 \in 1..Len(buf)
  BY DEF PoolInv, TypeOK
<1>t. status[t] = "queued"
  BY <1>b DEF PoolInv, QueueHoldsQueued
<1>0. ~Joined
  BY <1>b, <1>t DEF PoolInv, JoinSound, Outstanding
<1>u. status' = [status EXCEPT ![t] = "dropped"]
  OBVIOUS
<1>w. wg' = Cardinality(Outstanding') /\ panicked' = FALSE /\ wg' \in Nat
  <2>1. /\ Cardinality(Outstanding) > 0
        /\ Cardinality(Outstanding') = Cardinality(Outstanding) - 1
    BY <1>b, <1>t, <1>u, OutstandingRemove DEF PoolInv, Live
  <2>2. wg = Cardinality(Outstanding) /\ wg \in Nat
    BY DEF PoolInv, CountsOutstanding, TypeOK
  <2>3. wg # 0 /\ wg' = wg - 1
    BY <2>1, <2>2 DEF Done
  <2>4. panicked' = (wg = 0)
    BY DEF Done
  <2>5. panicked' = FALSE
    BY <2>3, <2>4, Zenon
  <2>6. wg' \in Nat /\ wg' = Cardinality(Outstanding')
    BY <2>1, <2>2, <2>3
  <2> QED
    BY <2>5, <2>6
<1> HIDE DEF t
<1>1. TypeOK'
  <2>1. buf' \in Seq(Tasks) /\ Len(buf') <= QueueCapacity
    BY <1>b, WorkerPoolAssumption DEF PoolInv, TypeOK
  <2>2. status' \in [Tasks -> {"fresh", "offered", "queued", "running", "done", "dropped"}]
    BY <1>b, <1>u DEF PoolInv, TypeOK
  <2> QED
    BY <2>1, <2>2, <1>w DEF PoolInv, TypeOK
<1>2. QueueHoldsQueued'
  <2>1. \A i \in 1..Len(buf') : buf'[i] # t /\ buf'[i] \in Tasks
    BY <1>b DEF PoolInv, QueueHoldsQueued
  <2> QED
    BY <2>1, <1>b, <1>u DEF PoolInv, TypeOK, QueueHoldsQueued
<1>3. StacksHoldRunning'
  BY <1>t, <1>u DEF PoolInv, TypeOK, StacksHoldRunning
<1>4. OffersHoldOffered'
  BY <1>t, <1>u DEF PoolInv, TypeOK, OffersHoldOffered
<1>5. OnlyActiveThreadsHold'
  BY DEF PoolInv, OnlyActiveThreadsHold
<1>6. CountsOutstanding'
  BY <1>w DEF CountsOutstanding
<1>7. CountsWorkers' /\ ClosedAfterJoin' /\ PanicsOnlyInRelease' /\ CleanerAwake'
  BY <1>w DEF PoolInv, CountsWorkers, ClosedAfterJoin, PanicsOnlyInRelease, CleanerAwake, Joined
<1>8. JoinSound'
  BY <1>0 DEF JoinSound, Joined
<1> QED
  BY <1>1, <1>2, <1>3, <1>4, <1>5, <1>6, <1>7, <1>8 DEF PoolInv

\* The cleaner's other steps and Cancel touch neither the queue nor the threads;
\* the release loop finds the counter at zero because Run has passed Wait.
LEMMA CleanerOtherInv ==
  ASSUME PoolInv, ~panicked,
         CleanerSample \/ CleanerCompare \/ CleanerRangeEnds \/ CleanerRelease \/ Cancel
  PROVE  PoolInv'
<1> USE DEF CleanerSample, CleanerCompare, CleanerRangeEnds, CleanerRelease, Cancel, Done,
            cleanerRest, workerVars, closing, cleanerVars
<1>0. cpc = "release" => wg = 0
  <2>1. cpc = "release" => Outstanding = {}
    BY DEF PoolInv, ClosedAfterJoin, JoinSound
  <2> QED
    BY <2>1, FS_EmptySet DEF PoolInv, CountsOutstanding
<1>1. TypeOK'
  <2>1. Load \in Nat
    BY DEF PoolInv, TypeOK, Load
  <2>2. workers \in Nat /\ wg \in Nat /\ tally \in Nat
    BY DEF PoolInv, TypeOK
  <2>3. wg' \in Nat /\ tally' \in Nat
    BY <2>1, <2>2
  <2>4. panicked' \in BOOLEAN
    BY Zenon DEF PoolInv, TypeOK
  <2>5. cpc' \in {"tick", "secondTick", "drain", "release", "ended"}
    BY DEF PoolInv, TypeOK
  <2>6. cancelled' \in BOOLEAN
    BY Zenon DEF PoolInv, TypeOK
  <2> QED
    BY <2>3, <2>4, <2>5, <2>6 DEF PoolInv, TypeOK
<1>2. QueueHoldsQueued' /\ StacksHoldRunning' /\ OffersHoldOffered' /\ OnlyActiveThreadsHold'
  BY DEF PoolInv, QueueHoldsQueued, StacksHoldRunning, OffersHoldOffered, OnlyActiveThreadsHold
<1>3. CountsOutstanding' /\ CountsWorkers' /\ JoinSound'
  BY <1>0 DEF PoolInv, CountsOutstanding, CountsWorkers, JoinSound, Outstanding, Joined
<1>4. ClosedAfterJoin' /\ PanicsOnlyInRelease' /\ CleanerAwake'
  BY DEF PoolInv, ClosedAfterJoin, PanicsOnlyInRelease, CleanerAwake, Joined
<1> QED
  BY <1>1, <1>2, <1>3, <1>4 DEF PoolInv
-----------------------------------------------------------------------------
LEMMA NextPoolInv == PoolInv /\ [Next]_vars => PoolInv'
<1> SUFFICES ASSUME PoolInv, [Next]_vars PROVE PoolInv'
  OBVIOUS
<1>1. CASE Step
  <2>0. ~panicked
    BY <1>1 DEF Step
  <2>1. ASSUME NEW th \in Threads, ThreadStep(th) PROVE PoolInv'
    BY <2>0, <2>1, SubmitAddInv, SubmitEnqueueInv, SubmitInlineInv, TaskDoneInv DEF ThreadStep
  <2>2. ASSUME NEW w \in Workers, WorkerStep(w) PROVE PoolInv'
    BY <2>0, <2>2, WorkerStartInv, WorkerTakeInv, WorkerExitInv DEF WorkerStep
  <2>3. CASE MainStep
    BY <2>0, <2>3, MainStepInv
  <2>4. CASE CleanerStep
    BY <2>0, <2>4, CleanerDrainInv, CleanerOtherInv DEF CleanerStep
  <2>5. CASE Cancel
    BY <2>0, <2>5, CleanerOtherInv
  <2> QED
    BY <1>1, <2>1, <2>2, <2>3, <2>4, <2>5 DEF Step
<1>2. CASE UNCHANGED vars
  BY <1>2 DEF vars, PoolInv, TypeOK, QueueHoldsQueued, StacksHoldRunning, OffersHoldOffered,
              OnlyActiveThreadsHold, CountsOutstanding, CountsWorkers, ClosedAfterJoin,
              CleanerAwake, JoinSound, PanicsOnlyInRelease, Outstanding, Joined
<1> QED
  BY <1>1, <1>2 DEF Next, Ended

\* Every reachable state of the pool satisfies the inductive invariant.
THEOREM PoolInvariant == Spec => []PoolInv
  BY InitPoolInv, NextPoolInv, PTL DEF Spec

\* The state keeps its types: in particular the channel never holds more than its
\* capacity and the counters of workerPool.go never go below zero.
THEOREM PoolTypeOK == Spec => []TypeOK
  BY PoolInvariant, PTL DEF PoolInv

\* Wait is a barrier for any number of goroutines, tasks and nested submissions.
THEOREM JoinIsSound == Spec => []JoinSound
  BY PoolInvariant, PTL DEF PoolInv

\* No send meets a closed channel and no Done of a task underflows the counter:
\* the only panic of the pool is that of the last loop of cleanCalls.
THEOREM OnlyReleasePanics == Spec => []PanicsOnlyInRelease
  BY PoolInvariant, PTL DEF PoolInv

\* The last loop of cleanCalls can never free a caller blocked in Wait.
THEOREM ReleaseComesTooLate == Spec => []ReleaseAfterJoin
<1>1. PoolInv => ReleaseAfterJoin
  BY DEF PoolInv, ClosedAfterJoin, ReleaseAfterJoin
<1> QED
  BY <1>1, PoolInvariant, PTL
-----------------------------------------------------------------------------
(* The pool implements TaskPool. *)

\* A change of one task's status shows as a change of that task's life.
LEMMA LifeFollowsStatus ==
  ASSUME TypeOK, NEW t \in Tasks,
         NEW s \in {"fresh", "offered", "queued", "running", "done", "dropped"},
         status' = [status EXCEPT ![t] = s]
  PROVE  [u \in Tasks |-> Life(status'[u])] =
           [[u \in Tasks |-> Life(status[u])] EXCEPT ![t] = Life(s)]
BY DEF TypeOK

LEMMA InitRefines == Init => Abstract!Init
BY DEF Init, Abstract!Init, Life, Joined

LEMMA StepRefines == PoolInv /\ [Next]_vars => [Abstract!Next]_(Abstract!taskPoolVars)
<1> SUFFICES ASSUME PoolInv, [Next]_vars
             PROVE  [Abstract!Next]_(Abstract!taskPoolVars)
  OBVIOUS
<1> DEFINE life == [u \in Tasks |-> Life(status[u])]
<1> USE DEF Abstract!taskPoolVars
<1>1. ASSUME NEW th \in Threads, NEW t \in Tasks, SubmitAdd(th, t)
      PROVE  Abstract!Next
  <2>1. life[t] = "fresh" /\ life' = [life EXCEPT ![t] = "waiting"]
    BY <1>1, LifeFollowsStatus DEF SubmitAdd, PoolInv, Life
  <2>2. ~Joined /\ Joined' = Joined /\ cancelled' = cancelled
    BY <1>1, HoldersAreLive DEF SubmitAdd, MaySubmit, closing, Joined
  <2>3. Abstract!Submit(t)
    BY <2>1, <2>2 DEF Abstract!Submit, Abstract!Move
  <2> QED
    BY <2>3 DEF Abstract!Next
<1>2. ASSUME NEW th \in Threads, SubmitEnqueue(th)
      PROVE  UNCHANGED Abstract!taskPoolVars
  <2>1. offer[th] \in Tasks /\ status[offer[th]] = "offered"
    BY <1>2 DEF SubmitEnqueue, PoolInv, TypeOK, OffersHoldOffered
  <2>2. life' = life
    BY <1>2, <2>1 DEF SubmitEnqueue, PoolInv, TypeOK, Life
  <2> QED
    BY <1>2, <2>2 DEF SubmitEnqueue, closing, Joined
<1>3. ASSUME NEW th \in Threads, SubmitInline(th)
      PROVE  Abstract!Next
  <2> DEFINE t == offer[th]
  <2>1. t \in Tasks /\ status[t] = "offered"
    BY <1>3 DEF SubmitInline, PoolInv, TypeOK, OffersHoldOffered
  <2>2. life[t] = "waiting" /\ life' = [life EXCEPT ![t] = "running"]
    BY <1>3, <2>1, LifeFollowsStatus DEF SubmitInline, PoolInv, Life
  <2>3. ~Joined /\ Joined' = Joined /\ cancelled' = cancelled
    BY <1>3, HoldersAreLive DEF SubmitInline, closing, Joined
  <2>4. Abstract!Start(t)
    BY <2>2, <2>3 DEF Abstract!Start, Abstract!Move
  <2> QED
    BY <2>1, <2>4 DEF Abstract!Next
<1>4. ASSUME NEW th \in Threads, TaskDone(th)
      PROVE  Abstract!Next
  <2> DEFINE t == stack[th][Len(stack[th])]
  <2>1. t \in Tasks /\ status[t] = "running"
    BY <1>4 DEF TaskDone, PoolInv, TypeOK, StacksHoldRunning
  <2>2. life[t] = "running" /\ life' = [life EXCEPT ![t] = "done"]
    BY <1>4, <2>1, LifeFollowsStatus DEF TaskDone, PoolInv, Life
  <2>3. ~Joined /\ Joined' = Joined /\ cancelled' = cancelled
    BY <1>4, HoldersAreLive DEF TaskDone, closing, Joined
  <2>4. Abstract!Finish(t)
    BY <2>2, <2>3 DEF Abstract!Finish, Abstract!Move
  <2> QED
    BY <2>1, <2>4 DEF Abstract!Next
<1>5. ASSUME NEW w \in Workers, WorkerTake(w)
      PROVE  Abstract!Next
  <2> DEFINE t == Head(buf)
  <2>1. t \in Tasks /\ status[t] = "queued"
    BY <1>5 DEF WorkerTake, PoolInv, TypeOK, QueueHoldsQueued
  <2>2. life[t] = "waiting" /\ life' = [life EXCEPT ![t] = "running"]
    BY <1>5, <2>1, LifeFollowsStatus DEF WorkerTake, PoolInv, Life
  <2>3. ~Joined /\ Joined' = Joined /\ cancelled' = cancelled
    BY <1>5, <2>1 DEF WorkerTake, closing, Joined, PoolInv, JoinSound, Outstanding
  <2>4. Abstract!Start(t)
    BY <2>2, <2>3 DEF Abstract!Start, Abstract!Move
  <2> QED
    BY <2>1, <2>4 DEF Abstract!Next
<1>6. ASSUME CleanerDrain
      PROVE  Abstract!Next
  <2> DEFINE t == Head(buf)
  <2>1. t \in Tasks /\ status[t] = "queued"
    BY <1>6 DEF CleanerDrain, PoolInv, TypeOK, QueueHoldsQueued
  <2>2. life[t] = "waiting" /\ life' = [life EXCEPT ![t] = "dropped"]
    BY <1>6, <2>1, LifeFollowsStatus DEF CleanerDrain, PoolInv, Life
  <2>3. ~Joined /\ Joined' = Joined /\ cancelled' = cancelled /\ cancelled
    BY <1>6, <2>1 DEF CleanerDrain, cleanerRest, closing, Joined, PoolInv, JoinSound,
                      Outstanding, CleanerAwake
  <2>4. Abstract!Drop(t)
    BY <2>2, <2>3 DEF Abstract!Drop, Abstract!Move
  <2> QED
    BY <2>1, <2>4 DEF Abstract!Next
<1>7. ASSUME MainWait
      PROVE  Abstract!Next
  <2>1. Outstanding = {}
    BY <1>7, OutstandingFinite, FS_EmptySet DEF MainWait, PoolInv, CountsOutstanding
  <2>2. \A t \in Tasks : life[t] \notin {"waiting", "running"}
    BY <2>1 DEF Outstanding, PoolInv, TypeOK, Life
  <2>3. life' = life /\ cancelled' = cancelled /\ ~Joined /\ Joined'
    BY <1>7 DEF MainWait, MainGoes, mainRest, Joined
  <2>4. Abstract!Join
    BY <2>2, <2>3 DEF Abstract!Join
  <2> QED
    BY <2>4 DEF Abstract!Next
<1>8. ASSUME MainStep, ~MainWait
      PROVE  UNCHANGED Abstract!taskPoolVars
  BY <1>8 DEF MainStep, MainSubmitted, MainCloseQuit, MainCloseBuf, MainStopWait, MainGoes,
              mainRest, Joined
<1>9. ASSUME NEW w \in Workers, WorkerStart(w) \/ WorkerLeave(w) \/ WorkerGone(w)
      PROVE  UNCHANGED Abstract!taskPoolVars
  BY <1>9 DEF WorkerStart, WorkerLeave, WorkerGone, closing, Joined
<1>10. ASSUME CleanerSample \/ CleanerCompare \/ CleanerRangeEnds \/ CleanerRelease
       PROVE  UNCHANGED Abstract!taskPoolVars
  BY <1>10 DEF CleanerSample, CleanerCompare, CleanerRangeEnds, CleanerRelease, cleanerRest,
               closing, Joined
<1>11. ASSUME Cancel
       PROVE  Abstract!Next
  <2>1. Abstract!Cancel
    BY <1>11 DEF Cancel, Abstract!Cancel, closing, Joined
  <2> QED
    BY <2>1 DEF Abstract!Next
<1>12. ASSUME UNCHANGED vars
       PROVE  UNCHANGED Abstract!taskPoolVars
  BY <1>12 DEF vars, Joined
<1> QED
  BY <1>1, <1>2, <1>3, <1>4, <1>5, <1>6, <1>7, <1>8, <1>9, <1>10, <1>11, <1>12
     DEF Next, Step, Ended, ThreadStep, WorkerStep, CleanerStep

\* The pool of channels and counters implements the abstract one: every task is
\* run at most once and never after Wait has returned, and one that is given up
\* belongs to a cancelled pool.
THEOREM PoolRefinesTaskPool == Spec => Implements
<1>1. Spec => Abstract!Init /\ [][Abstract!Next]_(Abstract!taskPoolVars)
  BY InitRefines, StepRefines, PoolInvariant, PTL DEF Spec
<1> QED
  BY <1>1 DEF Implements, Abstract!Spec
=============================================================================
