----------------------------- MODULE WorkerPool -----------------------------
(***************************************************************************)
(* The worker pool of src/pkg/workerPool/workerPool.go: a buffered channel *)
(* of closures read by a fixed set of goroutines, a WaitGroup that counts  *)
(* the closures not yet finished, a quit channel, and a goroutine (the     *)
(* cleaner) that wakes on a 90 s ticker and empties the channel of a       *)
(* cancelled pool.  Main is the goroutine of WebScraper.Run: it submits    *)
(* the first tasks, waits, and stops the pool.                             *)
(*                                                                         *)
(* A task may submit tasks while it runs, and Submit runs a task on the    *)
(* caller's own stack when the channel is full, so every thread has a      *)
(* stack of tasks.  Which task submits which is left open.                 *)
(*                                                                         *)
(* Definitions marked Variant are faulty forms of a definition below them, *)
(* which the properties tell apart; the specification does not use them.   *)
(***************************************************************************)
EXTENDS Naturals, Sequences, FiniteSets

CONSTANTS Workers,        \* goroutines that run worker()
          Main,           \* the goroutine that calls Submit, Wait and Stop
          Tasks,          \* closures that may be submitted
          QueueCapacity,  \* capacity of the channel buf
          Interrupts,     \* whether the pool's context may be cancelled
          None            \* no task

Threads == Workers \cup {Main}

ASSUME WorkerPoolAssumption ==
  /\ Main \notin Workers
  /\ IsFiniteSet(Workers)
  /\ IsFiniteSet(Tasks)
  /\ None \notin Tasks
  /\ QueueCapacity \in Nat \ {0}
  /\ Interrupts \in BOOLEAN

VARIABLES
  buf,        \* contents of the channel buf
  closed,     \* buf has been closed
  quit,       \* the channel quit has been closed
  wg,         \* counter of the WaitGroup
  workers,    \* the field workers: goroutines inside worker()
  wpc,        \* wpc[w]: where goroutine w is in worker()
  mpc,        \* where Main is in Run
  status,     \* status[t]: where task t is
  stack,      \* stack[th]: tasks on the stack of thread th, innermost last
  offer,      \* offer[th]: the task th has counted in wg but not yet sent
  cpc,        \* where the cleaner is
  tally,      \* the cleaner's sample, then the Done calls it has left
  cancelled,  \* the context is cancelled
  panicked    \* a goroutine panicked: the process is gone

vars == <<buf, closed, quit, wg, workers, wpc, mpc, status, stack, offer,
          cpc, tally, cancelled, panicked>>

cleanerVars == <<cpc, tally>>
workerVars  == <<workers, wpc>>
closing     == <<mpc, closed, quit>>

Outstanding == {t \in Tasks : status[t] \in {"offered", "queued", "running"}}

Joined == mpc \notin {"submitting", "waiting"}

TypeOK ==
  /\ buf \in Seq(Tasks) /\ Len(buf) <= QueueCapacity
  /\ closed \in BOOLEAN /\ quit \in BOOLEAN
  /\ wg \in Nat /\ workers \in Nat
  /\ wpc \in [Workers -> {"new", "select", "leaving", "gone"}]
  /\ mpc \in {"submitting", "waiting", "closeQuit", "closeBuf", "stopWait", "done"}
  /\ status \in [Tasks -> {"fresh", "offered", "queued", "running", "done", "dropped"}]
  /\ stack \in [Threads -> Seq(Tasks)]
  /\ offer \in [Threads -> Tasks \cup {None}]
  /\ cpc \in {"tick", "secondTick", "drain", "release", "ended"}
  /\ tally \in Nat
  /\ cancelled \in BOOLEAN /\ panicked \in BOOLEAN

Init ==
  /\ buf = <<>> /\ closed = FALSE /\ quit = FALSE
  /\ wg = 0 /\ workers = 0
  /\ wpc = [w \in Workers |-> "new"]
  /\ mpc = "submitting"
  /\ status = [t \in Tasks |-> "fresh"]
  /\ stack = [th \in Threads |-> <<>>]
  /\ offer = [th \in Threads |-> None]
  /\ cpc = "tick" /\ tally = 0
  /\ cancelled = FALSE /\ panicked = FALSE
-----------------------------------------------------------------------------
(* Submit *)

\* A thread executes user code that may call Submit: a task, or Run itself.
MaySubmit(th) ==
  /\ offer[th] = None
  /\ stack[th] # <<>> \/ (th = Main /\ mpc = "submitting")

\* wg.Add(1) happens before the task is visible to anyone.
SubmitAdd(th, t) ==
  /\ MaySubmit(th)
  /\ status[t] = "fresh"
  /\ wg' = wg + 1
  /\ status' = [status EXCEPT ![t] = "offered"]
  /\ offer' = [offer EXCEPT ![th] = t]
  /\ UNCHANGED <<buf, stack, workerVars, closing, cleanerVars, cancelled, panicked>>

\* select { case wp.buf <- wrap }: the channel has room, or it is closed and the
\* send panics.
SubmitEnqueue(th) ==
  /\ offer[th] # None
  /\ closed \/ Len(buf) < QueueCapacity
  /\ buf' = Append(buf, offer[th])
  /\ status' = [status EXCEPT ![offer[th]] = "queued"]
  /\ offer' = [offer EXCEPT ![th] = None]
  /\ panicked' = closed
  /\ UNCHANGED <<wg, stack, workerVars, closing, cleanerVars, cancelled>>

\* select { default: wrap() }: the channel is full and the caller runs the task.
SubmitInline(th) ==
  /\ offer[th] # None
  /\ ~closed
  /\ Len(buf) = QueueCapacity
  /\ stack' = [stack EXCEPT ![th] = Append(@, offer[th])]
  /\ status' = [status EXCEPT ![offer[th]] = "running"]
  /\ offer' = [offer EXCEPT ![th] = None]
  /\ UNCHANGED <<buf, wg, workerVars, closing, cleanerVars, cancelled, panicked>>

\* Variant: Done is forgotten.
DoneForgotten == UNCHANGED <<wg, panicked>>

\* wg.Done(): a counter that would turn negative panics instead.
Done ==
  /\ wg' = IF wg = 0 THEN 0 ELSE wg - 1
  /\ panicked' = (wg = 0)

\* The innermost task of th returns and wrap calls wg.Done().
TaskDone(th) ==
  /\ stack[th] # <<>>
  /\ offer[th] = None
  /\ status' = [status EXCEPT ![stack[th][Len(stack[th])]] = "done"]
  /\ stack' = [stack EXCEPT ![th] = SubSeq(@, 1, Len(@) - 1)]
  /\ Done
  /\ UNCHANGED <<buf, offer, workerVars, closing, cleanerVars, cancelled>>
-----------------------------------------------------------------------------
(* worker *)

WorkerStart(w) ==
  /\ wpc[w] = "new"
  /\ wpc' = [wpc EXCEPT ![w] = "select"]
  /\ workers' = workers + 1
  /\ UNCHANGED <<buf, wg, status, stack, offer, closing, cleanerVars, cancelled, panicked>>

AtSelect(w) == wpc[w] = "select" /\ stack[w] = <<>>

\* case task := <-wp.buf; a closed channel still delivers what it holds.
WorkerTake(w) ==
  /\ AtSelect(w)
  /\ buf # <<>>
  /\ buf' = Tail(buf)
  /\ status' = [status EXCEPT ![Head(buf)] = "running"]
  /\ stack' = [stack EXCEPT ![w] = <<Head(buf)>>]
  /\ UNCHANGED <<wg, offer, workerVars, closing, cleanerVars, cancelled, panicked>>

\* Variant: a worker that finds no task leaves.
WorkerLeaveIdle(w) ==
  /\ AtSelect(w)
  /\ quit \/ buf = <<>>
  /\ wpc' = [wpc EXCEPT ![w] = "leaving"]
  /\ UNCHANGED <<buf, wg, status, stack, offer, workers, closing, cleanerVars, cancelled, panicked>>

\* case <-wp.quit, or a closed and empty buf: the loop returns ...
WorkerLeave(w) ==
  /\ AtSelect(w)
  /\ quit \/ (closed /\ buf = <<>>)
  /\ wpc' = [wpc EXCEPT ![w] = "leaving"]
  /\ UNCHANGED <<buf, wg, status, stack, offer, workers, closing, cleanerVars, cancelled, panicked>>

\* ... and the deferred AddInt32 takes the goroutine off the count.
WorkerGone(w) ==
  /\ wpc[w] = "leaving"
  /\ wpc' = [wpc EXCEPT ![w] = "gone"]
  /\ workers' = workers - 1
  /\ UNCHANGED <<buf, wg, status, stack, offer, closing, cleanerVars, cancelled, panicked>>
-----------------------------------------------------------------------------
(* Run: the submit loop, Wait, Stop *)

MainGoes(from, to) == mpc = from /\ mpc' = to

mainRest == <<buf, wg, status, stack, offer, workerVars, cleanerVars, cancelled, panicked>>

MainSubmitted ==
  /\ stack[Main] = <<>> /\ offer[Main] = None
  /\ MainGoes("submitting", "waiting")
  /\ UNCHANGED <<closed, quit, mainRest>>

\* Variant: Stop is called without Wait.
MainWaitNot == MainGoes("waiting", "closeQuit") /\ UNCHANGED <<closed, quit, mainRest>>

MainWait == wg = 0 /\ MainGoes("waiting", "closeQuit") /\ UNCHANGED <<closed, quit, mainRest>>

MainCloseQuit == MainGoes("closeQuit", "closeBuf") /\ quit' = TRUE /\ UNCHANGED <<closed, mainRest>>

MainCloseBuf == MainGoes("closeBuf", "stopWait") /\ closed' = TRUE /\ UNCHANGED <<quit, mainRest>>

MainStopWait == wg = 0 /\ MainGoes("stopWait", "done") /\ UNCHANGED <<closed, quit, mainRest>>
-----------------------------------------------------------------------------
(* The ticker goroutine of NewWorkerPool, and cleanCalls *)

Cancel ==
  /\ Interrupts /\ ~cancelled
  /\ cancelled' = TRUE
  /\ UNCHANGED <<buf, wg, status, stack, offer, workerVars, closing, cleanerVars, panicked>>

Load == workers + Len(buf)

cleanerRest == <<stack, offer, workerVars, closing, cancelled>>

\* Ticks are 90 s apart: of everything modelled here only a task may take as long,
\* so a tick finds the pool with a task outstanding or already dissolved.
AtTick == wg > 0 \/ \A w \in Workers : wpc[w] = "gone"

\* Variant: every tick samples, whether or not the pool is cancelled.
CleanerSampleAlways ==
  /\ cpc = "tick" /\ AtTick
  /\ cpc' = "secondTick" /\ tally' = Load
  /\ UNCHANGED <<buf, wg, status, panicked, cleanerRest>>

\* A tick on a cancelled pool samples its load; other ticks do nothing.
CleanerSample ==
  /\ cpc = "tick" /\ AtTick /\ cancelled
  /\ cpc' = "secondTick" /\ tally' = Load
  /\ UNCHANGED <<buf, wg, status, panicked, cleanerRest>>

\* The next tick: an unchanged load is taken to mean that the pool is stuck.
CleanerCompare ==
  /\ cpc = "secondTick" /\ AtTick
  /\ cpc' = IF tally = Load THEN "drain" ELSE "tick"
  /\ tally' = 0
  /\ UNCHANGED <<buf, wg, status, panicked, cleanerRest>>

\* for range wp.buf { wp.wg.Done() }: the task is thrown away.
CleanerDrain ==
  /\ cpc = "drain" /\ buf # <<>>
  /\ buf' = Tail(buf)
  /\ status' = [status EXCEPT ![Head(buf)] = "dropped"]
  /\ Done
  /\ UNCHANGED <<cleanerVars, cleanerRest>>

\* Variant: the loop takes what is there and does not wait for the close.
CleanerRangeEndsEmpty ==
  /\ cpc = "drain" /\ buf = <<>>
  /\ cpc' = "release" /\ tally' = workers
  /\ UNCHANGED <<buf, wg, status, panicked, cleanerRest>>

\* The range ends only on a closed channel; the second loop reads workers once.
CleanerRangeEnds ==
  /\ cpc = "drain" /\ buf = <<>> /\ closed
  /\ cpc' = "release" /\ tally' = workers
  /\ UNCHANGED <<buf, wg, status, panicked, cleanerRest>>

\* for range wp.workers { wp.wg.Done() }
CleanerRelease ==
  /\ cpc = "release"
  /\ \/ tally > 0 /\ Done /\ tally' = tally - 1 /\ UNCHANGED cpc
     \/ tally = 0 /\ cpc' = "ended" /\ UNCHANGED <<wg, panicked, tally>>
  /\ UNCHANGED <<buf, status, cleanerRest>>
-----------------------------------------------------------------------------
ThreadStep(th) ==
  \/ \E t \in Tasks : SubmitAdd(th, t)
  \/ SubmitEnqueue(th)
  \/ SubmitInline(th)
  \/ TaskDone(th)

WorkerStep(w) == WorkerStart(w) \/ WorkerTake(w) \/ WorkerLeave(w) \/ WorkerGone(w)

MainStep == MainSubmitted \/ MainWait \/ MainCloseQuit \/ MainCloseBuf \/ MainStopWait

CleanerStep ==
  CleanerSample \/ CleanerCompare \/ CleanerDrain \/ CleanerRangeEnds \/ CleanerRelease

Step ==
  /\ ~panicked
  /\ \/ \E th \in Threads : ThreadStep(th)
     \/ \E w \in Workers : WorkerStep(w)
     \/ MainStep
     \/ CleanerStep
     \/ Cancel

\* The process has died, or Run has returned and every worker is gone; any other
\* state without a step is a deadlock.
Ended ==
  /\ panicked \/ (mpc = "done" /\ \A w \in Workers : wpc[w] = "gone")
  /\ UNCHANGED vars

Next == Step \/ Ended

Spec == Init /\ [][Next]_vars

\* The Go scheduler runs every goroutine that can run, a task body returns, a
\* worker at its select does not wait for ever next to a ready channel, and the
\* ticker of a cancelled pool keeps ticking.
Running(A) == ~panicked /\ A

Fairness ==
  /\ \A th \in Threads : WF_vars(Running(ThreadStep(th)))
  /\ \A w \in Workers : WF_vars(Running(WorkerStep(w)))
  /\ WF_vars(Running(MainStep))
  /\ WF_vars(Running(CleanerStep))

FairSpec == Spec /\ Fairness
-----------------------------------------------------------------------------
(* Properties *)

\* Wait is a barrier: once Run has passed it no closure is counted, queued or
\* running, although tasks submit tasks from other goroutines while Run waits
\* (workerPool.go: wg.Add precedes the send, wg.Done follows the body).
JoinSound == Joined => Outstanding = {}

\* Apart from the second loop of cleanCalls nothing in the pool panics: no send
\* meets a closed channel and no Done finds the counter at zero.
PanicsOnlyInRelease == panicked => cpc = "release"

\* The second loop of cleanCalls, meant to free a Wait held up by stuck workers,
\* is only reached when Wait has already returned: ranging over buf ends at the
\* close that Stop performs afterwards.
ReleaseAfterJoin == cpc \in {"release", "ended"} => Joined

Life(s) == IF s \in {"offered", "queued"} THEN "waiting" ELSE s

Abstract == INSTANCE TaskPool WITH
  life <- [t \in Tasks |-> Life(status[t])],
  joined <- Joined

\* The channel, the WaitGroup, caller-runs and the cleaner implement a pool that
\* runs each task at most once, drops a task only when cancelled, and joins only
\* when nothing is outstanding.
Implements == Abstract!Spec

\* No task is lost: what Submit counted is run or, in a cancelled pool, dropped,
\* even if every worker submits into a full channel at the same time; only a panic
\* takes tasks with it.
EverySubmittedTaskEnds ==
  \A t \in Tasks : status[t] = "offered" ~> status[t] \in {"done", "dropped"} \/ panicked

\* Run comes back from Wait and Stop, whether or not the crawl is interrupted while
\* tasks are queued, unless the process panics.
ReturnsOrPanics == <>(mpc = "done" \/ panicked)

\* What holds in every state and is preserved by every step: the status of a task
\* says in which queue, stack or offer it is found, and in one place only; the
\* WaitGroup counts exactly the tasks that are in such a place.
QueueHoldsQueued ==
  /\ \A i \in 1..Len(buf) : status[buf[i]] = "queued"
  /\ \A i, j \in 1..Len(buf) : buf[i] = buf[j] => i = j

StacksHoldRunning ==
  /\ \A th \in Threads : \A i \in 1..Len(stack[th]) : status[stack[th][i]] = "running"
  /\ \A th, ti \in Threads : \A i \in 1..Len(stack[th]), j \in 1..Len(stack[ti]) :
       stack[th][i] = stack[ti][j] => th = ti /\ i = j

OffersHoldOffered ==
  /\ \A th \in Threads : offer[th] # None => status[offer[th]] = "offered"
  /\ \A th, ti \in Threads : offer[th] = offer[ti] /\ offer[th] # None => th = ti

OnlyActiveThreadsHold ==
  /\ stack[Main] # <<>> \/ offer[Main] # None => mpc = "submitting"
  /\ \A w \in Workers : stack[w] # <<>> => wpc[w] = "select"
  /\ \A w \in Workers : offer[w] # None => stack[w] # <<>>

CountsOutstanding == wg = Cardinality(Outstanding)

CountsWorkers == workers = Cardinality({w \in Workers : wpc[w] \in {"select", "leaving"}})

ClosedAfterJoin ==
  /\ closed => Joined
  /\ cpc \in {"release", "ended"} => closed

CleanerAwake == cpc # "tick" => cancelled

PoolInv ==
  /\ TypeOK
  /\ QueueHoldsQueued /\ StacksHoldRunning /\ OffersHoldOffered
  /\ OnlyActiveThreadsHold
  /\ CountsOutstanding /\ CountsWorkers
  /\ ClosedAfterJoin /\ CleanerAwake
  /\ JoinSound
  /\ PanicsOnlyInRelease

\* Run comes back from Wait and Stop, so that Index can flush what it buffered: what
\* the documentation promises of an interrupted crawl.
StopReturns == <>(mpc = "done")
=============================================================================
