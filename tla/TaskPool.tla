------------------------------ MODULE TaskPool ------------------------------
(***************************************************************************)
(* What the rest of monocle expects of its worker pool, with no channel,   *)
(* goroutine or counter in it: a task handed to Submit is run once, and    *)
(* whoever joins the pool (Wait) passes only when no task is outstanding.  *)
(* WorkerPool.tla is the pool of the code and implements this.             *)
(***************************************************************************)
CONSTANT Tasks

VARIABLES life,       \* life[t]: how far task t has come
          cancelled,  \* the pool's context was cancelled
          joined      \* the call of Wait has returned

taskPoolVars == <<life, cancelled, joined>>

Lives == {"fresh", "waiting", "running", "done", "dropped"}

Init ==
  /\ life = [t \in Tasks |-> "fresh"]
  /\ cancelled = FALSE
  /\ joined = FALSE

Move(t, from, to) ==
  /\ life[t] = from
  /\ life' = [life EXCEPT ![t] = to]

Submit(t) == ~joined /\ Move(t, "fresh", "waiting") /\ UNCHANGED <<cancelled, joined>>

Start(t) == ~joined /\ Move(t, "waiting", "running") /\ UNCHANGED <<cancelled, joined>>

Finish(t) == ~joined /\ Move(t, "running", "done") /\ UNCHANGED <<cancelled, joined>>

\* Only a cancelled pool may give up a task it has not started.
Drop(t) ==
  /\ cancelled /\ ~joined
  /\ Move(t, "waiting", "dropped")
  /\ UNCHANGED <<cancelled, joined>>

Cancel == ~cancelled /\ cancelled' = TRUE /\ UNCHANGED <<life, joined>>

Join ==
  /\ ~joined
  /\ \A t \in Tasks : life[t] \notin {"waiting", "running"}
  /\ joined' = TRUE
  /\ UNCHANGED <<life, cancelled>>

Next ==
  \/ \E t \in Tasks : Submit(t) \/ Start(t) \/ Finish(t) \/ Drop(t)
  \/ Cancel
  \/ Join

Spec == Init /\ [][Next]_taskPoolVars
=============================================================================
