----------------------------- MODULE Vectorizer -----------------------------
(***************************************************************************)
(* The embedding queue of textHandling/vectorizer.go and its two kinds of  *)
(* callers.  fetchHTMLcontent asks for the vector of a document and waits  *)
(* for it or for the global context; Search asks for the vector of a query *)
(* and waits for it or for a timer of 5 s.  One goroutine, the batcher,    *)
(* sends what has queued up to the Python server and hands the answers to  *)
(* the channels of the requests.                                           *)
(*                                                                         *)
(* A text is named by the request that carries it, and so is its vector.   *)
(* The steps of this module are put together with those of the program     *)
(* around it in Lifecycle.                                                 *)
(*                                                                         *)
(* Definitions marked Variant are faulty forms of a definition below them, *)
(* which the properties tell apart; the specification does not use them.   *)
(***************************************************************************)
EXTENDS Naturals, Sequences, FiniteSets

CONSTANTS Scrapers,       \* goroutines in fetchHTMLcontent
          Searchers,      \* goroutines in Search
          Asks,           \* Asks[c]: how many requests c makes
          Capacities,     \* values that workers_count may have
          ServerMayFail,  \* whether a POST may end without an answer
          Nothing, Closed \* contents of a result channel that is not a vector

Clients == Scrapers \cup Searchers

Requests == UNION {{c} \X (1..Asks[c]) : c \in Clients}

ASSUME VectorizerAssumption ==
  /\ Scrapers \cap Searchers = {}
  /\ Asks \in [Clients -> Nat] /\ Capacities \subseteq Nat \ {0}
  /\ ServerMayFail \in BOOLEAN
  /\ Nothing # Closed /\ {Nothing, Closed} \cap Requests = {}

VARIABLES
  cap,        \* capacity of docQueue, from the configuration
  docQueue,   \* requests in the channel docQueue
  out,        \* out[r]: what the result channel of request r holds
  batch,      \* requests the batcher has taken and not answered yet
  vec,        \* vectors of the response, for the requests of batch
  bpc,        \* where the batcher is
  cpc,        \* cpc[c]: where client c is
  asked,      \* asked[c]: how many requests c has made
  result,     \* result[r]: what the caller of PutDocQuery got for request r
  expired,    \* searchers whose timer has run out
  cancelled,  \* the global context is done
  closed,     \* docQueue is closed
  panicked,   \* who has panicked, so that the process is gone; or Nothing
  lost        \* history: requests of batches the server has not answered

vectorizerVars ==
  <<cap, docQueue, out, batch, vec, bpc, cpc, asked, result, expired, cancelled, closed,
    panicked, lost>>

batcherVars == <<batch, vec, bpc, lost>>
clientVars  == <<cap, cpc, asked, result>>
ending      == <<cancelled, closed, panicked>>

TypeOK ==
  /\ cap \in Capacities
  /\ docQueue \in Seq(Requests) /\ Len(docQueue) <= cap
  /\ out \in [Requests -> Requests \cup {Nothing, Closed}]
  /\ batch \in Seq(Requests) /\ vec \in Seq(Requests)
  /\ bpc \in {"tick", "post", "deliver"}
  /\ cpc \in [Clients -> {"idle", "sending", "waiting"}]
  /\ asked \in [Clients -> Nat]
  /\ result \in [Requests -> Requests \cup {Nothing, Closed}]
  /\ expired \subseteq Searchers
  /\ {cancelled, closed} \subseteq BOOLEAN
  /\ lost \subseteq Requests

VectorizerInit ==
  /\ cap \in Capacities
  /\ docQueue = <<>> /\ batch = <<>> /\ vec = <<>> /\ bpc = "tick"
  /\ out = [r \in Requests |-> Nothing] /\ result = [r \in Requests |-> Nothing]
  /\ cpc = [c \in Clients |-> "idle"] /\ asked = [c \in Clients |-> 0]
  /\ expired = {} /\ lost = {}
  /\ cancelled = FALSE /\ closed = FALSE /\ panicked = Nothing
-----------------------------------------------------------------------------
(* Callers *)

Current(c) == <<c, asked[c]>>

\* Variant: a query waits for the global context, like a document.
ContextDoneGlobal(c) == cancelled

\* Variant: a document waits for no context.
ContextDoneNever(c) == c \in expired

\* The context given to PutDocQuery and selected on afterwards.
ContextDone(c) == IF c \in Searchers THEN c \in expired ELSE cancelled

Ask(c) ==
  /\ cpc[c] = "idle" /\ asked[c] < Asks[c]
  /\ cpc' = [cpc EXCEPT ![c] = "sending"]
  /\ asked' = [asked EXCEPT ![c] = @ + 1]
  /\ expired' = expired \ {c}
  /\ UNCHANGED <<docQueue, out, cap, batcherVars, result, ending>>

\* PutDocQuery: the request is sent when there is room ...
Send(c) ==
  /\ cpc[c] = "sending" /\ Len(docQueue) < cap /\ ~closed
  /\ docQueue' = Append(docQueue, Current(c))
  /\ cpc' = [cpc EXCEPT ![c] = "waiting"]
  /\ UNCHANGED <<out, cap, batcherVars, asked, result, expired, ending>>

\* ... unless the queue is closed: to send then is to panic ...
SendPanics(c) ==
  /\ cpc[c] = "sending" /\ closed
  /\ panicked' = "sender"
  /\ UNCHANGED <<docQueue, out, batcherVars, clientVars, expired, cancelled, closed>>

\* ... or its channel is closed when the context ends first.
SendGivesUp(c) ==
  /\ cpc[c] = "sending" /\ ContextDone(c)
  /\ out' = [out EXCEPT ![Current(c)] = Closed]
  /\ cpc' = [cpc EXCEPT ![c] = "waiting"]
  /\ UNCHANGED <<docQueue, cap, batcherVars, asked, result, expired, ending>>

Leaves(c) == cpc' = [cpc EXCEPT ![c] = "idle"]

\* case v, ok := <-PutDocQuery(...): a vector, or the closed channel.
Receive(c) ==
  /\ cpc[c] = "waiting" /\ out[Current(c)] # Nothing
  /\ result' = [result EXCEPT ![Current(c)] = out[Current(c)]]
  /\ out' = [out EXCEPT ![Current(c)] = IF @ = Closed THEN Closed ELSE Nothing]
  /\ Leaves(c)
  /\ UNCHANGED <<docQueue, cap, batcherVars, asked, expired, ending>>

\* case <-ctx.Done(): the request stays in the queue or in the batch.
GiveUp(c) ==
  /\ cpc[c] = "waiting" /\ ContextDone(c)
  /\ Leaves(c)
  /\ UNCHANGED <<docQueue, out, cap, batcherVars, asked, result, expired, ending>>

\* The 5 s of a query are over.
TimerRunsOut(c) ==
  /\ c \in Searchers \ expired /\ cpc[c] # "idle"
  /\ expired' = expired \cup {c}
  /\ UNCHANGED <<docQueue, out, batcherVars, clientVars, ending>>

\* Close: what is in the queue is still served.
Close ==
  /\ closed' = TRUE
  /\ UNCHANGED <<docQueue, out, batcherVars, clientVars, expired, cancelled, panicked>>
-----------------------------------------------------------------------------
(* The batcher *)

\* A tick: everything queued is taken.  The batcher is the only reader, so that
\* the loop over len(docQueue) always finds its elements, also those of a closed queue.
TakeBatch ==
  /\ bpc = "tick" /\ docQueue # <<>>
  /\ batch' = docQueue /\ docQueue' = <<>>
  /\ bpc' = "post"
  /\ UNCHANGED <<out, vec, lost, clientVars, expired, ending>>

\* The server embeds the texts in order; one that fails may leave out the last.
Post ==
  /\ bpc = "post"
  /\ vec' = batch \/ (ServerMayFail /\ vec' = SubSeq(batch, 1, Len(batch) - 1))
  /\ bpc' = "deliver"
  /\ UNCHANGED <<docQueue, out, batch, lost, clientVars, expired, ending>>

\* No answer, a status other than 200 or a body that does not decode: vectorize
\* returns, and the channels of the batch are neither written nor closed.
PostFails ==
  /\ bpc = "post" /\ ServerMayFail
  /\ batch' = <<>> /\ bpc' = "tick" /\ lost' = lost \cup {batch[i] : i \in DOMAIN batch}
  /\ UNCHANGED <<docQueue, out, vec, clientVars, expired, ending>>

Waits(r) == cpc[r[1]] = "waiting" /\ Current(r[1]) = r

\* Variant: requests whose caller has given up are skipped, but not their vectors.
DeliverSkipping ==
  /\ bpc = "deliver" /\ batch # <<>> /\ vec # <<>>
  /\ \/ /\ Waits(Head(batch)) /\ out[Head(batch)] = Nothing
        /\ out' = [out EXCEPT ![Head(batch)] = Head(vec)]
        /\ vec' = Tail(vec)
     \/ ~Waits(Head(batch)) /\ UNCHANGED <<out, vec>>
  /\ batch' = Tail(batch)
  /\ UNCHANGED <<docQueue, bpc, lost, clientVars, expired, ending>>

\* Variant: the result channel has no room, so that the caller must be there.
DeliverUnbuffered ==
  /\ bpc = "deliver" /\ batch # <<>> /\ vec # <<>>
  /\ Waits(Head(batch)) /\ out[Head(batch)] = Nothing
  /\ out' = [out EXCEPT ![Head(batch)] = Head(vec)]
  /\ batch' = Tail(batch) /\ vec' = Tail(vec)
  /\ UNCHANGED <<docQueue, bpc, lost, clientVars, expired, ending>>

\* r.out <- vecResponce.Vec[i]: the channel has room for one vector.
Deliver ==
  /\ bpc = "deliver" /\ batch # <<>> /\ vec # <<>>
  /\ out[Head(batch)] = Nothing
  /\ out' = [out EXCEPT ![Head(batch)] = Head(vec)]
  /\ batch' = Tail(batch) /\ vec' = Tail(vec)
  /\ UNCHANGED <<docQueue, bpc, lost, clientVars, expired, ending>>

\* Vec[i] is out of range when the response is too short.
DeliverPanics ==
  /\ bpc = "deliver" /\ batch # <<>> /\ vec = <<>>
  /\ panicked' = "batcher"
  /\ UNCHANGED <<docQueue, out, batcherVars, clientVars, expired, cancelled, closed>>

\* The ticks that piled up are drained and the next one is waited for.
DeliveredAll ==
  /\ bpc = "deliver" /\ batch = <<>>
  /\ bpc' = "tick" /\ vec' = <<>>
  /\ UNCHANGED <<docQueue, out, batch, lost, clientVars, expired, ending>>

BatcherStep == TakeBatch \/ Post \/ PostFails \/ Deliver \/ DeliverPanics \/ DeliveredAll

ClientStep(c) == Send(c) \/ SendPanics(c) \/ SendGivesUp(c) \/ Receive(c) \/ GiveUp(c)
=============================================================================
