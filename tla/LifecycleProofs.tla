-------------------------- MODULE LifecycleProofs --------------------------
(***************************************************************************)
(* The safety properties of Lifecycle, for any number of pages, requests   *)
(* and capacities: where a request can be while callers, batcher and Close *)
(* act on it, and who can meet a closed channel.                           *)
(***************************************************************************)
EXTENDS Lifecycle, SequenceTheorems, FiniteSetTheorems, TLAPS

\* Requests of c from this one on have not been sent.
Unsent(c) == IF cpc[c] = "sending" THEN asked[c] ELSE asked[c] + 1

Sent(r) == r[2] < Unsent(r[1])

\* Each client is at one of the requests it makes.
AskedInTurn ==
  /\ \A c \in Clients : asked[c] <= Asks[c] /\ (cpc[c] # "idle" => asked[c] > 0)
  /\ \A i \in 1..Len(docQueue) : Sent(docQueue[i])
  /\ \A i \in 1..Len(batch) : Sent(batch[i])
  /\ \A r \in Requests : out[r] # Nothing \/ result[r] # Nothing => Sent(r)

\* A request is in the queue once, or once in the batch.
InOnePlace ==
  /\ \A i, j \in 1..Len(docQueue) : docQueue[i] = docQueue[j] => i = j
  /\ \A i, j \in 1..Len(batch) : batch[i] = batch[j] => i = j
  /\ \A i \in 1..Len(docQueue), j \in 1..Len(batch) : docQueue[i] # batch[j]

\* While it is there nothing has been put into its channel.
Unanswered(r) == out[r] = Nothing /\ result[r] = Nothing

PlacedUnanswered ==
  /\ \A i \in 1..Len(docQueue) : Unanswered(docQueue[i])
  /\ \A i \in 1..Len(batch) : Unanswered(batch[i])

\* The vectors still to be delivered are those of the first requests of the batch.
VectorsInOrder ==
  /\ bpc = "tick" => batch = <<>>
  /\ bpc = "deliver" => /\ Len(vec) <= Len(batch)
                        /\ \A i \in 1..Len(vec) : vec[i] = batch[i]

OwnAnswers ==
  \A r \in Requests : out[r] \in {r, Nothing, Closed} /\ result[r] \in {r, Nothing, Closed}

VectorizerInv ==
  TypeOK /\ AskedInTurn /\ InOnePlace /\ PlacedUnanswered /\ VectorsInOrder /\ OwnAnswers

Past == {"cancel", "closeDB", "closeLog", "waitLog", "exited"}

ProgramTypes ==
  /\ mode \in {"cli", "gui"}
  /\ main \in {"server", "index", "ui", "search", "closeVec"} \cup Past
  /\ crawl \in {"none", "running", "saving", "ended"}
  /\ {dbOpen, saved, own, left, logClosed, sized, pressed} \subseteq BOOLEAN
  /\ logged \in 0..LogCapacity
  /\ logger \in {"range", "ended"}
  /\ panicked \in Panickers \cup {Nothing}

\* What has been closed tells how far main has come.
ClosedInOrder ==
  /\ closed => main \in Past
  /\ ~dbOpen <=> main \in {"closeLog", "waitLog", "exited"}
  /\ logClosed <=> main \in {"waitLog", "exited"}
  /\ logger = "ended" => logClosed /\ logged = 0

\* Pages are under way in a crawl that runs, a query while it is searched for, and the
\* cli does nothing else while it crawls.
WorkInPlace ==
  /\ crawl # "running" => \A c \in Scrapers : cpc[c] = "idle"
  /\ main # "search" => cpc[User] = "idle" /\ ~own
  /\ main = "server" => crawl = "none"
  /\ mode = "cli" /\ main \notin {"server", "index"} => crawl \in {"none", "ended"}
  /\ mode = "cli" /\ crawl = "ended" => saved

ProgramInv == ProgramTypes /\ ClosedInOrder /\ WorkInPlace /\ SendsAfterClose /\ NothingLost

LifecycleInv == VectorizerInv /\ ProgramInv
-----------------------------------------------------------------------------
(* The embedding queue *)

\* A request is a client and its number.
LEMMA RequestIsPair ==
  ASSUME NEW r \in Requests
  PROVE  r[1] \in Clients /\ r[2] \in 1..Asks[r[1]] /\ r = <<r[1], r[2]>>
BY DEF Requests

LEMMA PairIsRequest ==
  ASSUME NEW c \in Clients, NEW n \in 1..Asks[c]
  PROVE  <<c, n>> \in Requests
BY DEF Requests

\* What a client asks for is a request of its own.
LEMMA CurrentIsRequest ==
  ASSUME VectorizerInv, NEW c \in Clients, cpc[c] # "idle"
  PROVE  /\ Current(c) \in Requests
         /\ Current(c)[1] = c /\ Current(c)[2] = asked[c]
         /\ asked[c] \in Nat /\ asked[c] + 1 \in Nat
<1>1. asked[c] \in 1..Asks[c]
  BY VectorizerAssumption DEF VectorizerInv, TypeOK, AskedInTurn
<1> QED
  BY <1>1, PairIsRequest, VectorizerAssumption DEF Current

LEMMA QueueTypes ==
  ASSUME VectorizerInv
  PROVE  /\ docQueue \in Seq(Requests) /\ Len(docQueue) \in Nat
         /\ batch \in Seq(Requests) /\ Len(batch) \in Nat
         /\ vec \in Seq(Requests)
         /\ \A i \in 1..Len(docQueue) : docQueue[i] \in Requests
         /\ \A i \in 1..Len(batch) : batch[i] \in Requests
         /\ out \in [Requests -> Requests \cup {Nothing, Closed}]
         /\ result \in [Requests -> Requests \cup {Nothing, Closed}]
         /\ cpc \in [Clients -> {"idle", "sending", "waiting"}]
         /\ asked \in [Clients -> Nat]
BY DEF VectorizerInv, TypeOK

LEMMA InitVectorizerInv == Init => VectorizerInv
<1> SUFFICES ASSUME Init PROVE VectorizerInv
  OBVIOUS
<1> USE VectorizerAssumption DEF Init, VectorizerInit
<1>1. docQueue \in Seq(Requests) /\ Len(docQueue) = 0 /\ batch \in Seq(Requests) /\ Len(batch) = 0
  OBVIOUS
<1>2. TypeOK
  <2>1. 0 <= cap /\ docQueue = <<>> /\ vec \in Seq(Requests)
    OBVIOUS
  <2>2. out \in [Requests -> Requests \cup {Nothing, Closed}] /\ result \in [Requests -> Requests \cup {Nothing, Closed}]
    OBVIOUS
  <2>3. cpc \in [Clients -> {"idle", "sending", "waiting"}] /\ asked \in [Clients -> Nat]
    OBVIOUS
  <2> QED
    BY <1>1, <2>1, <2>2, <2>3 DEF TypeOK
<1>3. AskedInTurn /\ InOnePlace /\ PlacedUnanswered /\ VectorsInOrder /\ OwnAnswers
  BY <1>1 DEF AskedInTurn, InOnePlace, PlacedUnanswered, VectorsInOrder, OwnAnswers
<1> QED
  BY <1>2, <1>3 DEF VectorizerInv

\* Steps that leave queue, batch and channels alone.
LEMMA QueueUntouched ==
  ASSUME VectorizerInv,
         UNCHANGED <<cap, docQueue, out, batch, vec, bpc, cpc, asked, result, lost>>,
         expired' \subseteq Searchers, {cancelled', closed'} \subseteq BOOLEAN
  PROVE  VectorizerInv'
<1>1. TypeOK'
  BY DEF VectorizerInv, TypeOK
<1>2. AskedInTurn'
  BY DEF VectorizerInv, AskedInTurn, Sent, Unsent
<1>3. InOnePlace' /\ PlacedUnanswered' /\ VectorsInOrder' /\ OwnAnswers'
  BY DEF VectorizerInv, InOnePlace, PlacedUnanswered, Unanswered, VectorsInOrder, OwnAnswers
<1> QED
  BY <1>1, <1>2, <1>3 DEF VectorizerInv

\* A client goes from idle to sending, or back to idle.
LEMMA AskInv ==
  ASSUME VectorizerInv, NEW c \in Clients, Ask(c)
  PROVE  VectorizerInv'
<1> USE DEF Ask, batcherVars, ending
<1>1. asked[c] \in Nat /\ asked[c] + 1 <= Asks[c]
  BY VectorizerAssumption, QueueTypes
<1>2. TypeOK'
  BY <1>1 DEF VectorizerInv, TypeOK
<1>3. \A r \in Requests : Sent(r)' <=> Sent(r)
  BY <1>1, QueueTypes, RequestIsPair DEF Sent, Unsent
<1>4. AskedInTurn'
  <2>1. \A k \in Clients : asked'[k] <= Asks[k] /\ (cpc'[k] # "idle" => asked'[k] > 0)
    BY <1>1, QueueTypes DEF VectorizerInv, AskedInTurn
  <2> QED
    BY <1>3, <2>1, QueueTypes DEF VectorizerInv, AskedInTurn
<1>5. InOnePlace' /\ PlacedUnanswered' /\ VectorsInOrder' /\ OwnAnswers'
  BY DEF VectorizerInv, InOnePlace, PlacedUnanswered, Unanswered, VectorsInOrder, OwnAnswers
<1> QED
  BY <1>2, <1>4, <1>5 DEF VectorizerInv

LEMMA GiveUpInv ==
  ASSUME VectorizerInv, NEW c \in Clients, GiveUp(c)
  PROVE  VectorizerInv'
<1> USE DEF GiveUp, Leaves, batcherVars, ending
<1>1. TypeOK'
  BY DEF VectorizerInv, TypeOK
<1>2. \A r \in Requests : Sent(r)' <=> Sent(r)
  BY QueueTypes, RequestIsPair DEF Sent, Unsent
<1>3. AskedInTurn'
  BY <1>2, QueueTypes DEF VectorizerInv, AskedInTurn
<1>4. InOnePlace' /\ PlacedUnanswered' /\ VectorsInOrder' /\ OwnAnswers'
  BY DEF VectorizerInv, InOnePlace, PlacedUnanswered, Unanswered, VectorsInOrder, OwnAnswers
<1> QED
  BY <1>1, <1>3, <1>4 DEF VectorizerInv

\* A request that has not been sent is nowhere yet, and then at the end of the queue.
LEMMA SendInv ==
  ASSUME VectorizerInv, NEW c \in Clients, Send(c)
  PROVE  VectorizerInv'
<1> DEFINE r0 == Current(c)
<1>a. /\ cpc[c] = "sending" /\ Len(docQueue) < cap /\ docQueue' = Append(docQueue, r0)
      /\ cpc' = [cpc EXCEPT ![c] = "waiting"]
      /\ UNCHANGED <<cap, out, batch, vec, bpc, lost, asked, result, expired, cancelled, closed>>
  BY DEF Send, batcherVars, ending
<1>0. r0 \in Requests /\ r0[1] = c /\ r0[2] = asked[c] /\ asked[c] \in Nat
  BY <1>a, CurrentIsRequest
<1>1. /\ docQueue' \in Seq(Requests) /\ Len(docQueue') = Len(docQueue) + 1
      /\ \A i \in 1..Len(docQueue) : docQueue'[i] = docQueue[i]
      /\ docQueue'[Len(docQueue) + 1] = r0
  BY <1>0, <1>a, QueueTypes, AppendProperties
<1>2. ~Sent(r0)
  BY <1>0, <1>a DEF Sent, Unsent
<1> HIDE DEF r0
<1>3. TypeOK'
  <2>1. cap \in Nat /\ Len(docQueue') <= cap
    BY <1>1, <1>a, QueueTypes, VectorizerAssumption DEF VectorizerInv, TypeOK
  <2> QED
    BY <1>1, <1>a, <2>1 DEF VectorizerInv, TypeOK
<1>4. \A r \in Requests : Sent(r) \/ r = r0 => Sent(r)'
  BY <1>0, <1>a, QueueTypes, RequestIsPair DEF Sent, Unsent
<1>5. AskedInTurn'
  <2>1. \A k \in Clients : asked'[k] <= Asks[k] /\ (cpc'[k] # "idle" => asked'[k] > 0)
    BY <1>a, QueueTypes DEF VectorizerInv, AskedInTurn
  <2>2. (\A i \in 1..Len(docQueue) : Sent(docQueue[i]))'
    <3>1. \A i \in 1..Len(docQueue') : \E r \in Requests : r = docQueue'[i] /\ Sent(r)'
      <4>1. \A i \in 1..Len(docQueue) : docQueue'[i] \in Requests /\ Sent(docQueue[i])
        BY <1>1, QueueTypes DEF VectorizerInv, AskedInTurn
      <4>2. ASSUME NEW i \in 1..Len(docQueue)
            PROVE  \E r \in Requests : r = docQueue'[i] /\ Sent(r)'
        <5> DEFINE r == docQueue[i]
        <5>1. r \in Requests /\ Sent(r) /\ r = docQueue'[i]
          BY <1>1, <4>1, QueueTypes
        <5> HIDE DEF r
        <5> QED
          BY <1>4, <5>1
      <4>3. \E r \in Requests : r = docQueue'[Len(docQueue) + 1] /\ Sent(r)'
        BY <1>0, <1>1, <1>4
      <4> QED
        BY <1>1, <4>2, <4>3, QueueTypes
    <3> QED
      BY <3>1 DEF Sent, Unsent
  <2>3. (\A i \in 1..Len(batch) : Sent(batch[i]))'
    BY <1>4, <1>a, QueueTypes DEF VectorizerInv, AskedInTurn
  <2> QED
    BY <1>4, <1>a, <2>1, <2>2, <2>3 DEF VectorizerInv, AskedInTurn
<1>6. /\ \A i \in 1..Len(docQueue) : docQueue[i] # r0
      /\ \A i \in 1..Len(batch) : batch[i] # r0
      /\ Unanswered(r0)
  BY <1>0, <1>2, QueueTypes DEF VectorizerInv, AskedInTurn, Unanswered
<1>7. InOnePlace'
  <2>1. \A i \in 1..Len(docQueue') : i \in 1..Len(docQueue) \/ i = Len(docQueue) + 1
    BY <1>1, QueueTypes
  <2>2. ASSUME NEW i \in 1..Len(docQueue'), NEW j \in 1..Len(docQueue'),
               docQueue'[i] = docQueue'[j]
        PROVE  i = j
    <3>1. CASE i \in 1..Len(docQueue) /\ j \in 1..Len(docQueue)
      BY <1>1, <2>2, <3>1 DEF VectorizerInv, InOnePlace
    <3>2. CASE i = Len(docQueue) + 1 \/ j = Len(docQueue) + 1
      BY <1>1, <1>6, <2>1, <2>2, <3>2
    <3> QED
      BY <2>1, <3>1, <3>2
  <2>3. ASSUME NEW i \in 1..Len(docQueue'), NEW j \in 1..Len(batch)
        PROVE  docQueue'[i] # batch[j]
    <3>1. CASE i \in 1..Len(docQueue)
      BY <1>1, <3>1 DEF VectorizerInv, InOnePlace
    <3>2. CASE i = Len(docQueue) + 1
      BY <1>1, <1>6, <3>2
    <3> QED
      BY <2>1, <3>1, <3>2
  <2>4. batch' = batch /\ \A i, j \in 1..Len(batch) : batch[i] = batch[j] => i = j
    BY <1>a DEF VectorizerInv, InOnePlace
  <2> QED
    BY <2>2, <2>3, <2>4 DEF InOnePlace
<1>8. PlacedUnanswered'
  BY <1>1, <1>6, <1>a, QueueTypes, SMTT(30) DEF VectorizerInv, PlacedUnanswered, Unanswered
<1>9. VectorsInOrder' /\ OwnAnswers'
  BY <1>a DEF VectorizerInv, VectorsInOrder, OwnAnswers
<1> QED
  BY <1>3, <1>5, <1>7, <1>8, <1>9 DEF VectorizerInv

\* The channel of a request that was not sent is closed.
LEMMA SendGivesUpInv ==
  ASSUME VectorizerInv, NEW c \in Clients, SendGivesUp(c)
  PROVE  VectorizerInv'
<1> USE DEF SendGivesUp, batcherVars, ending
<1> DEFINE r0 == Current(c)
<1>0. r0 \in Requests /\ r0[1] = c /\ r0[2] = asked[c] /\ asked[c] \in Nat
  BY CurrentIsRequest
<1>1. ~Sent(r0)
  BY <1>0 DEF Sent, Unsent
<1> HIDE DEF r0
<1>2. out' = [out EXCEPT ![r0] = Closed]
  BY DEF r0
<1>3. TypeOK'
  BY <1>2 DEF VectorizerInv, TypeOK
<1>4. \A r \in Requests : Sent(r) \/ r = r0 => Sent(r)'
  BY <1>0, QueueTypes, RequestIsPair DEF Sent, Unsent
<1>5. AskedInTurn'
  BY <1>2, <1>4, QueueTypes DEF VectorizerInv, AskedInTurn
<1>6. /\ \A i \in 1..Len(docQueue) : docQueue[i] # r0
      /\ \A i \in 1..Len(batch) : batch[i] # r0
  BY <1>0, <1>1, QueueTypes DEF VectorizerInv, AskedInTurn
<1>7. InOnePlace' /\ VectorsInOrder'
  BY DEF VectorizerInv, InOnePlace, VectorsInOrder
<1>8. PlacedUnanswered' /\ OwnAnswers'
  BY <1>2, <1>6, QueueTypes DEF VectorizerInv, PlacedUnanswered, Unanswered, OwnAnswers
<1> QED
  BY <1>3, <1>5, <1>7, <1>8 DEF VectorizerInv

\* An answer is taken from its channel, which no queue can still lead to.
LEMMA ReceiveInv ==
  ASSUME VectorizerInv, NEW c \in Clients, Receive(c)
  PROVE  VectorizerInv'
<1> USE DEF Receive, Leaves, batcherVars, ending
<1> DEFINE r0 == Current(c)
<1>0. r0 \in Requests /\ r0[1] = c /\ r0[2] = asked[c] /\ asked[c] \in Nat
  BY CurrentIsRequest
<1> HIDE DEF r0
<1>1. /\ out[r0] # Nothing
      /\ result' = [result EXCEPT ![r0] = out[r0]]
      /\ out' = [out EXCEPT ![r0] = IF @ = Closed THEN Closed ELSE Nothing]
  BY DEF r0
<1>2. out[r0] \in Requests \cup {Nothing, Closed}
  BY <1>0, QueueTypes
<1>3. TypeOK'
  BY <1>1, <1>2 DEF VectorizerInv, TypeOK
<1>4. \A r \in Requests : Sent(r)' <=> Sent(r)
  BY QueueTypes, RequestIsPair DEF Sent, Unsent
<1>5. AskedInTurn'
  BY <1>0, <1>1, <1>4, QueueTypes DEF VectorizerInv, AskedInTurn
<1>6. /\ \A i \in 1..Len(docQueue) : docQueue[i] # r0
      /\ \A i \in 1..Len(batch) : batch[i] # r0
  BY <1>1 DEF VectorizerInv, PlacedUnanswered, Unanswered
<1>7. InOnePlace' /\ VectorsInOrder'
  BY DEF VectorizerInv, InOnePlace, VectorsInOrder
<1>8. PlacedUnanswered'
  BY <1>1, <1>6, QueueTypes DEF VectorizerInv, PlacedUnanswered, Unanswered
<1>9. OwnAnswers'
  BY <1>0, <1>1, QueueTypes DEF VectorizerInv, OwnAnswers
<1> QED
  BY <1>3, <1>5, <1>7, <1>8, <1>9 DEF VectorizerInv

LEMMA TakeBatchInv ==
  ASSUME VectorizerInv, TakeBatch
  PROVE  VectorizerInv'
<1>a. /\ bpc = "tick" /\ batch' = docQueue /\ docQueue' = <<>> /\ bpc' = "post"
      /\ UNCHANGED <<cap, out, vec, lost, cpc, asked, result, expired, cancelled, closed>>
  BY DEF TakeBatch, clientVars, ending
<1>1. docQueue' \in Seq(Requests) /\ Len(docQueue') = 0
  BY <1>a
<1>2. TypeOK'
  <2>1. 0 <= cap
    BY QueueTypes, VectorizerAssumption DEF VectorizerInv, TypeOK
  <2> QED
    BY <1>1, <1>a, <2>1 DEF VectorizerInv, TypeOK
<1>3. AskedInTurn'
  BY <1>1, <1>a DEF VectorizerInv, AskedInTurn, Sent, Unsent
<1>4. InOnePlace' /\ PlacedUnanswered'
  BY <1>1, <1>a DEF VectorizerInv, InOnePlace, PlacedUnanswered, Unanswered
<1>5. VectorsInOrder' /\ OwnAnswers'
  BY <1>a DEF VectorizerInv, VectorsInOrder, OwnAnswers
<1> QED
  BY <1>2, <1>3, <1>4, <1>5 DEF VectorizerInv

\* The vectors that come back are those of the first texts that were sent.
LEMMA PostInv ==
  ASSUME VectorizerInv, Post
  PROVE  VectorizerInv'
<1>a. /\ bpc' = "deliver"
      /\ vec' = batch \/ vec' = SubSeq(batch, 1, Len(batch) - 1)
      /\ UNCHANGED <<cap, docQueue, out, batch, lost, cpc, asked, result, expired, cancelled, closed>>
  BY DEF Post, clientVars, ending
<1>1. /\ vec' \in Seq(Requests) /\ Len(vec') <= Len(batch)
      /\ \A i \in 1..Len(vec') : vec'[i] = batch[i]
  <2>1. CASE vec' = batch
    BY <2>1, QueueTypes
  <2>2. CASE vec' = SubSeq(batch, 1, Len(batch) - 1)
    BY <2>2, QueueTypes
  <2> QED
    BY <1>a, <2>1, <2>2
<1>2. TypeOK'
  BY <1>1, <1>a DEF VectorizerInv, TypeOK
<1>3. AskedInTurn'
  BY <1>a DEF VectorizerInv, AskedInTurn, Sent, Unsent
<1>4. InOnePlace' /\ PlacedUnanswered' /\ OwnAnswers'
  BY <1>a DEF VectorizerInv, InOnePlace, PlacedUnanswered, Unanswered, OwnAnswers
<1>5. VectorsInOrder'
  BY <1>1, <1>a DEF VectorizerInv, VectorsInOrder
<1> QED
  BY <1>2, <1>3, <1>4, <1>5 DEF VectorizerInv

LEMMA PostFailsInv ==
  ASSUME VectorizerInv, PostFails
  PROVE  VectorizerInv'
<1>a. /\ batch' = <<>> /\ bpc' = "tick" /\ lost' = lost \cup {batch[i] : i \in DOMAIN batch}
      /\ UNCHANGED <<cap, docQueue, out, vec, cpc, asked, result, expired, cancelled, closed>>
  BY DEF PostFails, clientVars, ending
<1>1. batch' \in Seq(Requests) /\ Len(batch') = 0
  BY <1>a
<1>2. TypeOK'
  BY <1>1, <1>a, QueueTypes DEF VectorizerInv, TypeOK
<1>3. AskedInTurn'
  BY <1>1, <1>a DEF VectorizerInv, AskedInTurn, Sent, Unsent
<1>4. InOnePlace' /\ PlacedUnanswered'
  BY <1>1, <1>a DEF VectorizerInv, InOnePlace, PlacedUnanswered, Unanswered
<1>5. VectorsInOrder' /\ OwnAnswers'
  BY <1>a DEF VectorizerInv, VectorsInOrder, OwnAnswers
<1> QED
  BY <1>2, <1>3, <1>4, <1>5 DEF VectorizerInv

\* The first vector is the one of the first request, whose channel is empty.
LEMMA DeliverInv ==
  ASSUME VectorizerInv, Deliver
  PROVE  VectorizerInv'
<1> DEFINE r0 == Head(batch)
<1>a. /\ bpc = "deliver" /\ batch # <<>> /\ vec # <<>>
      /\ out' = [out EXCEPT ![r0] = Head(vec)]
      /\ batch' = Tail(batch) /\ vec' = Tail(vec)
      /\ UNCHANGED <<cap, docQueue, bpc, lost, cpc, asked, result, expired, cancelled, closed>>
  BY DEF Deliver, clientVars, ending
<1>0. r0 \in Requests /\ r0 = batch[1] /\ 1 \in 1..Len(batch)
  BY <1>a, QueueTypes
<1>1. /\ Len(vec) \in Nat /\ Len(vec) > 0
      /\ Head(vec) = vec[1] /\ vec[1] = batch[1]
  BY <1>a, QueueTypes DEF VectorizerInv, VectorsInOrder
<1>2. /\ batch' \in Seq(Requests) /\ Len(batch') = Len(batch) - 1
      /\ \A i \in 1..Len(batch') : batch'[i] = batch[i + 1] /\ i + 1 \in 1..Len(batch)
      /\ vec' \in Seq(Requests) /\ Len(vec') = Len(vec) - 1
      /\ \A i \in 1..Len(vec') : vec'[i] = vec[i + 1] /\ i + 1 \in 1..Len(vec)
  BY <1>a, QueueTypes, HeadTailProperties
<1> HIDE DEF r0
<1>3. out' = [out EXCEPT ![r0] = r0]
  BY <1>0, <1>1, <1>a
<1>4. TypeOK'
  BY <1>0, <1>2, <1>3, <1>a DEF VectorizerInv, TypeOK
<1>5. AskedInTurn'
  <2>1. \A r \in Requests : Sent(r)' <=> Sent(r)
    BY <1>a DEF Sent, Unsent
  <2>2. Sent(r0)
    BY <1>0 DEF VectorizerInv, AskedInTurn
  <2>3. \A r \in Requests : (out[r] # Nothing \/ result[r] # Nothing => Sent(r))'
    BY <1>0, <1>3, <1>a, <2>1, <2>2, QueueTypes DEF VectorizerInv, AskedInTurn
  <2>4. (\A i \in 1..Len(batch) : Sent(batch[i]))'
    BY <1>2, <1>a, QueueTypes DEF VectorizerInv, AskedInTurn, Sent, Unsent
  <2> QED
    BY <1>a, <2>3, <2>4 DEF VectorizerInv, AskedInTurn, Sent, Unsent
<1>6. InOnePlace'
  <2>1. (\A i, j \in 1..Len(batch) : batch[i] = batch[j] => i = j)'
    BY <1>2, QueueTypes DEF VectorizerInv, InOnePlace
  <2>2. (\A i \in 1..Len(docQueue), j \in 1..Len(batch) : docQueue[i] # batch[j])'
    <3>1. \A i \in 1..Len(docQueue), j \in 1..Len(batch) : docQueue[i] # batch[j]
      BY DEF VectorizerInv, InOnePlace
    <3>2. docQueue' = docQueue
      BY <1>a
    <3> QED
      BY <1>2, <3>1, <3>2
  <2> QED
    BY <1>a, <2>1, <2>2 DEF VectorizerInv, InOnePlace
<1>7. PlacedUnanswered'
  <2>1. \A i \in 1..Len(docQueue) : docQueue[i] # r0
    BY <1>0 DEF VectorizerInv, InOnePlace
  <2>2. \A i \in 1..Len(batch') : batch'[i] # r0 /\ batch'[i] \in Requests
    <3> SUFFICES ASSUME NEW i \in 1..Len(batch') PROVE batch'[i] # r0 /\ batch'[i] \in Requests
      OBVIOUS
    <3>1. batch'[i] = batch[i + 1] /\ i + 1 \in 1..Len(batch) /\ i + 1 # 1
      BY <1>2, QueueTypes
    <3> QED
      BY <1>0, <3>1, QueueTypes DEF VectorizerInv, InOnePlace
  <2>3. \A r \in Requests : r # r0 => (Unanswered(r)' <=> Unanswered(r))
    BY <1>3, <1>a, QueueTypes DEF Unanswered
  <2>4. (\A i \in 1..Len(docQueue) : Unanswered(docQueue[i]))'
    BY <1>3, <1>a, <2>1, QueueTypes DEF VectorizerInv, PlacedUnanswered, Unanswered
  <2>5. (\A i \in 1..Len(batch) : Unanswered(batch[i]))'
    <3> SUFFICES ASSUME NEW i \in 1..Len(batch') PROVE out'[batch'[i]] = Nothing /\ result'[batch'[i]] = Nothing
      BY DEF Unanswered
    <3>1. batch'[i] = batch[i + 1] /\ i + 1 \in 1..Len(batch)
      BY <1>2
    <3> QED
      BY <1>3, <1>a, <2>2, <3>1, QueueTypes DEF VectorizerInv, PlacedUnanswered, Unanswered
  <2> QED
    BY <2>4, <2>5 DEF PlacedUnanswered
<1>8. VectorsInOrder'
  BY <1>1, <1>2, <1>a, QueueTypes DEF VectorizerInv, VectorsInOrder
<1>9. OwnAnswers'
  BY <1>0, <1>3, <1>a, QueueTypes DEF VectorizerInv, OwnAnswers
<1> QED
  BY <1>4, <1>5, <1>6, <1>7, <1>8, <1>9 DEF VectorizerInv

LEMMA DeliveredAllInv ==
  ASSUME VectorizerInv, DeliveredAll
  PROVE  VectorizerInv'
<1>a. /\ batch = <<>> /\ bpc' = "tick" /\ vec' = <<>>
      /\ UNCHANGED <<cap, docQueue, out, batch, lost, cpc, asked, result, expired, cancelled, closed>>
  BY DEF DeliveredAll, clientVars, ending
<1>1. TypeOK'
  BY <1>a DEF VectorizerInv, TypeOK
<1>2. AskedInTurn'
  BY <1>a DEF VectorizerInv, AskedInTurn, Sent, Unsent
<1>3. InOnePlace' /\ PlacedUnanswered' /\ OwnAnswers' /\ VectorsInOrder'
  BY <1>a DEF VectorizerInv, InOnePlace, PlacedUnanswered, Unanswered, OwnAnswers, VectorsInOrder
<1> QED
  BY <1>1, <1>2, <1>3 DEF VectorizerInv

\* Every step of a client and of the batcher keeps the queue in order.
LEMMA ClientStepInv ==
  ASSUME VectorizerInv, NEW c \in Clients, ClientStep(c) \/ TimerRunsOut(c)
  PROVE  VectorizerInv'
<1>1. CASE SendPanics(c)
  BY <1>1, QueueUntouched DEF SendPanics, batcherVars, clientVars, VectorizerInv, TypeOK
<1>2. CASE TimerRunsOut(c)
  BY <1>2, QueueUntouched DEF TimerRunsOut, batcherVars, clientVars, ending, VectorizerInv, TypeOK
<1> QED
  BY <1>1, <1>2, SendInv, SendGivesUpInv, ReceiveInv, GiveUpInv DEF ClientStep

LEMMA BatcherStepInv ==
  ASSUME VectorizerInv, BatcherStep
  PROVE  VectorizerInv'
<1>1. CASE DeliverPanics
  BY <1>1, QueueUntouched DEF DeliverPanics, batcherVars, clientVars, VectorizerInv, TypeOK
<1> QED
  BY <1>1, TakeBatchInv, PostInv, PostFailsInv, DeliverInv, DeliveredAllInv DEF BatcherStep
-----------------------------------------------------------------------------
(* The program around it *)

\* A message is accepted while the channel of the logger is open, and else a panic.
LEMMA WriteInv ==
  ASSUME VectorizerInv, NEW who, Write(who)
  PROVE  /\ VectorizerInv'
         /\ UNCHANGED <<cpc, asked, result, closed>>
         /\ \/ logClosed /\ panicked' = who /\ logged' = logged
            \/ ~logClosed /\ panicked' = panicked /\ logged' = Least(logged + 1, LogCapacity)
<1>1. CASE logClosed
  <2>1. VectorizerInv'
    BY <1>1, QueueUntouched DEF Write, batcherVars, clientVars, VectorizerInv, TypeOK
  <2> QED
    BY <1>1, <2>1 DEF Write, clientVars
<1>2. CASE ~logClosed
  <2>1. VectorizerInv'
    BY <1>2, QueueUntouched DEF Write, vectorizerVars, VectorizerInv, TypeOK
  <2> QED
    BY <1>2, <2>1 DEF Write, vectorizerVars
<1> QED
  BY <1>1, <1>2

LEMMA LoggedInRange ==
  ASSUME logged \in 0..LogCapacity
  PROVE  Least(logged + 1, LogCapacity) \in 0..LogCapacity
BY LifecycleAssumption DEF Least

\* The one searcher is no page.
LEMMA UserIsNoPage == User \in Clients /\ User \notin Scrapers /\ Clients = Scrapers \cup {User}
BY VectorizerAssumption, LifecycleAssumption DEF Clients

\* The steps of the goroutine of the logger.
LEMMA LoggerStepInv ==
  ASSUME LifecycleInv, Alive, LoggerStep
  PROVE  LifecycleInv'
<1> USE DEF LifecycleInv
<1>a. UNCHANGED <<mode, main, dbOpen, sized, pressed, listener, crawl, saved, own, left, logClosed,
                  cpc, closed>>
  BY DEF LoggerStep, LoggerWrites, LoggerEnds, ShowPanics, vectorizerVars, clientVars, mainVars,
         signalVars, crawlVars, searchVars
<1>b. /\ panicked' = panicked \/ (mode = "gui" /\ ~sized /\ panicked' = "interface")
      /\ \/ logger = "range" /\ logged > 0 /\ logged' = logged - 1 /\ logger' = logger
         \/ logged = 0 /\ logClosed /\ logger' = "ended" /\ logged' = logged
  BY DEF LoggerStep, LoggerWrites, LoggerEnds, ShowPanics, vectorizerVars
<1>1. VectorizerInv'
  BY QueueUntouched DEF LoggerStep, LoggerWrites, LoggerEnds, ShowPanics, vectorizerVars, batcherVars,
     clientVars, VectorizerInv, TypeOK
<1>2. ProgramTypes'
  BY <1>a, <1>b, LifecycleAssumption DEF ProgramInv, ProgramTypes, Panickers
<1>3. ClosedInOrder' /\ WorkInPlace'
  BY <1>a, <1>b DEF ProgramInv, ProgramTypes, ClosedInOrder, WorkInPlace
<1>4. SendsAfterClose' /\ NothingLost'
  BY <1>a, <1>b DEF ProgramInv, ProgramTypes, SendsAfterClose, NothingLost, Leaving
<1> QED
  BY <1>1, <1>2, <1>3, <1>4 DEF ProgramInv

LEMMA SignalStepInv ==
  ASSUME LifecycleInv, Alive, Interrupt \/ ListenerStep
  PROVE  LifecycleInv'
<1> USE DEF LifecycleInv
<1>a. /\ UNCHANGED <<mode, main, dbOpen, sized, crawl, saved, own, left, logClosed, logger>>
      /\ pressed' \in BOOLEAN
  BY DEF Interrupt, ListenerStep, ListenerWakes, ListenerCancels, WriteOnly, mainVars, crawlVars,
     searchVars, logVars, ProgramInv, ProgramTypes
<1>b. /\ VectorizerInv' /\ UNCHANGED <<cpc, closed>>
      /\ \/ panicked' = panicked /\ logged' \in {logged, Least(logged + 1, LogCapacity)}
               /\ (logClosed => logged' = logged)
         \/ panicked' = "listener" /\ mode = "gui" /\ logClosed /\ logged' = logged
  <2>1. CASE Interrupt
    BY <2>1, QueueUntouched DEF Interrupt, vectorizerVars, logVars, VectorizerInv, TypeOK
  <2>2. CASE ListenerWakes /\ mode = "gui"
    BY <2>2, WriteInv DEF ListenerWakes, WriteOnly
  <2>3. CASE ListenerWakes /\ mode # "gui"
    BY <2>3, QueueUntouched DEF ListenerWakes, vectorizerVars, logVars, VectorizerInv, TypeOK
  <2>4. CASE ListenerCancels
    BY <2>4, QueueUntouched DEF ListenerCancels, Cancel, batcherVars, clientVars, logVars, VectorizerInv, TypeOK
  <2> QED
    BY <2>1, <2>2, <2>3, <2>4 DEF ListenerStep
<1>2. ProgramTypes'
  BY <1>a, <1>b, LoggedInRange DEF ProgramInv, ProgramTypes, Panickers
<1>3. ClosedInOrder' /\ WorkInPlace'
  BY <1>a, <1>b DEF ProgramInv, ProgramTypes, ClosedInOrder, WorkInPlace
<1>4. SendsAfterClose' /\ NothingLost'
  BY <1>a, <1>b DEF Alive, ProgramInv, ProgramTypes, ClosedInOrder, SendsAfterClose, NothingLost, Leaving
<1> QED
  BY <1>2, <1>3, <1>4, <1>b DEF ProgramInv

\* The vectorizer's own steps, with everything else at rest.
LEMMA QueueStepInv ==
  ASSUME LifecycleInv, Alive, Others,
         \/ \E c \in Clients : ClientStep(c) \/ TimerRunsOut(c)
         \/ BatcherStep
  PROVE  LifecycleInv'
<1> USE DEF LifecycleInv
<1>a. UNCHANGED <<mode, main, dbOpen, sized, pressed, listener, crawl, saved, own, left, logged,
                  logClosed, logger>>
  BY DEF Others, mainVars, signalVars, crawlVars, searchVars, logVars
<1>1. VectorizerInv'
  BY ClientStepInv, BatcherStepInv
<1> DEFINE Busy == panicked' = "sender" /\ closed /\ (\E c \in Clients : cpc[c] # "idle")
<1>b. /\ closed' = closed
      /\ \A c \in Clients : cpc[c] = "idle" => cpc'[c] = "idle"
      /\ panicked' \in {panicked, "batcher"} \/ Busy
  <2>1. CASE BatcherStep
    BY <2>1 DEF BatcherStep, TakeBatch, Post, PostFails, Deliver, DeliverPanics, DeliveredAll, clientVars, ending
  <2>2. ASSUME NEW c \in Clients, ClientStep(c) \/ TimerRunsOut(c)
        PROVE  /\ closed' = closed
               /\ \A k \in Clients : cpc[k] = "idle" => cpc'[k] = "idle"
               /\ panicked' \in {panicked, "batcher"} \/ Busy
    <3>1. CASE SendPanics(c)
      BY <3>1 DEF SendPanics, clientVars
    <3>2. CASE TimerRunsOut(c)
      BY <3>2 DEF TimerRunsOut, clientVars, ending
    <3>3. CASE Send(c) \/ SendGivesUp(c)
      BY <3>3, QueueTypes DEF Send, SendGivesUp, ending
    <3>4. CASE Receive(c) \/ GiveUp(c)
      BY <3>4, QueueTypes DEF Receive, GiveUp, Leaves, ending
    <3> QED
      BY <2>2, <3>1, <3>2, <3>3, <3>4 DEF ClientStep
  <2> QED
    BY <2>1, <2>2
<1>2. ProgramTypes'
  BY <1>a, <1>b DEF ProgramInv, ProgramTypes, Panickers
<1>3. ClosedInOrder' /\ WorkInPlace'
  BY <1>a, <1>b, UserIsNoPage DEF ProgramInv, ClosedInOrder, WorkInPlace
<1>4. SendsAfterClose' /\ NothingLost'
  BY <1>a, <1>b, UserIsNoPage
     DEF Alive, ProgramInv, ProgramTypes, ClosedInOrder, WorkInPlace, SendsAfterClose, NothingLost, Leaving, Past
<1> QED
  BY <1>1, <1>2, <1>3, <1>4 DEF ProgramInv

\* A page asks for its vector while the crawl runs.
LEMMA PageAsksInv ==
  ASSUME LifecycleInv, Alive, NEW c \in Scrapers, PageAsks(c)
  PROVE  LifecycleInv'
<1> USE DEF LifecycleInv
<1>a. UNCHANGED <<mode, main, dbOpen, sized, pressed, listener, crawl, saved, own, left, logged,
                  logClosed, logger, closed, panicked>>
  BY DEF PageAsks, Ask, ending, mainVars, signalVars, crawlVars, searchVars, logVars
<1>1. VectorizerInv'
  BY AskInv, UserIsNoPage DEF PageAsks
<1>b. crawl = "running" /\ cpc'[User] = cpc[User]
  BY QueueTypes, UserIsNoPage DEF PageAsks, Ask
<1>2. ProgramTypes' /\ ClosedInOrder' /\ WorkInPlace'
  BY <1>a, <1>b DEF ProgramInv, ProgramTypes, ClosedInOrder, WorkInPlace
<1>3. SendsAfterClose' /\ NothingLost'
  BY <1>a DEF ProgramInv, SendsAfterClose, NothingLost, Leaving
<1> QED
  BY <1>1, <1>2, <1>3 DEF ProgramInv

\* Index logs, returns from Run and saves.
LEMMA CrawlStepInv ==
  ASSUME LifecycleInv, Alive, CrawlLogs \/ CrawlStep
  PROVE  LifecycleInv'
<1> USE DEF LifecycleInv
<1>a. UNCHANGED <<mode, main, dbOpen, sized, pressed, listener, own, left, logClosed, logger>>
  BY DEF CrawlLogs, WriteOnly, CrawlStep, RunReturns, IndexSaves, mainVars, signalVars, searchVars, logVars
<1>b. /\ VectorizerInv' /\ UNCHANGED <<cpc, closed>>
      /\ \/ panicked' = panicked /\ logged' \in {logged, Least(logged + 1, LogCapacity)}
               /\ (logClosed => logged' = logged)
         \/ panicked' = "crawl" /\ crawl \in {"running", "saving"} /\ logClosed /\ logged' = logged
  <2>1. CASE CrawlLogs
    BY <2>1, WriteInv DEF CrawlLogs, WriteOnly
  <2>2. CASE CrawlStep
    BY <2>2, QueueUntouched DEF CrawlStep, RunReturns, IndexSaves, vectorizerVars, logVars, VectorizerInv, TypeOK
  <2> QED
    BY <2>1, <2>2
<1>c. \/ UNCHANGED <<crawl, saved>>
      \/ crawl = "running" /\ crawl' = "saving" /\ saved' = saved /\ (\A c \in Scrapers : cpc[c] = "idle")
      \/ crawl = "saving" /\ crawl' = "ended" /\ saved' = dbOpen
  BY DEF CrawlLogs, CrawlStep, RunReturns, IndexSaves, crawlVars
<1>2. ProgramTypes'
  BY <1>a, <1>b, <1>c, LoggedInRange DEF ProgramInv, ProgramTypes, Panickers
<1>3. ClosedInOrder' /\ WorkInPlace'
  BY <1>a, <1>b, <1>c DEF ProgramInv, ProgramTypes, ClosedInOrder, WorkInPlace, Past
<1>4. SendsAfterClose' /\ NothingLost'
  BY <1>a, <1>b, <1>c
     DEF Alive, ProgramInv, ProgramTypes, ClosedInOrder, WorkInPlace, SendsAfterClose, NothingLost, Leaving, Past
<1> QED
  BY <1>2, <1>3, <1>4, <1>b DEF ProgramInv

\* The program goes from its start to its interface.
LEMMA StartInv ==
  ASSUME LifecycleInv, Alive, ServerIsUp \/ StartFails \/ ServerGivenUp \/ IndexOver
  PROVE  LifecycleInv'
<1> USE DEF LifecycleInv
<1>a. UNCHANGED <<mode, dbOpen, sized, pressed, listener, own, left, logClosed, logger>>
  BY DEF ServerIsUp, StartFails, ServerGivenUp, IndexOver, Goto, WriteOnly, signalVars, searchVars, logVars
<1>b. VectorizerInv' /\ UNCHANGED <<cpc, closed>>
  <2>1. CASE UNCHANGED vectorizerVars
    BY <2>1, QueueUntouched DEF vectorizerVars, VectorizerInv, TypeOK
  <2> QED
    BY <2>1, WriteInv DEF ServerIsUp, StartFails, ServerGivenUp, IndexOver, WriteOnly
<1>c. ~logClosed /\ dbOpen
  BY DEF ServerIsUp, StartFails, ServerGivenUp, IndexOver, ProgramInv, ClosedInOrder
<1>d. panicked' = panicked /\ logged' \in {logged, Least(logged + 1, LogCapacity)}
  BY <1>c, WriteInv DEF ServerIsUp, StartFails, ServerGivenUp, IndexOver, WriteOnly, vectorizerVars, logVars
<1>e. \/ main = "server" /\ main' \in {"index", "ui"} /\ crawl' \in {"running", "ended"}
               /\ saved' = (crawl' = "ended") /\ (mode = "cli" => main' = "index")
      \/ main = "server" /\ main' \in {"closeVec", "cancel", "closeDB"} /\ UNCHANGED <<crawl, saved>>
      \/ main = "index" /\ main' \in {"ui", "closeVec"} /\ crawl = "ended" /\ UNCHANGED <<crawl, saved>>
  BY DEF ServerIsUp, StartFails, ServerGivenUp, IndexOver, Indexed, Goto, crawlVars, ProgramInv, ProgramTypes
<1>2. ProgramTypes'
  BY <1>a, <1>b, <1>d, <1>e, LoggedInRange DEF ProgramInv, ProgramTypes, Past
<1>3. ClosedInOrder' /\ WorkInPlace'
  BY <1>a, <1>b, <1>c, <1>e DEF ProgramInv, ProgramTypes, ClosedInOrder, WorkInPlace, Past
<1>4. SendsAfterClose' /\ NothingLost'
  BY LifecycleAssumption, <1>a, <1>c, <1>d, <1>e DEF Alive, ProgramInv, ProgramTypes, SendsAfterClose, NothingLost, Panickers
<1> QED
  BY <1>2, <1>3, <1>4, <1>b DEF ProgramInv

\* A search begins and returns, and its words log meanwhile.
LEMMA SearchStepInv ==
  ASSUME LifecycleInv, Alive, SearchBegins \/ WordLogs \/ WordsEnd \/ SearchReturns
  PROVE  LifecycleInv'
<1> USE DEF LifecycleInv
<1>a. UNCHANGED <<mode, dbOpen, sized, pressed, listener, crawl, saved, logClosed, logger>>
  BY DEF SearchBegins, WordLogs, WordsEnd, SearchReturns, Goto, WriteOnly, mainVars, signalVars,
         crawlVars, logVars
<1>b. /\ VectorizerInv' /\ closed' = closed
      /\ \A c \in Scrapers : cpc'[c] = cpc[c]
      /\ main' # "search" => cpc'[User] = "idle"
  <2>1. CASE SearchBegins
    BY <2>1, AskInv, QueueTypes, UserIsNoPage DEF SearchBegins, Goto, Ask, ending
  <2>2. CASE WordLogs
    BY <2>2, WriteInv DEF WordLogs, WriteOnly, mainVars, ProgramInv, WorkInPlace
  <2>3. CASE WordsEnd
    BY <2>3, QueueUntouched DEF WordsEnd, vectorizerVars, mainVars, VectorizerInv, TypeOK, ProgramInv, WorkInPlace
  <2>4. CASE SearchReturns
    BY <2>4, WriteInv DEF SearchReturns, WriteOnly
  <2> QED
    BY <2>1, <2>2, <2>3, <2>4
<1>c. \/ panicked' = panicked /\ logged' \in {logged, Least(logged + 1, LogCapacity)}
               /\ (logClosed => logged' = logged)
      \/ panicked' = "word" /\ logClosed /\ logged' = logged /\ (own \/ left) /\ UNCHANGED <<own, left>>
               /\ main' = main
  <2>1. CASE SearchBegins \/ WordsEnd
    BY <2>1 DEF SearchBegins, WordsEnd, Ask, ending, vectorizerVars, logVars
  <2>2. CASE WordLogs
    BY <2>2, WriteInv DEF WordLogs, WriteOnly, searchVars, mainVars
  <2>3. CASE SearchReturns
    BY <2>3, WriteInv DEF SearchReturns, WriteOnly, ProgramInv, ClosedInOrder
  <2> QED
    BY <2>1, <2>2, <2>3
<1>d. \/ main = "ui" /\ main' = "search" /\ own' = TRUE /\ left' = left
      \/ main' = main /\ own' \in {own, FALSE} /\ left' \in {left, FALSE}
      \/ main = "search" /\ main' = "ui" /\ own' = FALSE /\ left' = (left \/ own)
  BY DEF SearchBegins, WordLogs, WordsEnd, SearchReturns, Goto, mainVars, searchVars
<1>2. ProgramTypes'
  BY <1>a, <1>c, <1>d, LoggedInRange DEF ProgramInv, ProgramTypes, Panickers
<1>3. ClosedInOrder' /\ WorkInPlace'
  <2>1. ClosedInOrder'
    BY <1>a, <1>b, <1>c, <1>d DEF ProgramInv, ProgramTypes, ClosedInOrder, Past
  <2>2. main' # "search" => ~own'
    BY <1>d DEF ProgramInv, WorkInPlace
  <2>3. (mode = "cli" /\ main \notin {"server", "index"} => crawl \in {"none", "ended"})'
    BY <1>a, <1>d DEF ProgramInv, WorkInPlace
  <2>4. main' = "server" => main = "server"
    BY <1>d
  <2> QED
    BY <1>a, <1>b, <2>1, <2>2, <2>3, <2>4 DEF ProgramInv, WorkInPlace
<1>4. SendsAfterClose' /\ NothingLost'
  BY LifecycleAssumption, <1>a, <1>c, <1>d
     DEF Alive, ProgramInv, ProgramTypes, ClosedInOrder, WorkInPlace, SendsAfterClose, NothingLost, Leaving,
         Panickers
<1> QED
  BY <1>2, <1>3, <1>4, <1>b DEF ProgramInv

\* The interface learns its size or is quit, and the deferred calls run.
LEMMA LeaveInv ==
  ASSUME LifecycleInv, Alive, WindowSize \/ Quit \/ Leave
  PROVE  LifecycleInv'
<1> USE DEF LifecycleInv
<1>a. /\ UNCHANGED <<mode, pressed, listener, crawl, saved, own, left, logged, logger>>
      /\ sized' \in BOOLEAN
  BY DEF WindowSize, Quit, Leave, CloseVec, CancelAll, CloseDB, CloseLog, Exit, Goto, signalVars,
         crawlVars, searchVars, logVars, ProgramInv, ProgramTypes
<1>b. VectorizerInv' /\ UNCHANGED <<cpc, panicked>>
  <2>1. CASE CloseVec
    BY <2>1, QueueUntouched DEF CloseVec, Close, batcherVars, clientVars, VectorizerInv, TypeOK
  <2>2. CASE CancelAll
    BY <2>2, QueueUntouched DEF CancelAll, Cancel, batcherVars, clientVars, VectorizerInv, TypeOK
  <2>3. CASE WindowSize \/ Quit \/ CloseDB \/ CloseLog \/ Exit
    BY <2>3, QueueUntouched DEF WindowSize, Quit, CloseDB, CloseLog, Exit, vectorizerVars, VectorizerInv, TypeOK
  <2> QED
    BY <2>1, <2>2, <2>3 DEF Leave
<1>c. \/ main' = main /\ UNCHANGED <<closed, dbOpen, logClosed>>
      \/ main = "ui" /\ main' = "closeVec" /\ UNCHANGED <<closed, dbOpen, logClosed>>
      \/ main = "closeVec" /\ main' = "cancel" /\ closed' = TRUE /\ UNCHANGED <<dbOpen, logClosed>>
      \/ main = "cancel" /\ main' = "closeDB" /\ UNCHANGED <<closed, dbOpen, logClosed>>
      \/ main = "closeDB" /\ main' = "closeLog" /\ dbOpen' = FALSE /\ UNCHANGED <<closed, logClosed>>
      \/ main = "closeLog" /\ main' = "waitLog" /\ logClosed' = TRUE /\ UNCHANGED <<closed, dbOpen>>
      \/ main = "waitLog" /\ main' = "exited" /\ logger = "ended" /\ UNCHANGED <<closed, dbOpen, logClosed>>
  BY DEF WindowSize, Quit, Leave, CloseVec, CancelAll, CloseDB, CloseLog, Exit, Goto, Close, Cancel,
         LoggerEnded, vectorizerVars, logVars
<1>2. ProgramTypes'
  BY <1>a, <1>b, <1>c DEF ProgramInv, ProgramTypes, Past
<1>3. ClosedInOrder'
  BY <1>a, <1>c DEF ProgramInv, ProgramTypes, ClosedInOrder, Past
<1>4. WorkInPlace'
  BY <1>a, <1>b, <1>c DEF ProgramInv, WorkInPlace
<1>5. SendsAfterClose' /\ NothingLost'
  BY LifecycleAssumption, <1>a, <1>b, <1>c
     DEF Alive, ProgramInv, ClosedInOrder, WorkInPlace, SendsAfterClose, NothingLost, Panickers
<1> QED
  BY <1>2, <1>3, <1>4, <1>5, <1>b DEF ProgramInv

LEMMA InitInv == Init => LifecycleInv
<1> SUFFICES ASSUME Init PROVE LifecycleInv
  OBVIOUS
<1>1. cpc = [c \in Clients |-> "idle"] /\ panicked = Nothing /\ closed = FALSE
  BY DEF Init, VectorizerInit
<1>2. ProgramTypes /\ ClosedInOrder
  <2>1. logged = 0 /\ 0 \in 0..LogCapacity
    BY LifecycleAssumption DEF Init
  <2>2. ProgramTypes
    BY <1>1, <2>1 DEF Init, ProgramTypes
  <2> QED
    BY <1>1, <2>2 DEF Init, ClosedInOrder
<1>3. WorkInPlace
  BY <1>1, UserIsNoPage DEF Init, WorkInPlace
<1>4. SendsAfterClose /\ NothingLost
  BY <1>1, LifecycleAssumption DEF Init, SendsAfterClose, NothingLost, Panickers
<1> QED
  BY <1>2, <1>3, <1>4, InitVectorizerInv DEF LifecycleInv, ProgramInv

LEMMA NextInv == LifecycleInv /\ [Next]_vars => LifecycleInv'
<1> SUFFICES ASSUME LifecycleInv, [Next]_vars PROVE LifecycleInv'
  OBVIOUS
<1>1. CASE UNCHANGED vars
  <2>1. VectorizerInv'
    BY <1>1, QueueUntouched DEF vars, vectorizerVars, LifecycleInv, VectorizerInv, TypeOK
  <2>2. ProgramTypes' /\ ClosedInOrder' /\ WorkInPlace' /\ SendsAfterClose' /\ NothingLost'
    BY <1>1 DEF vars, vectorizerVars, mainVars, signalVars, crawlVars, searchVars, logVars, LifecycleInv,
       ProgramInv, ProgramTypes, ClosedInOrder, WorkInPlace, SendsAfterClose, NothingLost, Leaving
  <2> QED
    BY <2>1, <2>2 DEF LifecycleInv, ProgramInv
<1>2. CASE Alive /\ (LoggerStep \/ Interrupt \/ ListenerStep)
  BY <1>2, LoggerStepInv, SignalStepInv
<1>3. CASE Alive /\ \E c \in Scrapers : PageAsks(c)
  BY <1>3, PageAsksInv
<1>4. CASE Alive /\ \E c \in Clients : (ClientStep(c) \/ TimerRunsOut(c)) /\ Others
  BY <1>4, QueueStepInv
<1>5. CASE Alive /\ BatcherStep /\ Others
  BY <1>5, QueueStepInv
<1>6. CASE Alive /\ (CrawlLogs \/ CrawlStep)
  BY <1>6, CrawlStepInv
<1>7. CASE Alive /\ (ServerIsUp \/ StartFails \/ MainStep \/ SearchBegins \/ WordLogs \/ WordsEnd
                     \/ WindowSize \/ Quit)
  BY <1>7, StartInv, SearchStepInv, LeaveInv DEF MainStep
<1>8. CASE Over
  BY <1>1, <1>8 DEF Over
<1> QED
  BY <1>1, <1>2, <1>3, <1>4, <1>5, <1>6, <1>7, <1>8 DEF Next
-----------------------------------------------------------------------------
(* Theorems *)

\* Requests stay in order in the embedding queue, and what is closed, under way and
\* saved fits the place where main is: the inductive invariant of the program.
THEOREM LifecycleInvariant == Spec => []LifecycleInv
BY InitInv, NextInv, PTL DEF Spec

\* One place at most in a sequence whose elements are different.
LEMMA OneHolds ==
  ASSUME NEW S, NEW s \in Seq(S), NEW r, \A i, j \in 1..Len(s) : s[i] = s[j] => i = j
  PROVE  /\ Cardinality(Holds(s, r)) \in {0, 1}
         /\ (\A i \in 1..Len(s) : s[i] # r) => Cardinality(Holds(s, r)) = 0
<1>1. CASE \A i \in 1..Len(s) : s[i] # r
  <2>1. Holds(s, r) = {}
    BY <1>1 DEF Holds
  <2> QED
    BY <2>1, FS_EmptySet
<1>2. CASE \E i \in 1..Len(s) : s[i] = r
  <2>1. PICK i \in 1..Len(s) : s[i] = r
    BY <1>2
  <2>2. Holds(s, r) = {i}
    BY <2>1 DEF Holds
  <2> QED
    BY <1>2, <2>2, FS_Singleton
<1> QED
  BY <1>1, <1>2

\* No caller of PutDocQuery is ever given the vector of another text, and no request is
\* answered twice: for any number of pages and requests, any capacity of docQueue, and
\* whether the server answers, fails or answers with too few vectors.
THEOREM AnswersAreOwn == Spec => []AnswersMatch
<1>1. LifecycleInv => AnswersMatch
  <2> SUFFICES ASSUME LifecycleInv PROVE AnswersMatch
    OBVIOUS
  <2> USE DEF LifecycleInv
  <2>1. TypeOK
    BY DEF VectorizerInv
  <2>2. ASSUME NEW r \in Requests
        PROVE  LET places == Cardinality(Holds(docQueue, r)) + Cardinality(Holds(batch, r))
               IN  /\ result[r] \in {r, Nothing, Closed} /\ out[r] \in {r, Nothing, Closed}
                   /\ places <= 1
                   /\ out[r] # Nothing \/ result[r] # Nothing => places = 0
    <3>1. /\ Cardinality(Holds(docQueue, r)) \in {0, 1}
          /\ (\A i \in 1..Len(docQueue) : docQueue[i] # r) => Cardinality(Holds(docQueue, r)) = 0
      BY OneHolds, QueueTypes DEF VectorizerInv, InOnePlace
    <3>2. /\ Cardinality(Holds(batch, r)) \in {0, 1}
          /\ (\A i \in 1..Len(batch) : batch[i] # r) => Cardinality(Holds(batch, r)) = 0
      BY OneHolds, QueueTypes DEF VectorizerInv, InOnePlace
    <3>3. (\A i \in 1..Len(docQueue) : docQueue[i] # r) \/ (\A i \in 1..Len(batch) : batch[i] # r)
      BY DEF VectorizerInv, InOnePlace
    <3>4. out[r] # Nothing \/ result[r] # Nothing
          => (\A i \in 1..Len(docQueue) : docQueue[i] # r) /\ (\A i \in 1..Len(batch) : batch[i] # r)
      BY DEF VectorizerInv, PlacedUnanswered, Unanswered
    <3>5. result[r] \in {r, Nothing, Closed} /\ out[r] \in {r, Nothing, Closed}
      BY DEF VectorizerInv, OwnAnswers
    <3> QED
      BY <3>1, <3>2, <3>3, <3>4, <3>5
  <2> QED
    BY <2>1, <2>2 DEF AnswersMatch
<1> QED
  BY <1>1, LifecycleInvariant, PTL

\* A send to a closed channel, of the queue or of the logger, happens only while the program
\* is being left: to pages, the crawl and the interrupt behind the interface only, to the
\* goroutines of words only after a search that was given up, to main never.
THEOREM ClosedMetOnlyAtTheEnd == Spec => []SendsAfterClose
<1>1. LifecycleInv => SendsAfterClose
  BY DEF LifecycleInv, ProgramInv
<1> QED
  BY <1>1, LifecycleInvariant, PTL

\* In the cli what Index saves has reached the database before that is closed, and a
\* program that ends by itself has written every message its logger accepted.
THEOREM NothingIsLost == Spec => []NothingLost
<1>1. LifecycleInv => NothingLost
  BY DEF LifecycleInv, ProgramInv
<1> QED
  BY <1>1, LifecycleInvariant, PTL
=============================================================================
