---------------------------- MODULE CrawlProofs ----------------------------
(***************************************************************************)
(* The inductive invariant of Crawl in its layers, for any web,            *)
(* configuration, number of workers and capacities.                        *)
(*                                                                         *)
(* CallsInv (types and the shape of the stacks) and LinksInv (where links  *)
(* and tasks come from) come first.  On them rests what happens to one     *)
(* page: who requests it (VisitsInv), that its host has a limiter          *)
(* (LimitersInv), what the bank and the cache hold of it (BankInv,         *)
(* CacheInv) and whether it gets indexed (IndexedInv).  There a step is    *)
(* seen by where it takes the innermost call of its thread.                *)
(*                                                                         *)
(* Last comes the crawl of one worker, from one page to all: it goes       *)
(* through the web level by level (TurnsInv) and forgets no page of a      *)
(* level (CoverInv).                                                       *)
(***************************************************************************)
EXTENDS Crawl, RecencyProofs

\* A call that got beyond the depth check.
OpenFrames == {f \in Frames : f.pc # "enter" => f.task.depth < MaxDepth}

\* Only a call that submits has another one above it on its stack.
Suspended(st) == \A th \in Threads : \A i \in 2..Len(st[th]) : st[th][i].pc = "submit"

CallsInv ==
  /\ TypeOK
  /\ stack \in [Threads -> Seq(OpenFrames)]
  /\ Suspended(stack)
  /\ mpc # "submit" => Idle
-----------------------------------------------------------------------------
(* Stacks of calls *)

LEMMA HeadIsFirst ==
  ASSUME NEW S, NEW s \in Seq(S), s # <<>>
  PROVE  /\ Head(s) = s[1] /\ Head(s) \in S /\ Tail(s) \in Seq(S)
         /\ Len(s) \in Nat \ {0} /\ Len(Tail(s)) = Len(s) - 1
         /\ \A i \in 1..Len(Tail(s)) : Tail(s)[i] = s[i + 1]
BY HeadTailProperties

\* Goto: the innermost call is replaced.
LEMMA Replaced ==
  ASSUME NEW S, NEW st \in [Threads -> Seq(S)], NEW th \in Threads, st[th] # <<>>, NEW f \in S,
         NEW new, new = [st EXCEPT ![th] = <<f>> \o Tail(@)]
  PROVE  /\ new \in [Threads -> Seq(S)]
         /\ new[th] # <<>> /\ Head(new[th]) = f
         /\ \A o \in Threads \ {th} : new[o] = st[o]
         /\ Suspended(st) => Suspended(new)
<1> DEFINE s == <<f>> \o Tail(st[th])
<1>1. st[th] \in Seq(S)
  OBVIOUS
<1>2. /\ Tail(st[th]) \in Seq(S) /\ Len(st[th]) \in Nat \ {0}
      /\ Len(Tail(st[th])) = Len(st[th]) - 1
      /\ \A i \in 1..Len(Tail(st[th])) : Tail(st[th])[i] = st[th][i + 1]
  BY <1>1, HeadIsFirst
<1>3. /\ s \in Seq(S) /\ Len(s) = Len(st[th])
      /\ s[1] = f /\ s # <<>>
      /\ \A i \in 2..Len(s) : i - 1 \in 1..Len(Tail(st[th])) /\ s[i] = Tail(st[th])[i - 1]
  BY <1>2, Front
<1>4. \A i \in 2..Len(s) : s[i] = st[th][i]
  BY <1>2, <1>3
<1> HIDE DEF s
<1>5. new = [st EXCEPT ![th] = s]
  BY DEF s
<1>6. new \in [Threads -> Seq(S)] /\ new[th] = s /\ \A o \in Threads \ {th} : new[o] = st[o]
  BY <1>3, <1>5
<1>7. ASSUME Suspended(st) PROVE Suspended(new)
  BY <1>3, <1>4, <1>6, <1>7 DEF Suspended
<1>8. Head(s) = f
  BY <1>3, HeadIsFirst
<1> QED
  BY <1>3, <1>6, <1>7, <1>8

\* Return: the innermost call goes.
LEMMA Popped ==
  ASSUME NEW S, NEW st \in [Threads -> Seq(S)], NEW th \in Threads, st[th] # <<>>,
         NEW new, new = [st EXCEPT ![th] = Tail(@)]
  PROVE  /\ new \in [Threads -> Seq(S)]
         /\ \A o \in Threads \ {th} : new[o] = st[o]
         /\ Suspended(st) => Suspended(new) /\ (new[th] # <<>> => Head(new[th]).pc = "submit")
<1> DEFINE s == Tail(st[th])
<1>1. st[th] \in Seq(S)
  OBVIOUS
<1>2. /\ s \in Seq(S) /\ Len(s) \in Nat /\ Len(s) = Len(st[th]) - 1
      /\ \A i \in 1..Len(s) : s[i] = st[th][i + 1]
  BY <1>1, HeadIsFirst
<1> HIDE DEF s
<1>3. new = [st EXCEPT ![th] = s]
  BY DEF s
<1>4. new \in [Threads -> Seq(S)] /\ new[th] = s /\ \A o \in Threads \ {th} : new[o] = st[o]
  BY <1>2, <1>3
<1>5. ASSUME Suspended(st) PROVE \A i \in 1..Len(s) : s[i].pc = "submit"
  BY <1>2, <1>5 DEF Suspended
<1>6. ASSUME Suspended(st) PROVE Suspended(new)
  BY <1>2, <1>4, <1>5, <1>6 DEF Suspended
<1>7. ASSUME s # <<>> PROVE Head(s) = s[1] /\ 1 \in 1..Len(s)
  BY <1>2, <1>7, HeadIsFirst
<1> QED
  BY <1>4, <1>5, <1>6, <1>7

\* Submit on a full queue: a call is put on top of one that submits, or on an empty stack.
LEMMA Pushed ==
  ASSUME NEW S, NEW st \in [Threads -> Seq(S)], NEW th \in Threads, NEW c \in S, NEW calls \in Seq(S),
         NEW new, new = [st EXCEPT ![th] = <<c>> \o calls],
         \A i \in 1..Len(calls) : calls[i].pc = "submit"
  PROVE  /\ new \in [Threads -> Seq(S)]
         /\ new[th] # <<>> /\ Head(new[th]) = c
         /\ \A o \in Threads \ {th} : new[o] = st[o]
         /\ Suspended(st) => Suspended(new)
<1> DEFINE s == <<c>> \o calls
<1>1. /\ s \in Seq(S) /\ s # <<>> /\ s[1] = c
      /\ \A i \in 2..Len(s) : i - 1 \in 1..Len(calls) /\ s[i] = calls[i - 1]
  BY Front
<1> HIDE DEF s
<1>2. new = [st EXCEPT ![th] = s]
  BY DEF s
<1>3. new \in [Threads -> Seq(S)] /\ new[th] = s /\ \A o \in Threads \ {th} : new[o] = st[o]
  BY <1>1, <1>2
<1>4. ASSUME Suspended(st) PROVE Suspended(new)
  BY <1>1, <1>3, <1>4 DEF Suspended
<1>5. Head(s) = c
  BY <1>1, HeadIsFirst
<1> QED
  BY <1>1, <1>3, <1>4, <1>5

LEMMA StackMonotonic ==
  ASSUME NEW S, NEW R, S \subseteq R, NEW st \in [Threads -> Seq(S)]
  PROVE  st \in [Threads -> Seq(R)]
<1>1. Seq(S) \subseteq Seq(R)
  BY SeqMonotonic
<1> QED
  BY <1>1
-----------------------------------------------------------------------------
(* Types of calls *)

LEMMA FrameTypes ==
  ASSUME NEW f \in OpenFrames
  PROVE  /\ f \in Frames /\ f.task \in Tasks /\ f.task.url \in URLs
         /\ Key[f.task.url] \in Keys /\ Host[f.task.url] \in Hosts
         /\ f.task.depth \in Nat /\ f.task.depth <= MaxDepth
         /\ f.pc # "enter" => f.task.depth < MaxDepth
         /\ f.hrefs \in Seq(URLs) /\ f.links \in Seq(Tokens) /\ f.deeper \in Seq(Tokens)
<1>1. f \in Frames /\ (f.pc # "enter" => f.task.depth < MaxDepth)
  BY DEF OpenFrames
<1>2. f.task \in Tasks /\ f.hrefs \in Seq(URLs) /\ f.links \in Seq(Tokens) /\ f.deeper \in Seq(Tokens)
  BY <1>1 DEF Frames
<1>3. f.task.url \in URLs /\ f.task.depth \in 0..MaxDepth
  BY <1>2 DEF Tasks, Depths
<1> QED
  BY <1>1, <1>2, <1>3, CrawlAssumption

\* A call goes on to another place with other lists.
LEMMA FrameChanges ==
  ASSUME NEW f \in OpenFrames, f.task.depth < MaxDepth
  PROVE  /\ \A pc \in {"rules", "visit", "lookup", "bank", "fetch", "lost", "save"} :
              [f EXCEPT !.pc = pc] \in OpenFrames
         /\ \A h \in Seq(URLs) : [f EXCEPT !.pc = "parse", !.hrefs = h] \in OpenFrames
         /\ \A h \in Seq(URLs) : [f EXCEPT !.hrefs = h] \in OpenFrames
         /\ \A h \in Seq(URLs), l \in Seq(Tokens) :
              /\ [[f EXCEPT !.hrefs = h] EXCEPT !.links = l] \in OpenFrames
              /\ [[f EXCEPT !.hrefs = h] EXCEPT !.deeper = l] \in OpenFrames
         /\ \A l \in Seq(Tokens) :
              /\ Submitting(f, l) \in OpenFrames
              /\ [f EXCEPT !.links = l] \in OpenFrames
              /\ [f EXCEPT !.pc = "index", !.hrefs = <<>>, !.links = l, !.deeper = <<>>] \in OpenFrames
<1>1. f.task \in Tasks /\ f.hrefs \in Seq(URLs) /\ f.links \in Seq(Tokens) /\ f.deeper \in Seq(Tokens)
  BY FrameTypes
<1>2. f \in Frames
  BY FrameTypes
<1>3. \A g \in Frames : g.task = f.task => g \in OpenFrames
  BY DEF OpenFrames
<1>4. <<>> \in Seq(URLs) /\ <<>> \in Seq(Tokens)
  OBVIOUS
<1>5. \A pc \in {"rules", "visit", "lookup", "bank", "fetch", "lost", "save"} :
        [f EXCEPT !.pc = pc] \in Frames /\ [f EXCEPT !.pc = pc].task = f.task
  BY <1>2 DEF Frames
<1>6. \A h \in Seq(URLs) :
        /\ [f EXCEPT !.pc = "parse", !.hrefs = h] \in Frames
        /\ [f EXCEPT !.pc = "parse", !.hrefs = h].task = f.task
        /\ [f EXCEPT !.hrefs = h] \in Frames /\ [f EXCEPT !.hrefs = h].task = f.task
  BY <1>2 DEF Frames
<1>7. \A h \in Seq(URLs), l \in Seq(Tokens) :
        /\ [[f EXCEPT !.hrefs = h] EXCEPT !.links = l] \in Frames
        /\ [[f EXCEPT !.hrefs = h] EXCEPT !.links = l].task = f.task
        /\ [[f EXCEPT !.hrefs = h] EXCEPT !.deeper = l] \in Frames
        /\ [[f EXCEPT !.hrefs = h] EXCEPT !.deeper = l].task = f.task
  BY <1>2 DEF Frames
<1>8. ASSUME NEW l \in Seq(Tokens)
      PROVE  /\ Submitting(f, l) \in Frames /\ Submitting(f, l).task = f.task
             /\ [f EXCEPT !.links = l] \in Frames /\ [f EXCEPT !.links = l].task = f.task
  BY <1>2, <1>4 DEF Frames, Submitting
<1>9. ASSUME NEW l \in Seq(Tokens)
      PROVE  /\ [f EXCEPT !.pc = "index", !.hrefs = <<>>, !.links = l, !.deeper = <<>>] \in Frames
             /\ [f EXCEPT !.pc = "index", !.hrefs = <<>>, !.links = l, !.deeper = <<>>].task = f.task
  BY <1>2, <1>4 DEF Frames
<1>10. \A pc \in {"rules", "visit", "lookup", "bank", "fetch", "lost", "save"} :
         [f EXCEPT !.pc = pc] \in OpenFrames
  BY <1>3, <1>5
<1>11. \A h \in Seq(URLs) : /\ [f EXCEPT !.pc = "parse", !.hrefs = h] \in OpenFrames
                            /\ [f EXCEPT !.hrefs = h] \in OpenFrames
  BY <1>3, <1>6
<1>12. \A h \in Seq(URLs), l \in Seq(Tokens) :
         /\ [[f EXCEPT !.hrefs = h] EXCEPT !.links = l] \in OpenFrames
         /\ [[f EXCEPT !.hrefs = h] EXCEPT !.deeper = l] \in OpenFrames
  BY <1>3, <1>7
<1>13. \A l \in Seq(Tokens) :
         /\ Submitting(f, l) \in OpenFrames
         /\ [f EXCEPT !.links = l] \in OpenFrames
         /\ [f EXCEPT !.pc = "index", !.hrefs = <<>>, !.links = l, !.deeper = <<>>] \in OpenFrames
  BY <1>3, <1>8, <1>9
<1> QED
  BY <1>10, <1>11, <1>12, <1>13

LEMMA CallIsOpen ==
  ASSUME NEW t \in Tasks
  PROVE  Call(t) \in OpenFrames /\ Call(t).pc = "enter" /\ Call(t).task = t
BY DEF Call, OpenFrames, Frames

\* The innermost call of a thread.
LEMMA TopIsOpen ==
  ASSUME CallsInv, NEW th \in Threads, stack[th] # <<>>
  PROVE  Top(th) \in OpenFrames /\ mpc = "submit"
<1>1. stack[th] \in Seq(OpenFrames)
  BY DEF CallsInv
<1>2. Top(th) \in OpenFrames
  BY <1>1, HeadIsFirst DEF Top
<1> QED
  BY <1>2 DEF CallsInv, Idle
-----------------------------------------------------------------------------
(* CallsInv is inductive *)

MemoryTypes ==
  /\ visited \in [Keys -> (0..(MaxDepth - 1)) \cup {None}]
  /\ lru \in Seq(Entries) /\ Len(lru) <= CacheCapacity
  /\ rlMap \in [Hosts -> Nat \cup {None}]

DiskTypes ==
  /\ cancelled \in BOOLEAN
  /\ bank \in [Keys -> Seq(Tokens)] /\ docs \subseteq Keys
  /\ saved \in [Keys -> (0..(MaxDepth - 1)) \cup {None}]
  /\ fetched \in [Keys -> Nat]

PoolTypes == queue \in Seq(Tasks) /\ Len(queue) <= QueueCapacity

RunTypes == mpc \in {"submit", "saving", "done"} /\ todo \in Seq(URLs) /\ session \in 1..Sessions

LEMMA CallsParts ==
  ASSUME CallsInv
  PROVE  /\ MemoryTypes /\ DiskTypes /\ PoolTypes /\ RunTypes
         /\ stack \in [Threads -> Seq(OpenFrames)]
         /\ Suspended(stack)
         /\ mpc # "submit" => Idle
BY DEF CallsInv, TypeOK, MemoryTypes, DiskTypes, PoolTypes, RunTypes

LEMMA CallsWhole ==
  ASSUME MemoryTypes', DiskTypes', PoolTypes', RunTypes',
         stack' \in [Threads -> Seq(OpenFrames)], Suspended(stack'), (mpc # "submit" => Idle)'
  PROVE  CallsInv'
<1>1. OpenFrames \subseteq Frames
  BY DEF OpenFrames
<1>2. stack' \in [Threads -> Seq(Frames)]
  BY <1>1, StackMonotonic
<1>3. TypeOK'
  BY <1>2 DEF TypeOK, MemoryTypes, DiskTypes, PoolTypes, RunTypes
<1>4. Suspended(stack)'
  BY DEF Suspended
<1> QED
  BY <1>3, <1>4 DEF CallsInv

\* A step of a call leaves Run where it is.
LEMMA CallsKept ==
  ASSUME CallsInv, NEW th \in Threads, stack[th] # <<>>, UNCHANGED run,
         MemoryTypes', DiskTypes', PoolTypes',
         stack' \in [Threads -> Seq(OpenFrames)], Suspended(stack')
  PROVE  CallsInv'
<1>1. mpc = "submit"
  BY TopIsOpen
<1>2. RunTypes'
  BY CallsParts DEF run, RunTypes
<1>3. mpc' = "submit"
  BY <1>1 DEF run
<1> QED
  BY <1>2, <1>3, CallsWhole

LEMMA Returns ==
  ASSUME CallsInv, NEW th \in Threads, stack[th] # <<>>, Return(th)
  PROVE  /\ PoolTypes' /\ stack' \in [Threads -> Seq(OpenFrames)] /\ Suspended(stack')
         /\ \A o \in Threads \ {th} : stack'[o] = stack[o]
         /\ stack'[th] # <<>> => Head(stack'[th]).pc = "submit"
<1>1. /\ stack' = [stack EXCEPT ![th] = Tail(@)] /\ queue' = queue
      /\ stack \in [Threads -> Seq(OpenFrames)] /\ Suspended(stack)
  BY CallsParts DEF Return
<1>2. PoolTypes'
  BY <1>1, CallsParts DEF PoolTypes
<1> QED
  BY <1>1, <1>2, Popped DEF Suspended

LEMMA EnterCalls ==
  ASSUME CallsInv, NEW th \in Threads, Enter(th)
  PROVE  CallsInv'
<1>1. /\ stack[th] # <<>> /\ Top(th).pc = "enter"
      /\ UNCHANGED <<visited, lru, disk, run, cancelled, fetched>>
  BY DEF Enter, At, Top
<1>2. Top(th) \in OpenFrames
  BY <1>1, TopIsOpen
<1>3. MemoryTypes'
  <2>1. rlMap' \in [Hosts -> Nat \cup {None}]
    <3>1. /\ rlMap \in [Hosts -> Nat \cup {None}] /\ DefaultDelay \in Nat
          /\ \/ rlMap' = rlMap
             \/ rlMap' = [rlMap EXCEPT ![Host[Top(th).task.url]] = DefaultDelay]
      BY DEF Enter, CallsInv, TypeOK, DefaultDelay
    <3> QED
      BY <3>1
  <2> QED
    BY <1>1, <2>1, CallsParts DEF MemoryTypes
<1>4. DiskTypes'
  BY <1>1, CallsParts DEF DiskTypes, disk
<1>5. PoolTypes' /\ stack' \in [Threads -> Seq(OpenFrames)] /\ Suspended(stack')
  <2>1. CASE Return(th)
    BY <1>1, <2>1, Returns
  <2>2. CASE ~TooDeep(Top(th).task) /\ Goto(th, [Top(th) EXCEPT !.pc = "rules"])
    <3>1. Top(th).task.depth < MaxDepth
      BY <1>2, <2>2, FrameTypes, CrawlAssumption DEF TooDeep
    <3>2. [Top(th) EXCEPT !.pc = "rules"] \in OpenFrames
      BY <1>2, <3>1, FrameChanges
    <3> QED
      BY <1>1, <2>2, <3>2, Replaced, CallsParts DEF Goto, PoolTypes, Suspended
  <2> QED
    BY <2>1, <2>2 DEF Enter
<1> QED
  BY <1>1, <1>3, <1>4, <1>5, CallsKept

LEMMA FetchRulesCalls ==
  ASSUME CallsInv, NEW th \in Threads, FetchRules(th)
  PROVE  CallsInv'
<1>1. /\ stack[th] # <<>> /\ Top(th).pc = "rules"
      /\ UNCHANGED <<visited, lru, disk, run, cancelled, fetched>>
  BY DEF FetchRules, At, Top
<1>2. Top(th) \in OpenFrames /\ Top(th).task.depth < MaxDepth
  BY <1>1, TopIsOpen, FrameTypes
<1>3. MemoryTypes'
  <2>1. /\ rlMap \in [Hosts -> Nat \cup {None}] /\ DefaultDelay \in Nat
        /\ Page(th) \in URLs /\ Host[Page(th)] \in Hosts
    BY <1>2, FrameTypes, CallsParts DEF MemoryTypes, DefaultDelay, Page
  <2>2. RobotsDelay[Page(th)] \in Nat \cup {None}
    BY <2>1, CrawlAssumption
  <2>3. RobotsDelay[Page(th)] # None => LimiterFor(Host[Page(th)], RobotsDelay[Page(th)]) \in Nat \cup {None}
    BY <2>1, <2>2 DEF LimiterFor
  <2>4. rlMap' \in [Hosts -> Nat \cup {None}]
    BY <2>1, <2>3 DEF FetchRules
  <2> QED
    BY <1>1, <2>4, CallsParts DEF MemoryTypes
<1>4. DiskTypes'
  BY <1>1, CallsParts DEF DiskTypes, disk
<1>5. PoolTypes' /\ stack' \in [Threads -> Seq(OpenFrames)] /\ Suspended(stack')
  <2>1. CASE Return(th)
    BY <1>1, <2>1, Returns
  <2>2. CASE Goto(th, [Top(th) EXCEPT !.pc = "visit"])
    <3>1. [Top(th) EXCEPT !.pc = "visit"] \in OpenFrames
      BY <1>2, FrameChanges
    <3> QED
      BY <1>1, <2>2, <3>1, Replaced, CallsParts DEF Goto, PoolTypes, Suspended
  <2> QED
    BY <2>1, <2>2 DEF FetchRules
<1> QED
  BY <1>1, <1>3, <1>4, <1>5, CallsKept

LEMMA VisitCalls ==
  ASSUME CallsInv, NEW th \in Threads, Visit(th)
  PROVE  CallsInv'
<1>1. /\ stack[th] # <<>> /\ Top(th).pc = "visit"
      /\ UNCHANGED <<lru, rlMap, disk, run, cancelled, fetched>>
  BY DEF Visit, At, Top
<1>2. Top(th) \in OpenFrames /\ Top(th).task.depth < MaxDepth
  BY <1>1, TopIsOpen, FrameTypes
<1>3. MemoryTypes'
  <2>1. /\ visited \in [Keys -> (0..(MaxDepth - 1)) \cup {None}]
        /\ Key[Page(th)] \in Keys /\ Top(th).task.depth \in 0..(MaxDepth - 1)
    BY <1>2, FrameTypes, CallsParts, CrawlAssumption DEF MemoryTypes, Page
  <2>2. LoadOrStore(Key[Page(th)], Top(th).task.depth) \in (0..(MaxDepth - 1)) \cup {None}
    BY <2>1 DEF LoadOrStore
  <2>3. visited' \in [Keys -> (0..(MaxDepth - 1)) \cup {None}]
    BY <2>1, <2>2 DEF Visit
  <2> QED
    BY <1>1, <2>3, CallsParts DEF MemoryTypes
<1>4. DiskTypes'
  BY <1>1, CallsParts DEF DiskTypes, disk
<1>5. PoolTypes' /\ stack' \in [Threads -> Seq(OpenFrames)] /\ Suspended(stack')
  <2>1. CASE Return(th)
    BY <1>1, <2>1, Returns
  <2>2. ASSUME NEW pc \in {"fetch", "lookup"}, Goto(th, [Top(th) EXCEPT !.pc = pc])
        PROVE  PoolTypes' /\ stack' \in [Threads -> Seq(OpenFrames)] /\ Suspended(stack')
    <3>1. [Top(th) EXCEPT !.pc = pc] \in OpenFrames
      BY <1>2, FrameChanges
    <3> QED
      BY <1>1, <2>2, <3>1, Replaced, CallsParts DEF Goto, PoolTypes, Suspended
  <2> QED
    BY <2>1, <2>2 DEF Visit
<1> QED
  BY <1>1, <1>3, <1>4, <1>5, CallsKept

LEMMA EntryTypes ==
  /\ \A x \in Entries : Entry(x.key, x.value) = x
  /\ \A k \in Keys, v \in Seq(Tokens) \ {<<>>} : Entry(k, v) \in Entries
BY DEF Entries, Entry

\* A list found in the cache is a list of links.
LEMMA LookupFound ==
  ASSUME CallsInv, NEW k \in Keys, Has(lru, k)
  PROVE  /\ Lookup(lru, k) \in Seq(Tokens) \ {<<>>}
         /\ AfterGet(lru, k) \in Seq(Entries) /\ Len(AfterGet(lru, k)) <= CacheCapacity
         /\ \E j \in 1..Len(lru) : lru[j].key = k /\ Lookup(lru, k) = lru[j].value
         /\ \A i \in 1..Len(AfterGet(lru, k)) : \E j \in 1..Len(lru) : AfterGet(lru, k)[i] = lru[j]
<1>1. lru \in Seq(Entries) /\ Len(lru) <= CacheCapacity
  BY CallsParts DEF MemoryTypes
<1>2. /\ AfterGet(lru, k) \in Seq(Entries)
      /\ Len(AfterGet(lru, k)) = Len(lru)
      /\ \E j \in 1..Len(lru) : lru[j].key = k /\ Lookup(lru, k) = lru[j].value
      /\ \A i \in 1..Len(AfterGet(lru, k)) : \E j \in 1..Len(lru) : AfterGet(lru, k)[i] = lru[j]
  BY <1>1, EntryTypes, AfterGetEntries
<1>3. PICK j \in 1..Len(lru) : Lookup(lru, k) = lru[j].value
  BY <1>2
<1>4. lru[j] \in Entries
  BY <1>1, <1>3, ElementOfSeq
<1>5. Lookup(lru, k) \in Seq(Tokens) \ {<<>>}
  BY <1>3, <1>4 DEF Entries
<1> QED
  BY <1>1, <1>2, <1>5

LEMMA LookupCacheCalls ==
  ASSUME CallsInv, NEW th \in Threads, LookupCache(th)
  PROVE  CallsInv'
<1>1. /\ stack[th] # <<>> /\ Top(th).pc = "lookup"
      /\ UNCHANGED <<visited, rlMap, disk, run, cancelled, fetched>>
  BY DEF LookupCache, At, Top
<1>2. /\ Top(th) \in OpenFrames /\ Top(th).task.depth < MaxDepth
      /\ Key[Page(th)] \in Keys
  BY <1>1, TopIsOpen, FrameTypes DEF Page
<1>3. MemoryTypes'
  <2>1. lru' = lru \/ (Has(lru, Key[Page(th)]) /\ lru' = AfterGet(lru, Key[Page(th)]))
    BY DEF LookupCache
  <2>2. lru' \in Seq(Entries) /\ Len(lru') <= CacheCapacity
    BY <1>2, <2>1, LookupFound, CallsParts DEF MemoryTypes
  <2> QED
    BY <1>1, <2>2, CallsParts DEF MemoryTypes
<1>4. DiskTypes'
  BY <1>1, CallsParts DEF DiskTypes, disk
<1>5. PoolTypes' /\ stack' \in [Threads -> Seq(OpenFrames)] /\ Suspended(stack')
  <2>1. CASE Goto(th, [Top(th) EXCEPT !.pc = "bank"])
    <3>1. [Top(th) EXCEPT !.pc = "bank"] \in OpenFrames
      BY <1>2, FrameChanges
    <3> QED
      BY <1>1, <2>1, <3>1, Replaced, CallsParts DEF Goto, PoolTypes, Suspended
  <2>2. CASE Has(lru, Key[Page(th)]) /\ Goto(th, Submitting(Top(th), Lookup(lru, Key[Page(th)])))
    <3>1. Submitting(Top(th), Lookup(lru, Key[Page(th)])) \in OpenFrames
      BY <1>2, <2>2, LookupFound, FrameChanges
    <3> QED
      BY <1>1, <2>2, <3>1, Replaced, CallsParts DEF Goto, PoolTypes, Suspended
  <2> QED
    BY <2>1, <2>2 DEF LookupCache
<1> QED
  BY <1>1, <1>3, <1>4, <1>5, CallsKept

\* A list that is put comes into the cache, nothing else does.
LEMMA PutStored ==
  ASSUME CallsInv, NEW k \in Keys, NEW v \in Seq(Tokens) \ {<<>>}
  PROVE  /\ AfterPut(lru, k, v, CacheCapacity) \in Seq(Entries)
         /\ Len(AfterPut(lru, k, v, CacheCapacity)) <= CacheCapacity
         /\ \A i \in 1..Len(AfterPut(lru, k, v, CacheCapacity)) :
              \/ AfterPut(lru, k, v, CacheCapacity)[i] = Entry(k, v)
              \/ \E j \in 1..Len(lru) : AfterPut(lru, k, v, CacheCapacity)[i] = lru[j]
BY CallsParts, CrawlAssumption, EntryTypes, AfterPutEntries DEF MemoryTypes

LEMMA LookupBankCalls ==
  ASSUME CallsInv, NEW th \in Threads, LookupBank(th)
  PROVE  CallsInv'
<1>1. /\ stack[th] # <<>> /\ Top(th).pc = "bank"
      /\ UNCHANGED <<visited, rlMap, disk, run, cancelled, fetched>>
  BY DEF LookupBank, At, Top
<1>2. /\ Top(th) \in OpenFrames /\ Top(th).task.depth < MaxDepth
      /\ Key[Page(th)] \in Keys
  BY <1>1, TopIsOpen, FrameTypes DEF Page
<1>3. DiskTypes'
  BY <1>1, CallsParts DEF DiskTypes, disk
<1>4. CASE /\ UNCHANGED lru
           /\ Return(th)
  <2>1. MemoryTypes'
    BY <1>1, <1>4, CallsParts DEF MemoryTypes
  <2>2. PoolTypes' /\ stack' \in [Threads -> Seq(OpenFrames)] /\ Suspended(stack')
    BY <1>1, <1>4, Returns
  <2> QED
    BY <1>1, <1>3, <2>1, <2>2, CallsKept
<1>5. ASSUME NEW links \in SavedLinks(Key[Page(th)]) \ {<<>>},
             lru' = AfterPut(lru, Key[Page(th)], links, CacheCapacity),
             Goto(th, Submitting(Top(th), links))
      PROVE  CallsInv'
  <2>1. links \in Seq(Tokens) \ {<<>>}
    BY <1>2, <1>5, CallsParts DEF SavedLinks, DiskTypes
  <2>2. MemoryTypes'
    BY <1>1, <1>2, <1>5, <2>1, PutStored, CallsParts DEF MemoryTypes
  <2>3. Submitting(Top(th), links) \in OpenFrames
    BY <1>2, <2>1, FrameChanges
  <2>4. PoolTypes' /\ stack' \in [Threads -> Seq(OpenFrames)] /\ Suspended(stack')
    BY <1>1, <1>5, <2>3, Replaced, CallsParts DEF Goto, PoolTypes, Suspended
  <2> QED
    BY <1>1, <1>3, <2>2, <2>4, CallsKept
<1> QED
  BY <1>4, <1>5 DEF LookupBank

LEMMA FetchCalls ==
  ASSUME CallsInv, NEW th \in Threads, Fetch(th)
  PROVE  CallsInv'
<1>1. /\ stack[th] # <<>> /\ Top(th).pc = "fetch"
      /\ UNCHANGED <<memory, disk, run, cancelled>>
      /\ fetched' = [fetched EXCEPT ![Key[Page(th)]] = @ + 1]
  BY DEF Fetch, At, Top
<1>2. /\ Top(th) \in OpenFrames /\ Top(th).task.depth < MaxDepth
      /\ Page(th) \in URLs /\ Key[Page(th)] \in Keys
  BY <1>1, TopIsOpen, FrameTypes DEF Page
<1>3. MemoryTypes'
  BY <1>1, CallsParts DEF MemoryTypes, memory
<1>4. DiskTypes'
  <2>1. fetched \in [Keys -> Nat]
    BY CallsParts DEF DiskTypes
  <2>2. fetched' \in [Keys -> Nat]
    BY <1>1, <1>2, <2>1
  <2> QED
    BY <1>1, <2>2, CallsParts DEF DiskTypes, disk
<1>5. PoolTypes' /\ stack' \in [Threads -> Seq(OpenFrames)] /\ Suspended(stack')
  <2>1. CASE Return(th)
    BY <1>1, <2>1, Returns
  <2>2. CASE Goto(th, [Top(th) EXCEPT !.pc = "parse", !.hrefs = Links[Page(th)]])
    <3>1. Links[Page(th)] \in Seq(URLs)
      BY <1>2, CrawlAssumption
    <3>2. [Top(th) EXCEPT !.pc = "parse", !.hrefs = Links[Page(th)]] \in OpenFrames
      BY <1>2, <3>1, FrameChanges
    <3> QED
      BY <1>1, <2>2, <3>2, Replaced, CallsParts DEF Goto, PoolTypes, Suspended
  <2> QED
    BY <2>1, <2>2 DEF Fetch
<1> QED
  BY <1>1, <1>3, <1>4, <1>5, CallsKept

\* The token of the link that is parsed.
Token(th) ==
  [link |-> Head(Top(th).hrefs), same |-> <<Head(Top(th).hrefs), Page(th)>> \in SameOrigin]

LEMMA ParseLinkCalls ==
  ASSUME CallsInv, NEW th \in Threads, ParseLink(th)
  PROVE  CallsInv'
<1>1. /\ stack[th] # <<>> /\ Top(th).pc = "parse" /\ Top(th).hrefs # <<>>
      /\ UNCHANGED <<memory, disk, run, cancelled, fetched>>
  BY DEF ParseLink, At, Top
<1>2. /\ Top(th) \in OpenFrames /\ Top(th).task.depth < MaxDepth
      /\ Top(th).hrefs \in Seq(URLs) /\ Top(th).links \in Seq(Tokens) /\ Top(th).deeper \in Seq(Tokens)
  BY <1>1, TopIsOpen, FrameTypes
<1>3. Head(Top(th).hrefs) \in URLs /\ Tail(Top(th).hrefs) \in Seq(URLs)
  BY <1>1, <1>2, HeadIsFirst
<1>4. Token(th) \in Tokens
  BY <1>3 DEF Token, Tokens
<1>5. Append(Top(th).links, Token(th)) \in Seq(Tokens) /\ Append(Top(th).deeper, Token(th)) \in Seq(Tokens)
  BY <1>2, <1>4
<1>6. MemoryTypes' /\ DiskTypes'
  BY <1>1, CallsParts DEF MemoryTypes, memory, DiskTypes, disk
<1> DEFINE rest == [Top(th) EXCEPT !.hrefs = Tail(@)]
<1>7. PICK f \in OpenFrames : Goto(th, f)
  <2>1. \/ Goto(th, rest)
        \/ Goto(th, [rest EXCEPT !.links = Append(@, Token(th))])
        \/ Goto(th, [rest EXCEPT !.deeper = Append(@, Token(th))])
    BY DEF ParseLink, Token
  <2>2. /\ rest = [Top(th) EXCEPT !.hrefs = Tail(Top(th).hrefs)]
        /\ rest.links = Top(th).links /\ rest.deeper = Top(th).deeper
    BY <1>2, FrameTypes DEF Frames
  <2>3. /\ rest \in OpenFrames
        /\ [rest EXCEPT !.links = Append(Top(th).links, Token(th))] \in OpenFrames
        /\ [rest EXCEPT !.deeper = Append(Top(th).deeper, Token(th))] \in OpenFrames
    BY <1>2, <1>3, <1>5, FrameChanges
  <2> QED
    BY <2>1, <2>2, <2>3
<1>8. PoolTypes' /\ stack' \in [Threads -> Seq(OpenFrames)] /\ Suspended(stack')
  BY <1>1, <1>7, Replaced, CallsParts DEF Goto, PoolTypes, Suspended
<1> QED
  BY <1>1, <1>6, <1>8, CallsKept

LEMMA EndParseCalls ==
  ASSUME CallsInv, NEW th \in Threads, EndParse(th)
  PROVE  CallsInv'
<1> DEFINE links == Top(th).links \o Top(th).deeper
<1>1. /\ stack[th] # <<>> /\ Top(th).pc = "parse"
      /\ UNCHANGED <<visited, rlMap, disk, run, cancelled, fetched>>
      /\ lru' = IF links = <<>> THEN lru ELSE AfterPut(lru, Key[Page(th)], links, CacheCapacity)
      /\ Goto(th, [Top(th) EXCEPT !.pc = "index", !.hrefs = <<>>, !.links = links, !.deeper = <<>>])
  BY DEF EndParse, At, Top, AfterParse
<1>2. /\ Top(th) \in OpenFrames /\ Top(th).task.depth < MaxDepth
      /\ Top(th).links \in Seq(Tokens) /\ Top(th).deeper \in Seq(Tokens)
      /\ Key[Page(th)] \in Keys
  BY <1>1, TopIsOpen, FrameTypes DEF Page
<1>3. links \in Seq(Tokens)
  BY <1>2, ConcatProperties
<1> HIDE DEF links
<1>4. MemoryTypes'
  <2>1. lru' \in Seq(Entries) /\ Len(lru') <= CacheCapacity
    BY <1>1, <1>2, <1>3, PutStored, CallsParts DEF MemoryTypes
  <2> QED
    BY <1>1, <2>1, CallsParts DEF MemoryTypes
<1>5. DiskTypes'
  BY <1>1, CallsParts DEF DiskTypes, disk
<1>6. [Top(th) EXCEPT !.pc = "index", !.hrefs = <<>>, !.links = links, !.deeper = <<>>] \in OpenFrames
  BY <1>2, <1>3, FrameChanges
<1>7. PoolTypes' /\ stack' \in [Threads -> Seq(OpenFrames)] /\ Suspended(stack')
  BY <1>1, <1>6, Replaced, CallsParts DEF Goto, PoolTypes, Suspended
<1> QED
  BY <1>1, <1>4, <1>5, <1>7, CallsKept

LEMMA IndexCalls ==
  ASSUME CallsInv, NEW th \in Threads, Index(th)
  PROVE  CallsInv'
<1>1. /\ stack[th] # <<>> /\ Top(th).pc = "index"
      /\ UNCHANGED <<memory, bank, saved, run, cancelled, fetched>>
      /\ docs' = docs \/ docs' = docs \cup {Key[Page(th)]}
      /\ Return(th) \/ \E pc \in {"save", "lost"} : Goto(th, [Top(th) EXCEPT !.pc = pc])
  BY DEF Index, At, Top
<1>2. /\ Top(th) \in OpenFrames /\ Top(th).task.depth < MaxDepth
      /\ Key[Page(th)] \in Keys
  BY <1>1, TopIsOpen, FrameTypes DEF Page
<1>3. MemoryTypes' /\ DiskTypes'
  BY <1>1, <1>2, CallsParts DEF MemoryTypes, memory, DiskTypes
<1>4. PoolTypes' /\ stack' \in [Threads -> Seq(OpenFrames)] /\ Suspended(stack')
  <2>1. CASE Return(th)
    BY <1>1, <2>1, Returns
  <2>2. ASSUME NEW pc \in {"save", "lost"}, Goto(th, [Top(th) EXCEPT !.pc = pc])
        PROVE  PoolTypes' /\ stack' \in [Threads -> Seq(OpenFrames)] /\ Suspended(stack')
    <3>1. [Top(th) EXCEPT !.pc = pc] \in OpenFrames
      BY <1>2, FrameChanges
    <3> QED
      BY <1>1, <2>2, <3>1, Replaced, CallsParts DEF Goto, PoolTypes, Suspended
  <2> QED
    BY <1>1, <2>1, <2>2
<1> QED
  BY <1>1, <1>3, <1>4, CallsKept

LEMMA SaveLinksCalls ==
  ASSUME CallsInv, NEW th \in Threads, SaveLinks(th)
  PROVE  CallsInv'
<1>1. /\ stack[th] # <<>> /\ Top(th).pc = "save"
      /\ UNCHANGED <<memory, docs, saved, run, cancelled, fetched>>
      /\ bank' = bank \/ bank' = [bank EXCEPT ![Key[Page(th)]] = Top(th).links]
      /\ Return(th) \/ Goto(th, Submitting(Top(th), Top(th).links))
  BY DEF SaveLinks, At, Top, Banked
<1>2. /\ Top(th) \in OpenFrames /\ Top(th).task.depth < MaxDepth
      /\ Key[Page(th)] \in Keys /\ Top(th).links \in Seq(Tokens)
  BY <1>1, TopIsOpen, FrameTypes DEF Page
<1>3. MemoryTypes'
  BY <1>1, CallsParts DEF MemoryTypes, memory
<1>4. DiskTypes'
  <2>1. bank \in [Keys -> Seq(Tokens)]
    BY CallsParts DEF DiskTypes
  <2>2. bank' \in [Keys -> Seq(Tokens)]
    BY <1>1, <1>2, <2>1
  <2> QED
    BY <1>1, <2>2, CallsParts DEF DiskTypes
<1>5. PoolTypes' /\ stack' \in [Threads -> Seq(OpenFrames)] /\ Suspended(stack')
  <2>1. CASE Return(th)
    BY <1>1, <2>1, Returns
  <2>2. CASE Goto(th, Submitting(Top(th), Top(th).links))
    <3>1. Submitting(Top(th), Top(th).links) \in OpenFrames
      BY <1>2, FrameChanges
    <3> QED
      BY <1>1, <2>2, <3>1, Replaced, CallsParts DEF Goto, PoolTypes, Suspended
  <2> QED
    BY <1>1, <2>1, <2>2
<1> QED
  BY <1>1, <1>3, <1>4, <1>5, CallsKept

\* The list after its i-th link.
After(f, i) == [f EXCEPT !.links = SubSeq(@, i + 1, Len(@))]

LEMMA RestOfSeq ==
  ASSUME NEW S, NEW s \in Seq(S), NEW i \in 1..Len(s)
  PROVE  /\ SubSeq(s, i + 1, Len(s)) \in Seq(S)
         /\ \A j \in 1..Len(SubSeq(s, i + 1, Len(s))) :
              i + j \in 1..Len(s) /\ SubSeq(s, i + 1, Len(s))[j] = s[i + j]
<1>1. Len(s) \in Nat /\ \A j \in (i + 1)..Len(s) : s[j] \in S
  OBVIOUS
<1>2. /\ SubSeq(s, i + 1, Len(s)) \in Seq(S)
      /\ Len(SubSeq(s, i + 1, Len(s))) = IF i + 1 <= Len(s) THEN Len(s) - (i + 1) + 1 ELSE 0
      /\ \A j \in 1..(Len(s) - (i + 1) + 1) : SubSeq(s, i + 1, Len(s))[j] = s[(i + 1) + j - 1]
  BY <1>1, SubSeqProperties
<1> QED
  BY <1>1, <1>2

LEMMA AfterTypes ==
  ASSUME NEW f \in OpenFrames, f.pc = "submit", NEW i \in 1..Len(f.links)
  PROVE  /\ After(f, i) \in OpenFrames /\ After(f, i).pc = "submit" /\ After(f, i).task = f.task
         /\ TaskFor(f, f.links[i]) \in Tasks /\ f.links[i] \in Tokens
         /\ After(f, i).hrefs = f.hrefs /\ After(f, i).deeper = f.deeper
         /\ \A j \in 1..Len(After(f, i).links) : \E m \in 1..Len(f.links) : After(f, i).links[j] = f.links[m]
<1>1. /\ f.links \in Seq(Tokens) /\ Len(f.links) \in Nat /\ f.task.depth \in Nat
      /\ f.task \in Tasks /\ f.task.depth < MaxDepth /\ f \in Frames
  BY FrameTypes
<1>2. /\ SubSeq(f.links, i + 1, Len(f.links)) \in Seq(Tokens)
      /\ \A j \in 1..Len(SubSeq(f.links, i + 1, Len(f.links))) :
           i + j \in 1..Len(f.links) /\ SubSeq(f.links, i + 1, Len(f.links))[j] = f.links[i + j]
  BY <1>1, RestOfSeq
<1>3. After(f, i) = [f EXCEPT !.links = SubSeq(f.links, i + 1, Len(f.links))]
  BY DEF After
<1>4. After(f, i) \in OpenFrames
  BY <1>1, <1>2, <1>3, FrameChanges
<1>5. /\ After(f, i).pc = f.pc /\ After(f, i).task = f.task
      /\ After(f, i).links = SubSeq(f.links, i + 1, Len(f.links))
      /\ After(f, i).hrefs = f.hrefs /\ After(f, i).deeper = f.deeper
  BY <1>1, <1>3 DEF Frames
<1>6. f.links[i] \in Tokens
  BY <1>1
<1>7. TaskFor(f, f.links[i]) \in Tasks
  <2>1. /\ f.links[i].link \in URLs /\ f.task.rules \in {None} \cup Hosts
        /\ f.task.depth + 1 \in 0..MaxDepth
    BY <1>1, <1>6, CrawlAssumption DEF Tokens, Tasks
  <2>2. (IF f.links[i].same THEN f.task.rules ELSE None) \in {None} \cup Hosts
    BY <2>1
  <2> QED
    BY <2>1, <2>2 DEF TaskFor, Tasks, Deeper, Depths
<1> QED
  BY <1>2, <1>4, <1>5, <1>6, <1>7

\* The next link is submitted, and the call goes on with the links after it.
LEMMA SubmitLinkStep ==
  ASSUME CallsInv, NEW th \in Threads, SubmitLink(th)
  PROVE  \E i \in 1..Len(Top(th).links), after \in OpenFrames, t \in Tasks :
           /\ FollowedFirst(Top(th).links, i)
           /\ after = After(Top(th), i) /\ after.pc = "submit"
           /\ t = TaskFor(Top(th), Top(th).links[i])
           /\ \/ /\ Len(queue) < QueueCapacity
                 /\ queue' = Append(queue, t)
                 /\ stack' = [stack EXCEPT ![th] = <<after>> \o Tail(stack[th])]
              \/ /\ queue' = queue
                 /\ stack' = [stack EXCEPT ![th] = <<Call(t)>> \o (<<after>> \o Tail(stack[th]))]
<1>1. stack[th] # <<>> /\ Top(th).pc = "submit"
  BY DEF SubmitLink, At, Top
<1>2. Top(th) \in OpenFrames
  BY <1>1, TopIsOpen
<1>3. PICK i \in 1..Len(Top(th).links) :
        /\ FollowedFirst(Top(th).links, i)
        /\ Submit(th, TaskFor(Top(th), Top(th).links[i]), <<After(Top(th), i)>> \o Tail(stack[th]))
  BY DEF SubmitLink, After
<1>4. /\ After(Top(th), i) \in OpenFrames /\ After(Top(th), i).pc = "submit"
      /\ TaskFor(Top(th), Top(th).links[i]) \in Tasks
  BY <1>1, <1>2, AfterTypes
<1>5. PICK t \in Tasks : t = TaskFor(Top(th), Top(th).links[i])
  BY <1>4
<1>6. PICK after \in OpenFrames : after = After(Top(th), i) /\ after.pc = "submit"
  BY <1>4
<1>7. Submit(th, t, <<after>> \o Tail(stack[th]))
  BY <1>3, <1>5, <1>6
<1>8. \/ /\ Len(queue) < QueueCapacity
         /\ queue' = Append(queue, t)
         /\ stack' = [stack EXCEPT ![th] = <<after>> \o Tail(stack[th])]
      \/ /\ queue' = queue
         /\ stack' = [stack EXCEPT ![th] = <<Call(t)>> \o (<<after>> \o Tail(stack[th]))]
  BY <1>7 DEF Submit, HasRoom
<1> QED
  BY <1>3, <1>5, <1>6, <1>8

LEMMA QueueGrows ==
  ASSUME NEW S, NEW q \in Seq(S), NEW t \in S, Len(q) < QueueCapacity
  PROVE  /\ Append(q, t) \in Seq(S) /\ Len(Append(q, t)) <= QueueCapacity
BY CrawlAssumption

\* The calls under the one that is put on top all submit.
LEMMA CallsUnder ==
  ASSUME NEW S, NEW st \in [Threads -> Seq(S)], NEW th \in Threads, st[th] # <<>>,
         NEW f \in S, f.pc = "submit", Suspended(st)
  PROVE  /\ <<f>> \o Tail(st[th]) \in Seq(S)
         /\ \A i \in 1..Len(<<f>> \o Tail(st[th])) : (<<f>> \o Tail(st[th]))[i].pc = "submit"
<1> DEFINE s == <<f>> \o Tail(st[th])
<1>1. /\ st[th] \in Seq(S) /\ Len(st[th]) \in Nat \ {0}
      /\ Tail(st[th]) \in Seq(S) /\ Len(Tail(st[th])) = Len(st[th]) - 1
      /\ \A i \in 1..Len(Tail(st[th])) : Tail(st[th])[i] = st[th][i + 1]
  BY HeadIsFirst
<1>2. /\ s \in Seq(S) /\ Len(s) = Len(st[th]) /\ s[1] = f
      /\ \A i \in 2..Len(s) : i - 1 \in 1..Len(Tail(st[th])) /\ s[i] = Tail(st[th])[i - 1]
  BY <1>1, Front
<1> HIDE DEF s
<1>3. \A i \in 1..Len(s) : s[i].pc = "submit"
  BY <1>1, <1>2 DEF Suspended
<1> QED
  BY <1>2, <1>3 DEF s

LEMMA SubmitLinkCalls ==
  ASSUME CallsInv, NEW th \in Threads, SubmitLink(th)
  PROVE  CallsInv'
<1>1. /\ stack[th] # <<>> /\ UNCHANGED <<memory, disk, run, cancelled, fetched>>
  BY DEF SubmitLink, At
<1>2. PICK i \in 1..Len(Top(th).links), after \in OpenFrames, t \in Tasks :
        /\ after.pc = "submit"
        /\ \/ /\ Len(queue) < QueueCapacity
              /\ queue' = Append(queue, t)
              /\ stack' = [stack EXCEPT ![th] = <<after>> \o Tail(stack[th])]
           \/ /\ queue' = queue
              /\ stack' = [stack EXCEPT ![th] = <<Call(t)>> \o (<<after>> \o Tail(stack[th]))]
  BY SubmitLinkStep
<1>3. MemoryTypes' /\ DiskTypes'
  BY <1>1, CallsParts DEF MemoryTypes, memory, DiskTypes, disk
<1>4. /\ PoolTypes /\ stack \in [Threads -> Seq(OpenFrames)] /\ Suspended(stack)
  BY CallsParts
<1>5. PoolTypes'
  BY <1>2, <1>4, QueueGrows, ZenonT(60) DEF PoolTypes
<1>6. stack' \in [Threads -> Seq(OpenFrames)] /\ Suspended(stack')
  <2>1. CASE stack' = [stack EXCEPT ![th] = <<after>> \o Tail(stack[th])]
    BY <1>1, <1>4, <2>1, Replaced DEF Suspended
  <2>2. CASE stack' = [stack EXCEPT ![th] = <<Call(t)>> \o (<<after>> \o Tail(stack[th]))]
    <3>1. PICK calls : calls = <<after>> \o Tail(stack[th])
      OBVIOUS
    <3>2. calls \in Seq(OpenFrames) /\ \A j \in 1..Len(calls) : calls[j].pc = "submit"
      BY <1>1, <1>2, <1>4, <3>1, CallsUnder DEF Suspended
    <3>3. stack' = [stack EXCEPT ![th] = <<Call(t)>> \o calls] /\ Call(t) \in OpenFrames
      BY <2>2, <3>1, CallIsOpen
    <3> QED
      BY <1>4, <3>2, <3>3, Pushed DEF Suspended
  <2> QED
    BY <1>2, <2>1, <2>2
<1> QED
  BY <1>1, <1>3, <1>5, <1>6, CallsKept

LEMMA ReturnCalls ==
  ASSUME CallsInv, NEW th \in Threads, Abandon(th) \/ SubmittedAll(th)
  PROVE  CallsInv'
<1>1. /\ stack[th] # <<>> /\ UNCHANGED <<memory, disk, run, cancelled, fetched>> /\ Return(th)
  BY DEF Abandon, SubmittedAll, At
<1>2. MemoryTypes' /\ DiskTypes'
  BY <1>1, CallsParts DEF MemoryTypes, memory, DiskTypes, disk
<1> QED
  BY <1>1, <1>2, Returns, CallsKept

LEMMA ScrapeStepCalls ==
  ASSUME CallsInv, NEW th \in Threads, ScrapeStep(th)
  PROVE  CallsInv'
BY EnterCalls, FetchRulesCalls, VisitCalls, LookupCacheCalls, LookupBankCalls, FetchCalls,
   ParseLinkCalls, EndParseCalls, IndexCalls, SaveLinksCalls, SubmitLinkCalls, ReturnCalls
   DEF ScrapeStep

\* A task is taken from the queue.
LEMMA Taken ==
  ASSUME CallsInv, NEW w \in Workers, TakeTask(w)
  PROVE  /\ w \in Threads /\ stack[w] = <<>> /\ Head(queue) \in Tasks
         /\ \E t \in Tasks : \E i \in 1..Len(queue) :
              t = queue[i] /\ stack' = [stack EXCEPT ![w] = <<Call(t)>>]
         /\ queue' = Tail(queue) /\ mpc = "submit"
         /\ stack' \in [Threads -> Seq(OpenFrames)] /\ Suspended(stack')
         /\ PoolTypes'
<1>1. /\ stack[w] = <<>> /\ queue # <<>> /\ queue' = Tail(queue)
      /\ stack' = [stack EXCEPT ![w] = <<Call(Head(queue))>>]
  BY DEF TakeTask, MayTake
<1>2. /\ queue \in Seq(Tasks) /\ Len(queue) <= QueueCapacity
      /\ stack \in [Threads -> Seq(OpenFrames)] /\ Suspended(stack) /\ (mpc # "submit" => Idle)
  BY CallsParts DEF PoolTypes
<1>3. /\ Head(queue) \in Tasks /\ Head(queue) = queue[1] /\ 1 \in 1..Len(queue)
      /\ Tail(queue) \in Seq(Tasks) /\ Len(Tail(queue)) <= QueueCapacity
  BY <1>1, <1>2, HeadIsFirst, CrawlAssumption
<1>4. PICK t \in Tasks : t = Head(queue)
  BY <1>3
<1>5. stack' = [stack EXCEPT ![w] = <<Call(t)>> \o <<>>]
  <2>1. <<Call(t)>> \o <<>> = <<Call(t)>>
    BY <1>4, CallIsOpen, ConcatEmptySeq
  <2> QED
    BY <1>1, <1>4, <2>1
<1>6. w \in Threads
  BY DEF Threads
<1>7. stack' \in [Threads -> Seq(OpenFrames)] /\ Suspended(stack')
  <2>1. <<>> \in Seq(OpenFrames) /\ \A i \in 1..Len(<<>>) : <<>>[i].pc = "submit"
    OBVIOUS
  <2> QED
    BY <1>2, <1>4, <1>5, <1>6, <2>1, CallIsOpen, Pushed DEF Suspended
<1> QED
  BY <1>1, <1>2, <1>3, <1>4, <1>6, <1>7 DEF Idle, PoolTypes

LEMMA TakeTaskCalls ==
  ASSUME CallsInv, NEW w \in Workers, TakeTask(w)
  PROVE  CallsInv'
<1>1. UNCHANGED <<memory, disk, run, cancelled, fetched>>
  BY DEF TakeTask
<1>2. MemoryTypes' /\ DiskTypes' /\ RunTypes'
  BY <1>1, CallsParts DEF MemoryTypes, memory, DiskTypes, disk, RunTypes, run
<1>3. mpc' = "submit"
  BY <1>1, Taken DEF run
<1> QED
  BY <1>2, <1>3, Taken, CallsWhole

LEMMA DropTaskCalls ==
  ASSUME CallsInv, DropTask
  PROVE  CallsInv'
<1>1. /\ queue # <<>> /\ queue' = Tail(queue) /\ stack' = stack
      /\ UNCHANGED <<memory, disk, run, cancelled, fetched>>
  BY DEF DropTask
<1>2. MemoryTypes' /\ DiskTypes' /\ RunTypes' /\ mpc' = mpc
  BY <1>1, CallsParts DEF MemoryTypes, memory, DiskTypes, disk, RunTypes, run
<1>3. mpc = "submit"
  BY <1>1, CallsParts DEF Idle
<1>4. PoolTypes'
  BY <1>1, CallsParts, HeadIsFirst, CrawlAssumption DEF PoolTypes
<1>5. stack' \in [Threads -> Seq(OpenFrames)] /\ Suspended(stack')
  BY <1>1, CallsParts
<1> QED
  BY <1>2, <1>3, <1>4, <1>5, CallsWhole

\* Run submits a start URL, or runs its task itself.
LEMMA SubmitStartStep ==
  ASSUME CallsInv, SubmitStart
  PROVE  /\ Main \in Threads /\ stack[Main] = <<>> /\ mpc = "submit"
         /\ Head(todo) \in URLs /\ todo # <<>>
         /\ \E t \in Tasks :
              /\ t.url = Head(todo) /\ t.depth = 0
              /\ \/ /\ Len(queue) < QueueCapacity
                    /\ queue' = Append(queue, t)
                    /\ stack' = [stack EXCEPT ![Main] = <<>>]
                 \/ /\ queue' = queue
                    /\ stack' = [stack EXCEPT ![Main] = <<Call(t)>> \o <<>>]
<1>1. /\ stack[Main] = <<>> /\ mpc = "submit" /\ todo # <<>>
      /\ Submit(Main, [url |-> Head(todo), depth |-> 0, rules |-> None, first |-> TRUE], <<>>)
  BY DEF SubmitStart
<1>2. Main \in Threads
  BY DEF Threads
<1>3. Head(todo) \in URLs
  BY <1>1, CallsParts, HeadIsFirst DEF RunTypes
<1>4. [url |-> Head(todo), depth |-> 0, rules |-> None, first |-> TRUE] \in Tasks
  BY <1>3, CrawlAssumption DEF Tasks, Depths
<1>5. PICK t \in Tasks : t = [url |-> Head(todo), depth |-> 0, rules |-> None, first |-> TRUE]
  BY <1>4
<1>6. Submit(Main, t, <<>>)
  BY <1>1, <1>5
<1> QED
  BY <1>1, <1>2, <1>3, <1>5, <1>6 DEF Submit, HasRoom

LEMMA SubmitStartCalls ==
  ASSUME CallsInv, SubmitStart
  PROVE  CallsInv'
<1>1. /\ UNCHANGED <<memory, disk, mpc, session, cancelled, fetched>> /\ todo' = Tail(todo)
  BY DEF SubmitStart
<1>2. PICK t \in Tasks :
        \/ /\ Len(queue) < QueueCapacity
           /\ queue' = Append(queue, t)
           /\ stack' = [stack EXCEPT ![Main] = <<>>]
        \/ /\ queue' = queue
           /\ stack' = [stack EXCEPT ![Main] = <<Call(t)>> \o <<>>]
  BY SubmitStartStep
<1>3. MemoryTypes' /\ DiskTypes'
  BY <1>1, CallsParts DEF MemoryTypes, memory, DiskTypes, disk
<1>4. RunTypes' /\ mpc' = "submit"
  BY <1>1, CallsParts, SubmitStartStep, HeadIsFirst DEF RunTypes
<1>5. PoolTypes'
  BY <1>2, CallsParts, QueueGrows, ZenonT(60) DEF PoolTypes
<1>6. stack' \in [Threads -> Seq(OpenFrames)] /\ Suspended(stack')
  <2>1. stack \in [Threads -> Seq(OpenFrames)] /\ Suspended(stack) /\ Main \in Threads
    BY CallsParts, SubmitStartStep
  <2>2. <<>> \in Seq(OpenFrames) /\ \A i \in 1..Len(<<>>) : <<>>[i].pc = "submit"
    OBVIOUS
  <2>3. CASE stack' = [stack EXCEPT ![Main] = <<>>]
    BY <2>1, <2>3 DEF Suspended
  <2>4. CASE stack' = [stack EXCEPT ![Main] = <<Call(t)>> \o <<>>]
    BY <2>1, <2>2, <2>4, CallIsOpen, Pushed DEF Suspended
  <2> QED
    BY <1>2, <2>3, <2>4
<1> QED
  BY <1>3, <1>4, <1>5, <1>6, CallsWhole

LEMMA WaitCalls ==
  ASSUME CallsInv, Wait
  PROVE  CallsInv'
<1>1. /\ Idle /\ mpc' = "saving" /\ UNCHANGED <<memory, disk, pool, todo, session, cancelled, fetched>>
  BY DEF Wait
<1>2. MemoryTypes' /\ DiskTypes' /\ RunTypes' /\ PoolTypes'
  BY <1>1, CallsParts DEF MemoryTypes, memory, DiskTypes, disk, RunTypes, PoolTypes, pool
<1>3. stack' \in [Threads -> Seq(OpenFrames)] /\ Suspended(stack') /\ Idle'
  BY <1>1, CallsParts DEF pool, Idle
<1> QED
  BY <1>2, <1>3, CallsWhole

LEMMA SaveVisitedCalls ==
  ASSUME CallsInv, SaveVisited
  PROVE  CallsInv'
<1>1. /\ mpc = "saving" /\ mpc' \in {"saving", "done"}
      /\ UNCHANGED <<memory, bank, docs, pool, todo, session, cancelled, fetched>>
      /\ saved' = saved \/ \E k \in Keys : saved' = [saved EXCEPT ![k] = visited[k]]
  BY DEF SaveVisited, Unsaved
<1>2. MemoryTypes' /\ RunTypes' /\ PoolTypes'
  BY <1>1, CallsParts DEF MemoryTypes, memory, RunTypes, PoolTypes, pool
<1>3. DiskTypes'
  <2>1. /\ visited \in [Keys -> (0..(MaxDepth - 1)) \cup {None}]
        /\ saved \in [Keys -> (0..(MaxDepth - 1)) \cup {None}]
    BY CallsParts DEF MemoryTypes, DiskTypes
  <2>2. saved' \in [Keys -> (0..(MaxDepth - 1)) \cup {None}]
    BY <1>1, <2>1
  <2> QED
    BY <1>1, <2>2, CallsParts DEF DiskTypes
<1>4. stack' \in [Threads -> Seq(OpenFrames)] /\ Suspended(stack') /\ Idle'
  BY <1>1, CallsParts DEF pool, Idle
<1> QED
  BY <1>2, <1>3, <1>4, CallsWhole

LEMMA CancelCalls ==
  ASSUME CallsInv, Cancel
  PROVE  CallsInv'
<1>1. cancelled' = TRUE /\ UNCHANGED <<memory, disk, pool, run, fetched>>
  BY DEF Cancel
<1>2. MemoryTypes' /\ DiskTypes' /\ RunTypes' /\ PoolTypes' /\ mpc' = mpc
  BY <1>1, CallsParts DEF MemoryTypes, memory, DiskTypes, disk, RunTypes, run, PoolTypes, pool
<1>3. stack' \in [Threads -> Seq(OpenFrames)] /\ Suspended(stack') /\ (Idle' <=> Idle)
  BY <1>1, CallsParts DEF pool, Idle
<1> QED
  BY <1>2, <1>3, CallsParts, CallsWhole

LEMMA RestartCalls ==
  ASSUME CallsInv, Restart
  PROVE  CallsInv'
<1>1. /\ session < Sessions /\ session' = session + 1
      /\ visited' = saved /\ lru' = <<>> /\ rlMap' = [h \in Hosts |-> None]
      /\ queue' = <<>> /\ stack' = [th \in Threads |-> <<>>]
      /\ mpc' = "submit" /\ todo' = StartURLs /\ cancelled' = FALSE
      /\ UNCHANGED disk
      /\ fetched' = [k \in Keys |-> 0]
  BY DEF Restart, Loaded
<1>2. MemoryTypes'
  BY <1>1, CallsParts, CrawlAssumption DEF MemoryTypes, DiskTypes
<1>3. DiskTypes'
  <2>1. fetched' \in [Keys -> Nat]
    BY <1>1, CallsParts DEF DiskTypes
  <2> QED
    BY <1>1, <2>1, CallsParts DEF DiskTypes, disk
<1>4. RunTypes' /\ PoolTypes'
  BY <1>1, CallsParts, CrawlAssumption DEF RunTypes, PoolTypes
<1>5. stack' \in [Threads -> Seq(OpenFrames)] /\ Suspended(stack')
  BY <1>1 DEF Suspended
<1> QED
  BY <1>1, <1>2, <1>3, <1>4, <1>5, CallsWhole

LEMMA StutterCalls ==
  ASSUME CallsInv, UNCHANGED vars
  PROVE  CallsInv'
<1>1. MemoryTypes' /\ DiskTypes' /\ RunTypes' /\ PoolTypes' /\ mpc' = mpc
  BY CallsParts DEF vars, MemoryTypes, memory, DiskTypes, disk, RunTypes, run, PoolTypes, pool
<1>2. stack' \in [Threads -> Seq(OpenFrames)] /\ Suspended(stack') /\ (Idle' <=> Idle)
  BY CallsParts DEF vars, pool, Idle
<1> QED
  BY <1>1, <1>2, CallsParts, CallsWhole

LEMMA InitCalls == Init => CallsInv
<1> SUFFICES ASSUME Init PROVE CallsInv
  OBVIOUS
<1>1. TypeOK
  <2>1. MemoryTypes
    BY CrawlAssumption DEF Init, MemoryTypes
  <2>2. DiskTypes
    <3>1. bank = [k \in Keys |-> <<>>] /\ <<>> \in Seq(Tokens)
      BY DEF Init
    <3>2. bank \in [Keys -> Seq(Tokens)]
      BY <3>1
    <3>3. fetched \in [Keys -> Nat] /\ saved \in [Keys -> (0..(MaxDepth - 1)) \cup {None}]
      BY DEF Init
    <3> QED
      BY <3>2, <3>3 DEF Init, DiskTypes
  <2>3. PoolTypes /\ RunTypes
    BY CrawlAssumption DEF Init, PoolTypes, RunTypes
  <2>4. stack \in [Threads -> Seq(Frames)]
    BY DEF Init
  <2> QED
    BY <2>1, <2>2, <2>3, <2>4 DEF TypeOK, MemoryTypes, DiskTypes, PoolTypes, RunTypes
<1>2. stack \in [Threads -> Seq(OpenFrames)] /\ Suspended(stack) /\ mpc = "submit"
  BY DEF Init, Suspended
<1> QED
  BY <1>1, <1>2 DEF CallsInv

LEMMA NextCalls == CallsInv /\ [Next]_vars => CallsInv'
<1> SUFFICES ASSUME CallsInv, [Next]_vars PROVE CallsInv'
  OBVIOUS
<1>1. ASSUME NEW th \in Threads, ScrapeStep(th) PROVE CallsInv'
  BY <1>1, ScrapeStepCalls
<1>2. ASSUME NEW w \in Workers, TakeTask(w) PROVE CallsInv'
  BY <1>2, TakeTaskCalls
<1>3. CASE RunStep
  BY <1>3, SubmitStartCalls, WaitCalls, SaveVisitedCalls DEF RunStep
<1>4. CASE DropTask \/ Cancel \/ Restart
  BY <1>4, DropTaskCalls, CancelCalls, RestartCalls
<1>5. CASE Finished \/ UNCHANGED vars
  BY <1>5, StutterCalls DEF Finished
<1> QED
  BY <1>1, <1>2, <1>3, <1>4, <1>5 DEF Next

\* The types, and that Run is over only when the pool is idle.
THEOREM CallsInvariant == Spec => []CallsInv
BY InitCalls, NextCalls, PTL DEF Spec
-----------------------------------------------------------------------------
(* The levels of the web *)

StartKeys == {Key[StartURLs[i]] : i \in 1..Len(StartURLs)}

\* The keys that links lead to from the keys of a set.
Followers(X) == {p[2] : p \in {q \in Leads : q[1] \in X}}

LevelsUpTo(f, m) == f = [n \in 0..m |-> IF n = 0 THEN StartKeys ELSE Followers(f[n - 1])]

\* Level is well defined: it has the values its definition gives it.
LEMMA LevelValues ==
  /\ Level[0] = StartKeys
  /\ \A n \in 1..MaxDepth : Level[n] = Followers(Level[n - 1])
<1> DEFINE T == {m \in Nat : \E f : LevelsUpTo(f, m)}
<1>1. 0 \in T
  <2> DEFINE f == [n \in 0..0 |-> StartKeys]
  <2>1. f = [n \in 0..0 |-> IF n = 0 THEN StartKeys ELSE Followers(f[n - 1])]
    OBVIOUS
  <2> QED
    BY <2>1 DEF LevelsUpTo
<1>2. ASSUME NEW m \in Nat, m \in T PROVE m + 1 \in T
  <2>1. PICK f : LevelsUpTo(f, m)
    BY <1>2
  <2> DEFINE g == [n \in 0..(m + 1) |-> IF n <= m THEN f[n] ELSE Followers(f[m])]
  <2>2. \A n \in 0..m : f[n] = IF n = 0 THEN StartKeys ELSE Followers(f[n - 1])
    BY <2>1 DEF LevelsUpTo
  <2>3. \A n \in 0..(m + 1) : g[n] = IF n <= m THEN f[n] ELSE Followers(f[m])
    OBVIOUS
  <2>4. g = [n \in 0..(m + 1) |-> g[n]]
    OBVIOUS
  <2> HIDE DEF g
  <2>5. ASSUME NEW n \in 0..(m + 1)
        PROVE  g[n] = IF n = 0 THEN StartKeys ELSE Followers(g[n - 1])
    <3>1. CASE n = 0
      BY <1>2, <2>2, <2>3, <3>1
    <3>2. CASE n \in 1..m
      <4>1. n - 1 \in 0..(m + 1) /\ n - 1 <= m /\ n \in 0..m /\ n # 0
        BY <1>2, <3>2
      <4>2. g[n - 1] = f[n - 1] /\ g[n] = f[n]
        BY <2>3, <3>2, <4>1
      <4> QED
        BY <2>2, <4>1, <4>2
    <3>3. CASE n = m + 1
      <4>1. m \in 0..(m + 1) /\ n - 1 = m /\ ~(n <= m) /\ n # 0
        BY <1>2, <3>3
      <4>2. g[n - 1] = f[m] /\ g[n] = Followers(f[m])
        BY <1>2, <2>3, <3>3, <4>1
      <4> QED
        BY <4>1, <4>2
    <3> QED
      BY <1>2, <3>1, <3>2, <3>3
  <2>6. [n \in 0..(m + 1) |-> g[n]]
          = [n \in 0..(m + 1) |-> IF n = 0 THEN StartKeys ELSE Followers(g[n - 1])]
    BY <2>5
  <2>7. LevelsUpTo(g, m + 1)
    BY <2>4, <2>6, Zenon DEF LevelsUpTo
  <2> QED
    BY <1>2, <2>7
<1>3. MaxDepth \in T
  BY <1>1, <1>2, SetInduction, CrawlAssumption
<1>4. PICK f : LevelsUpTo(f, MaxDepth)
  BY <1>3
<1>5. Level = [n \in Depths |-> IF n = 0 THEN StartKeys ELSE Followers(Level[n - 1])]
  <2> DEFINE IsLevel(h) == h = [n \in Depths |-> IF n = 0 THEN StartKeys ELSE Followers(h[n - 1])]
  <2>1. Level = CHOOSE h : IsLevel(h)
    BY DEF Level, StartKeys, Followers
  <2>2. \E h : IsLevel(h)
    BY <1>4 DEF LevelsUpTo, Depths
  <2> HIDE DEF IsLevel
  <2>3. IsLevel(Level)
    BY <2>1, <2>2, Zenon
  <2> QED
    BY <2>3 DEF IsLevel
<1>6. \A n \in Depths : Level[n] = IF n = 0 THEN StartKeys ELSE Followers(Level[n - 1])
  BY <1>5
<1>7. 0 \in Depths /\ \A n \in 1..MaxDepth : n \in Depths /\ n # 0
  BY CrawlAssumption DEF Depths
<1> QED
  BY <1>6, <1>7
-----------------------------------------------------------------------------
(* LinksInv: every task and every stored link comes from a link of a page *)

\* The page is not left for its sitemap before it is visited.
Passed(u) == u \notin Sitemaps \/ "fetch" \in Faults

\* The link is on a page of that key, and on its site if it is marked so.
LinkOf(token, k) ==
  \E u \in URLs : /\ Key[u] = k /\ Passed(u)
                  /\ \E i \in 1..Len(Links[u]) : Links[u][i] = token.link
                  /\ token.same => <<token.link, u>> \in SameOrigin

AllLinksOf(list, k) == \A i \in 1..Len(list) : LinkOf(list[i], k)

AllOnPage(hrefs, u) == \A i \in 1..Len(hrefs) : \E j \in 1..Len(Links[u]) : hrefs[i] = Links[u][j]

TracedTasks == {t \in Tasks : Key[t.url] \in Level[t.depth]}

TracedFrames ==
  {f \in OpenFrames :
     /\ f.task \in TracedTasks
     /\ f.pc \notin {"enter", "rules"} => Passed(f.task.url)
     /\ AllOnPage(f.hrefs, f.task.url)
     /\ AllLinksOf(f.links, Key[f.task.url]) /\ AllLinksOf(f.deeper, Key[f.task.url])}

PoolTraced == stack \in [Threads -> Seq(TracedFrames)] /\ queue \in Seq(TracedTasks)

StartTraced == \A i \in 1..Len(todo) : Key[todo[i]] \in StartKeys

StoreTraced ==
  /\ \A k \in Keys : AllLinksOf(bank[k], k)
  /\ \A i \in 1..Len(lru) : AllLinksOf(lru[i].value, lru[i].key)

MarksTraced ==
  /\ DepthSound
  /\ \A k \in Keys : saved[k] # None => k \in Level[saved[k]]

LinksInv == PoolTraced /\ StartTraced /\ StoreTraced /\ MarksTraced

\* A link that is followed from a page is one that leads from its key.
LEMMA LinkLeads ==
  ASSUME NEW k, NEW token, token.link \in URLs, LinkOf(token, k), Followed(token)
  PROVE  <<k, Key[token.link]>> \in Leads
<1>1. PICK u \in URLs : /\ Key[u] = k /\ Passed(u)
                        /\ \E i \in 1..Len(Links[u]) : Links[u][i] = token.link
                        /\ token.same => <<token.link, u>> \in SameOrigin
  BY DEF LinkOf
<1> DEFINE q == <<u, token.link>>
<1>2. q \in URLs \X URLs /\ q[1] = u /\ q[2] = token.link
  OBVIOUS
<1> HIDE DEF q
<1>3. /\ \E i \in 1..Len(Links[q[1]]) : Links[q[1]][i] = q[2]
      /\ q[1] \notin Sitemaps \/ "fetch" \in Faults
      /\ ~OnlySameDomain \/ <<q[2], q[1]>> \in SameOrigin
  BY <1>1, <1>2 DEF Passed, Followed
<1>4. <<Key[q[1]], Key[q[2]]>> \in Leads
  BY <1>2, <1>3 DEF Leads
<1> QED
  BY <1>1, <1>2, <1>4

\* It leads one level down.
LEMMA OneLevelDown ==
  ASSUME NEW k, NEW d \in 0..(MaxDepth - 1), k \in Level[d],
         NEW token, token.link \in URLs, LinkOf(token, k), Followed(token)
  PROVE  Key[token.link] \in Level[d + 1]
<1>1. <<k, Key[token.link]>> \in Leads
  BY LinkLeads
<1>2. Key[token.link] \in Followers(Level[d])
  BY <1>1 DEF Followers
<1>3. d + 1 \in 1..MaxDepth /\ (d + 1) - 1 = d
  BY CrawlAssumption
<1> QED
  BY <1>2, <1>3, LevelValues

LEMMA TracedIs ==
  ASSUME NEW f \in TracedFrames
  PROVE  /\ f \in OpenFrames /\ f \in Frames
         /\ f.task \in TracedTasks /\ Key[f.task.url] \in Level[f.task.depth]
         /\ f.pc \notin {"enter", "rules"} => Passed(f.task.url)
         /\ AllOnPage(f.hrefs, f.task.url)
         /\ AllLinksOf(f.links, Key[f.task.url]) /\ AllLinksOf(f.deeper, Key[f.task.url])
BY DEF TracedFrames, TracedTasks, OpenFrames

\* A call that goes on stays traced.
LEMMA StillTraced ==
  ASSUME NEW f \in TracedFrames, NEW g \in OpenFrames, g.task = f.task,
         g.pc \notin {"enter", "rules"} => Passed(f.task.url),
         AllOnPage(g.hrefs, f.task.url),
         AllLinksOf(g.links, Key[f.task.url]), AllLinksOf(g.deeper, Key[f.task.url])
  PROVE  g \in TracedFrames
BY DEF TracedFrames

LEMMA TracedChanges ==
  ASSUME NEW f \in TracedFrames, f.task.depth < MaxDepth
  PROVE  /\ [f EXCEPT !.pc = "rules"] \in TracedFrames
         /\ Passed(f.task.url) =>
              /\ \A pc \in {"visit", "lookup", "bank", "fetch", "lost", "save"} :
                   [f EXCEPT !.pc = pc] \in TracedFrames
              /\ [f EXCEPT !.pc = "parse", !.hrefs = Links[f.task.url]] \in TracedFrames
              /\ \A l \in Seq(Tokens) : AllLinksOf(l, Key[f.task.url]) =>
                   /\ Submitting(f, l) \in TracedFrames
                   /\ [f EXCEPT !.pc = "index", !.hrefs = <<>>, !.links = l, !.deeper = <<>>]
                        \in TracedFrames
<1>1. /\ f \in OpenFrames /\ f \in Frames
      /\ AllOnPage(f.hrefs, f.task.url)
      /\ AllLinksOf(f.links, Key[f.task.url]) /\ AllLinksOf(f.deeper, Key[f.task.url])
      /\ f.task.url \in URLs
  BY TracedIs, FrameTypes
<1>2. AllOnPage(<<>>, f.task.url) /\ AllLinksOf(<<>>, Key[f.task.url])
  BY DEF AllOnPage, AllLinksOf
<1>3. AllOnPage(Links[f.task.url], f.task.url)
  BY DEF AllOnPage
<1>4. [f EXCEPT !.pc = "rules"] \in TracedFrames
  <2>1. PICK g \in OpenFrames : g = [f EXCEPT !.pc = "rules"]
    BY <1>1, FrameChanges
  <2>2. g.task = f.task /\ g.pc = "rules" /\ g.hrefs = f.hrefs /\ g.links = f.links /\ g.deeper = f.deeper
    BY <1>1, <2>1 DEF Frames
  <2> QED
    BY <1>1, <2>1, <2>2, StillTraced
<1>5. ASSUME Passed(f.task.url), NEW pc \in {"visit", "lookup", "bank", "fetch", "lost", "save"}
      PROVE  [f EXCEPT !.pc = pc] \in TracedFrames
  <2>1. PICK g \in OpenFrames : g = [f EXCEPT !.pc = pc]
    BY <1>1, FrameChanges
  <2>2. g.task = f.task /\ g.pc = pc /\ g.hrefs = f.hrefs /\ g.links = f.links /\ g.deeper = f.deeper
    BY <1>1, <2>1 DEF Frames
  <2> QED
    BY <1>1, <1>5, <2>1, <2>2, StillTraced
<1>6. ASSUME Passed(f.task.url)
      PROVE  [f EXCEPT !.pc = "parse", !.hrefs = Links[f.task.url]] \in TracedFrames
  <2>1. Links[f.task.url] \in Seq(URLs)
    BY <1>1, CrawlAssumption
  <2>2. PICK g \in OpenFrames : g = [f EXCEPT !.pc = "parse", !.hrefs = Links[f.task.url]]
    BY <1>1, <2>1, FrameChanges
  <2>3. /\ g.task = f.task /\ g.hrefs = Links[f.task.url]
        /\ g.links = f.links /\ g.deeper = f.deeper
    BY <1>1, <2>2 DEF Frames
  <2> QED
    BY <1>1, <1>3, <1>6, <2>2, <2>3, StillTraced
<1>7. ASSUME Passed(f.task.url), NEW l \in Seq(Tokens), AllLinksOf(l, Key[f.task.url])
      PROVE  Submitting(f, l) \in TracedFrames
  <2>1. PICK g \in OpenFrames : g = Submitting(f, l)
    BY <1>1, FrameChanges
  <2>2. g.task = f.task /\ g.hrefs = <<>> /\ g.links = l /\ g.deeper = <<>>
    BY <1>1, <2>1 DEF Frames, Submitting
  <2> QED
    BY <1>2, <1>7, <2>1, <2>2, StillTraced
<1>8. ASSUME Passed(f.task.url), NEW l \in Seq(Tokens), AllLinksOf(l, Key[f.task.url])
      PROVE  [f EXCEPT !.pc = "index", !.hrefs = <<>>, !.links = l, !.deeper = <<>>] \in TracedFrames
  <2>1. PICK g \in OpenFrames : g = [f EXCEPT !.pc = "index", !.hrefs = <<>>, !.links = l, !.deeper = <<>>]
    BY <1>1, FrameChanges
  <2>2. g.task = f.task /\ g.hrefs = <<>> /\ g.links = l /\ g.deeper = <<>>
    BY <1>1, <2>1 DEF Frames
  <2> QED
    BY <1>2, <1>8, <2>1, <2>2, StillTraced
<1> QED
  BY <1>4, <1>5, <1>6, <1>7, <1>8

\* One link of the page is parsed.
LEMMA TracedParse ==
  ASSUME NEW f \in TracedFrames, f.pc = "parse", f.task.depth < MaxDepth, f.hrefs # <<>>,
         NEW token \in Tokens, token.link = Head(f.hrefs),
         token.same => <<token.link, f.task.url>> \in SameOrigin
  PROVE  /\ [f EXCEPT !.hrefs = Tail(f.hrefs)] \in TracedFrames
         /\ [[f EXCEPT !.hrefs = Tail(f.hrefs)] EXCEPT !.links = Append(f.links, token)] \in TracedFrames
         /\ [[f EXCEPT !.hrefs = Tail(f.hrefs)] EXCEPT !.deeper = Append(f.deeper, token)] \in TracedFrames
<1>1. /\ f \in OpenFrames /\ f \in Frames /\ f.hrefs \in Seq(URLs) /\ f.task.url \in URLs
      /\ f.links \in Seq(Tokens) /\ f.deeper \in Seq(Tokens)
      /\ AllOnPage(f.hrefs, f.task.url) /\ Passed(f.task.url)
      /\ AllLinksOf(f.links, Key[f.task.url]) /\ AllLinksOf(f.deeper, Key[f.task.url])
  BY TracedIs, FrameTypes
<1>2. /\ Tail(f.hrefs) \in Seq(URLs)
      /\ AllOnPage(Tail(f.hrefs), f.task.url)
      /\ \E j \in 1..Len(Links[f.task.url]) : Links[f.task.url][j] = token.link
  BY <1>1, HeadIsFirst, SMTT(60) DEF AllOnPage
<1>3. LinkOf(token, Key[f.task.url])
  BY <1>1, <1>2 DEF LinkOf
<1>4. ASSUME NEW l \in Seq(Tokens), AllLinksOf(l, Key[f.task.url])
      PROVE  Append(l, token) \in Seq(Tokens) /\ AllLinksOf(Append(l, token), Key[f.task.url])
  <2>1. /\ Append(l, token) \in Seq(Tokens) /\ Len(Append(l, token)) = Len(l) + 1 /\ Len(l) \in Nat
        /\ Append(l, token)[Len(l) + 1] = token
        /\ \A i \in 1..Len(l) : Append(l, token)[i] = l[i]
    OBVIOUS
  <2> QED
    BY <1>3, <1>4, <2>1 DEF AllLinksOf
<1>5. PICK h \in Seq(URLs) : h = Tail(f.hrefs)
  BY <1>2
<1>6. [f EXCEPT !.hrefs = h] \in TracedFrames
  <2>1. PICK g \in OpenFrames : g = [f EXCEPT !.hrefs = h]
    BY <1>1, FrameChanges
  <2>2. g.task = f.task /\ g.hrefs = h /\ g.links = f.links /\ g.deeper = f.deeper
    BY <1>1, <2>1 DEF Frames
  <2> QED
    BY <1>1, <1>2, <1>5, <2>1, <2>2, StillTraced
<1>7. [[f EXCEPT !.hrefs = h] EXCEPT !.links = Append(f.links, token)] \in TracedFrames
  <2>1. PICK l \in Seq(Tokens) : l = Append(f.links, token)
    BY <1>1, <1>4
  <2>2. PICK g \in OpenFrames : g = [[f EXCEPT !.hrefs = h] EXCEPT !.links = l]
    BY <1>1, FrameChanges
  <2>3. g.task = f.task /\ g.hrefs = h /\ g.links = l /\ g.deeper = f.deeper
    BY <1>1, <2>2 DEF Frames
  <2>4. AllLinksOf(l, Key[f.task.url])
    BY <1>1, <1>4, <2>1
  <2>5. g \in TracedFrames
    BY <1>1, <1>2, <1>5, <2>2, <2>3, <2>4, StillTraced
  <2> QED
    BY <2>1, <2>2, <2>5
<1>8. [[f EXCEPT !.hrefs = h] EXCEPT !.deeper = Append(f.deeper, token)] \in TracedFrames
  <2>1. PICK l \in Seq(Tokens) : l = Append(f.deeper, token)
    BY <1>1, <1>4
  <2>2. PICK g \in OpenFrames : g = [[f EXCEPT !.hrefs = h] EXCEPT !.deeper = l]
    BY <1>1, FrameChanges
  <2>3. g.task = f.task /\ g.hrefs = h /\ g.links = f.links /\ g.deeper = l
    BY <1>1, <2>2 DEF Frames
  <2>4. AllLinksOf(l, Key[f.task.url])
    BY <1>1, <1>4, <2>1
  <2>5. g \in TracedFrames
    BY <1>1, <1>2, <1>5, <2>2, <2>3, <2>4, StillTraced
  <2> QED
    BY <2>1, <2>2, <2>5
<1> QED
  BY <1>5, <1>6, <1>7, <1>8

LEMMA CallIsTraced ==
  ASSUME NEW t \in TracedTasks
  PROVE  Call(t) \in TracedFrames
<1>1. t \in Tasks
  BY DEF TracedTasks
<1>2. /\ Call(t).task = t /\ Call(t).pc = "enter"
      /\ Call(t).hrefs = <<>> /\ Call(t).links = <<>> /\ Call(t).deeper = <<>>
  BY DEF Call
<1> QED
  BY <1>1, <1>2, CallIsOpen DEF TracedFrames, AllOnPage, AllLinksOf

\* The link that is submitted, and the call with the links after it.
LEMMA SubmittedTraced ==
  ASSUME NEW f \in TracedFrames, f.pc = "submit", NEW i \in 1..Len(f.links), Followed(f.links[i])
  PROVE  TaskFor(f, f.links[i]) \in TracedTasks /\ After(f, i) \in TracedFrames
<1>1. /\ f \in OpenFrames /\ f.task.depth \in 0..(MaxDepth - 1)
      /\ Key[f.task.url] \in Level[f.task.depth]
      /\ AllLinksOf(f.links, Key[f.task.url]) /\ AllLinksOf(f.deeper, Key[f.task.url])
      /\ Passed(f.task.url) /\ AllOnPage(f.hrefs, f.task.url)
  <2>1. /\ f \in OpenFrames /\ Key[f.task.url] \in Level[f.task.depth]
        /\ AllLinksOf(f.links, Key[f.task.url]) /\ AllLinksOf(f.deeper, Key[f.task.url])
        /\ Passed(f.task.url) /\ AllOnPage(f.hrefs, f.task.url)
    BY TracedIs
  <2>2. f.task.depth \in Nat /\ f.task.depth < MaxDepth
    BY <2>1, FrameTypes
  <2> QED
    BY <2>1, <2>2, CrawlAssumption
<1>2. /\ After(f, i) \in OpenFrames /\ After(f, i).pc = "submit" /\ After(f, i).task = f.task
      /\ TaskFor(f, f.links[i]) \in Tasks /\ f.links[i] \in Tokens
      /\ After(f, i).hrefs = f.hrefs /\ After(f, i).deeper = f.deeper
      /\ \A j \in 1..Len(After(f, i).links) : \E m \in 1..Len(f.links) : After(f, i).links[j] = f.links[m]
  BY <1>1, AfterTypes
<1>3. AllLinksOf(After(f, i).links, Key[f.task.url])
  BY <1>1, <1>2 DEF AllLinksOf
<1>4. After(f, i) \in TracedFrames
  BY <1>1, <1>2, <1>3, StillTraced
<1>5. f.links[i].link \in URLs /\ LinkOf(f.links[i], Key[f.task.url])
  BY <1>1, <1>2 DEF AllLinksOf, Tokens
<1>6. Key[f.links[i].link] \in Level[f.task.depth + 1]
  BY <1>1, <1>5, OneLevelDown
<1>7. TaskFor(f, f.links[i]).url = f.links[i].link /\ TaskFor(f, f.links[i]).depth = f.task.depth + 1
  BY DEF TaskFor, Deeper
<1> QED
  BY <1>2, <1>4, <1>6, <1>7 DEF TracedTasks

LEMMA TopIsTraced ==
  ASSUME CallsInv, LinksInv, NEW th \in Threads, stack[th] # <<>>
  PROVE  Top(th) \in TracedFrames
<1>1. stack[th] \in Seq(TracedFrames)
  BY DEF LinksInv, PoolTraced
<1> QED
  BY <1>1, HeadIsFirst DEF Top

LEMMA ReturnsTraced ==
  ASSUME LinksInv, NEW th \in Threads, stack[th] # <<>>, Return(th)
  PROVE  PoolTraced'
<1>1. /\ stack' = [stack EXCEPT ![th] = Tail(@)] /\ queue' = queue
      /\ stack \in [Threads -> Seq(TracedFrames)] /\ queue \in Seq(TracedTasks)
  BY DEF Return, LinksInv, PoolTraced
<1>2. stack' \in [Threads -> Seq(TracedFrames)]
  BY <1>1, Popped
<1> QED
  BY <1>1, <1>2 DEF PoolTraced

\* A step that changes no list and no mark.
LEMMA StoreUntouched ==
  ASSUME LinksInv, UNCHANGED <<visited, lru, bank, saved>>
  PROVE  StoreTraced' /\ MarksTraced'
<1>1. StoreTraced'
  BY DEF LinksInv, StoreTraced
<1>2. MarksTraced'
  BY DEF LinksInv, MarksTraced, DepthSound
<1> QED
  BY <1>1, <1>2

LEMMA EnterLinks ==
  ASSUME CallsInv, LinksInv, NEW th \in Threads, Enter(th)
  PROVE  LinksInv'
<1>1. /\ stack[th] # <<>> /\ UNCHANGED <<visited, lru, disk, run, cancelled, fetched>>
  BY DEF Enter, At
<1>2. StoreTraced' /\ MarksTraced' /\ StartTraced'
  BY <1>1, StoreUntouched DEF disk, run, LinksInv, StartTraced
<1>3. PoolTraced'
  <2>1. CASE Return(th)
    BY <1>1, <2>1, ReturnsTraced
  <2>2. CASE ~TooDeep(Top(th).task) /\ Goto(th, [Top(th) EXCEPT !.pc = "rules"])
    <3>1. Top(th) \in TracedFrames /\ Top(th) \in OpenFrames
      BY <1>1, TopIsTraced, TopIsOpen
    <3>2. Top(th).task.depth < MaxDepth
      BY <2>2, <3>1, FrameTypes, CrawlAssumption DEF TooDeep
    <3>3. [Top(th) EXCEPT !.pc = "rules"] \in TracedFrames
      BY <3>1, <3>2, TracedChanges
    <3> QED
      BY <1>1, <2>2, <3>3, Replaced DEF Goto, LinksInv, PoolTraced
  <2> QED
    BY <2>1, <2>2 DEF Enter
<1> QED
  BY <1>2, <1>3 DEF LinksInv

LEMMA FetchRulesLinks ==
  ASSUME CallsInv, LinksInv, NEW th \in Threads, FetchRules(th)
  PROVE  LinksInv'
<1>1. /\ stack[th] # <<>> /\ Top(th).pc = "rules"
      /\ UNCHANGED <<visited, lru, disk, run, cancelled, fetched>>
  BY DEF FetchRules, At, Top
<1>2. StoreTraced' /\ MarksTraced' /\ StartTraced'
  BY <1>1, StoreUntouched DEF disk, run, LinksInv, StartTraced
<1>3. PoolTraced'
  <2>1. CASE Return(th)
    BY <1>1, <2>1, ReturnsTraced
  <2>2. CASE Passed(Top(th).task.url) /\ Goto(th, [Top(th) EXCEPT !.pc = "visit"])
    <3>1. Top(th) \in TracedFrames /\ Top(th).task.depth < MaxDepth
      BY <1>1, TopIsTraced, TopIsOpen, FrameTypes
    <3>2. [Top(th) EXCEPT !.pc = "visit"] \in TracedFrames
      BY <2>2, <3>1, TracedChanges
    <3> QED
      BY <1>1, <2>2, <3>2, Replaced DEF Goto, LinksInv, PoolTraced
  <2> QED
    BY <2>1, <2>2 DEF FetchRules, Page, Passed
<1> QED
  BY <1>2, <1>3 DEF LinksInv

\* What is known of a call that visits or comes after that.
LEMMA TopHasPassed ==
  ASSUME CallsInv, LinksInv, NEW th \in Threads, stack[th] # <<>>,
         Top(th).pc \notin {"enter", "rules"}
  PROVE  /\ Top(th) \in TracedFrames /\ Top(th) \in OpenFrames
         /\ Passed(Top(th).task.url) /\ Page(th) = Top(th).task.url
         /\ Page(th) \in URLs /\ Key[Page(th)] \in Keys
         /\ Top(th).task.depth \in 0..(MaxDepth - 1)
         /\ Top(th).task.depth < MaxDepth
         /\ Key[Page(th)] \in Level[Top(th).task.depth]
         /\ Top(th).links \in Seq(Tokens) /\ Top(th).deeper \in Seq(Tokens)
         /\ AllLinksOf(Top(th).links, Key[Page(th)]) /\ AllLinksOf(Top(th).deeper, Key[Page(th)])
<1>1. Top(th) \in TracedFrames /\ Top(th) \in OpenFrames /\ Page(th) = Top(th).task.url
  BY TopIsTraced, TopIsOpen DEF Page
<1>2. /\ Passed(Top(th).task.url) /\ Key[Page(th)] \in Level[Top(th).task.depth]
      /\ AllLinksOf(Top(th).links, Key[Page(th)]) /\ AllLinksOf(Top(th).deeper, Key[Page(th)])
  BY <1>1, TracedIs
<1>3. /\ Page(th) \in URLs /\ Key[Page(th)] \in Keys
      /\ Top(th).task.depth \in Nat /\ Top(th).task.depth < MaxDepth
      /\ Top(th).links \in Seq(Tokens) /\ Top(th).deeper \in Seq(Tokens)
  BY <1>1, FrameTypes
<1>4. Top(th).task.depth \in 0..(MaxDepth - 1)
  BY <1>3, CrawlAssumption
<1> QED
  BY <1>1, <1>2, <1>3, <1>4

LEMMA VisitLinks ==
  ASSUME CallsInv, LinksInv, NEW th \in Threads, Visit(th)
  PROVE  LinksInv'
<1>1. /\ stack[th] # <<>> /\ Top(th).pc = "visit"
      /\ UNCHANGED <<lru, rlMap, disk, run, cancelled, fetched>>
      /\ visited' = [visited EXCEPT ![Key[Page(th)]] = LoadOrStore(Key[Page(th)], Top(th).task.depth)]
  BY DEF Visit, At, Top
<1>2. /\ Top(th) \in TracedFrames /\ Passed(Top(th).task.url) /\ Top(th).task.depth < MaxDepth
      /\ Key[Page(th)] \in Keys /\ Key[Page(th)] \in Level[Top(th).task.depth]
  BY <1>1, TopHasPassed
<1>3. StoreTraced' /\ StartTraced'
  BY <1>1 DEF disk, run, LinksInv, StartTraced, StoreTraced
<1>4. MarksTraced'
  <2>1. DepthSound'
    BY <1>1, <1>2, CallsParts DEF LinksInv, MarksTraced, DepthSound, LoadOrStore, MemoryTypes
  <2> QED
    BY <1>1, <2>1 DEF LinksInv, MarksTraced, disk
<1>5. PoolTraced'
  <2>1. CASE Return(th)
    BY <1>1, <2>1, ReturnsTraced
  <2>2. ASSUME NEW pc \in {"fetch", "lookup"}, Goto(th, [Top(th) EXCEPT !.pc = pc])
        PROVE  PoolTraced'
    <3>1. [Top(th) EXCEPT !.pc = pc] \in TracedFrames
      BY <1>2, TracedChanges
    <3> QED
      BY <1>1, <2>2, <3>1, Replaced DEF Goto, LinksInv, PoolTraced
  <2> QED
    BY <2>1, <2>2 DEF Visit
<1> QED
  BY <1>3, <1>4, <1>5 DEF LinksInv

LEMMA LookupCacheLinks ==
  ASSUME CallsInv, LinksInv, NEW th \in Threads, LookupCache(th)
  PROVE  LinksInv'
<1>1. /\ stack[th] # <<>> /\ Top(th).pc = "lookup"
      /\ UNCHANGED <<visited, rlMap, disk, run, cancelled, fetched>>
  BY DEF LookupCache, At, Top
<1>2. /\ Top(th) \in TracedFrames /\ Passed(Top(th).task.url) /\ Top(th).task.depth < MaxDepth
      /\ Key[Page(th)] \in Keys /\ Page(th) = Top(th).task.url
  BY <1>1, TopHasPassed
<1>3. StartTraced' /\ MarksTraced'
  BY <1>1 DEF disk, run, LinksInv, StartTraced, MarksTraced, DepthSound
<1>4. CASE Goto(th, [Top(th) EXCEPT !.pc = "bank"]) /\ lru' = lru
  <2>1. StoreTraced'
    BY <1>1, <1>4 DEF LinksInv, StoreTraced, disk
  <2>2. [Top(th) EXCEPT !.pc = "bank"] \in TracedFrames
    BY <1>2, TracedChanges
  <2>3. PoolTraced'
    BY <1>1, <1>4, <2>2, Replaced DEF Goto, LinksInv, PoolTraced
  <2> QED
    BY <1>3, <2>1, <2>3 DEF LinksInv
<1>5. CASE /\ Has(lru, Key[Page(th)]) /\ lru' = AfterGet(lru, Key[Page(th)])
           /\ Goto(th, Submitting(Top(th), Lookup(lru, Key[Page(th)])))
  <2>1. PICK l \in Seq(Tokens) : l = Lookup(lru, Key[Page(th)])
    BY <1>2, <1>5, LookupFound
  <2>2. PICK j \in 1..Len(lru) : lru[j].key = Key[Page(th)] /\ l = lru[j].value
    BY <1>2, <1>5, <2>1, LookupFound
  <2>3. AllLinksOf(l, Key[Page(th)])
    BY <2>2 DEF LinksInv, StoreTraced
  <2>4. \A i \in 1..Len(lru') : \E m \in 1..Len(lru) : lru'[i] = lru[m]
    BY <1>2, <1>5, LookupFound
  <2>5. StoreTraced'
    BY <1>1, <2>4 DEF LinksInv, StoreTraced, disk
  <2>6. Submitting(Top(th), l) \in TracedFrames
    BY <1>2, <2>1, <2>3, TracedChanges
  <2>7. PoolTraced'
    BY <1>1, <1>5, <2>1, <2>6, Replaced DEF Goto, LinksInv, PoolTraced
  <2> QED
    BY <1>3, <2>5, <2>7 DEF LinksInv
<1> QED
  BY <1>4, <1>5 DEF LookupCache

LEMMA LookupBankLinks ==
  ASSUME CallsInv, LinksInv, NEW th \in Threads, LookupBank(th)
  PROVE  LinksInv'
<1>1. /\ stack[th] # <<>> /\ Top(th).pc = "bank"
      /\ UNCHANGED <<visited, rlMap, disk, run, cancelled, fetched>>
  BY DEF LookupBank, At, Top
<1>2. /\ Top(th) \in TracedFrames /\ Passed(Top(th).task.url) /\ Top(th).task.depth < MaxDepth
      /\ Key[Page(th)] \in Keys /\ Page(th) = Top(th).task.url
  BY <1>1, TopHasPassed
<1>3. StartTraced' /\ MarksTraced'
  BY <1>1 DEF disk, run, LinksInv, StartTraced, MarksTraced, DepthSound
<1>4. CASE Return(th) /\ UNCHANGED lru
  <2>1. StoreTraced'
    BY <1>1, <1>4 DEF LinksInv, StoreTraced, disk
  <2> QED
    BY <1>1, <1>3, <1>4, <2>1, ReturnsTraced DEF LinksInv
<1>5. ASSUME NEW l \in SavedLinks(Key[Page(th)]) \ {<<>>},
             lru' = AfterPut(lru, Key[Page(th)], l, CacheCapacity),
             Goto(th, Submitting(Top(th), l))
      PROVE  LinksInv'
  <2>1. l = bank[Key[Page(th)]]
    BY <1>5 DEF SavedLinks
  <2>2. l \in Seq(Tokens) \ {<<>>} /\ AllLinksOf(l, Key[Page(th)])
    BY <1>2, <1>5, <2>1, CallsParts DEF LinksInv, StoreTraced, DiskTypes
  <2>3. /\ Entry(Key[Page(th)], l).key = Key[Page(th)] /\ Entry(Key[Page(th)], l).value = l
        /\ \A i \in 1..Len(lru') :
             lru'[i] = Entry(Key[Page(th)], l) \/ \E m \in 1..Len(lru) : lru'[i] = lru[m]
    BY <1>2, <1>5, <2>2, PutStored DEF Entry
  <2>4. StoreTraced'
    BY <1>1, <2>2, <2>3 DEF LinksInv, StoreTraced, disk
  <2>5. Submitting(Top(th), l) \in TracedFrames
    BY <1>2, <2>2, TracedChanges
  <2>6. PoolTraced'
    BY <1>1, <1>5, <2>5, Replaced DEF Goto, LinksInv, PoolTraced
  <2> QED
    BY <1>3, <2>4, <2>6 DEF LinksInv
<1> QED
  BY <1>4, <1>5 DEF LookupBank

LEMMA FetchLinks ==
  ASSUME CallsInv, LinksInv, NEW th \in Threads, Fetch(th)
  PROVE  LinksInv'
<1>1. /\ stack[th] # <<>> /\ Top(th).pc = "fetch" /\ UNCHANGED <<memory, disk, run, cancelled>>
  BY DEF Fetch, At, Top
<1>2. StoreTraced' /\ MarksTraced' /\ StartTraced'
  BY <1>1, StoreUntouched DEF memory, disk, run, LinksInv, StartTraced
<1>3. PoolTraced'
  <2>1. CASE Return(th)
    BY <1>1, <2>1, ReturnsTraced
  <2>2. CASE Goto(th, [Top(th) EXCEPT !.pc = "parse", !.hrefs = Links[Page(th)]])
    <3>1. [Top(th) EXCEPT !.pc = "parse", !.hrefs = Links[Page(th)]] \in TracedFrames
      BY <1>1, TopHasPassed, TracedChanges
    <3> QED
      BY <1>1, <2>2, <3>1, Replaced DEF Goto, LinksInv, PoolTraced
  <2> QED
    BY <2>1, <2>2 DEF Fetch
<1> QED
  BY <1>2, <1>3 DEF LinksInv

LEMMA ParseLinkLinks ==
  ASSUME CallsInv, LinksInv, NEW th \in Threads, ParseLink(th)
  PROVE  LinksInv'
<1>1. /\ stack[th] # <<>> /\ Top(th).pc = "parse" /\ Top(th).hrefs # <<>>
      /\ UNCHANGED <<memory, disk, run, cancelled, fetched>>
  BY DEF ParseLink, At, Top
<1>2. StoreTraced' /\ MarksTraced' /\ StartTraced'
  BY <1>1, StoreUntouched DEF memory, disk, run, LinksInv, StartTraced
<1>3. /\ Top(th) \in TracedFrames /\ Top(th) \in OpenFrames /\ Top(th).task.depth < MaxDepth
      /\ Page(th) = Top(th).task.url
  BY <1>1, TopHasPassed
<1>4. PICK token \in Tokens : token = Token(th)
  <2>1. Top(th).hrefs \in Seq(URLs)
    BY <1>3, FrameTypes
  <2>2. Head(Top(th).hrefs) \in URLs
    BY <1>1, <2>1, HeadIsFirst
  <2>3. Token(th) \in Tokens
    BY <2>2 DEF Token, Tokens
  <2> QED
    BY <2>3
<1>5. token.link = Head(Top(th).hrefs) /\ (token.same => <<token.link, Top(th).task.url>> \in SameOrigin)
  BY <1>3, <1>4 DEF Token
<1>6. PICK f \in TracedFrames : Goto(th, f)
  <2> DEFINE rest == [Top(th) EXCEPT !.hrefs = Tail(Top(th).hrefs)]
  <2>1. \/ Goto(th, rest)
        \/ Goto(th, [rest EXCEPT !.links = Append(@, token)])
        \/ Goto(th, [rest EXCEPT !.deeper = Append(@, token)])
    BY <1>4 DEF ParseLink, Token
  <2>2. rest.links = Top(th).links /\ rest.deeper = Top(th).deeper
    BY <1>3, FrameTypes DEF Frames
  <2>3. /\ rest \in TracedFrames
        /\ [rest EXCEPT !.links = Append(Top(th).links, token)] \in TracedFrames
        /\ [rest EXCEPT !.deeper = Append(Top(th).deeper, token)] \in TracedFrames
    BY <1>1, <1>3, <1>5, TracedParse
  <2> QED
    BY <2>1, <2>2, <2>3
<1>7. PoolTraced'
  BY <1>1, <1>6, Replaced DEF Goto, LinksInv, PoolTraced
<1> QED
  BY <1>2, <1>7 DEF LinksInv

LEMMA BothListsOf ==
  ASSUME NEW k, NEW l \in Seq(Tokens), NEW d \in Seq(Tokens), AllLinksOf(l, k), AllLinksOf(d, k)
  PROVE  l \o d \in Seq(Tokens) /\ AllLinksOf(l \o d, k)
<1>1. /\ l \o d \in Seq(Tokens) /\ Len(l \o d) = Len(l) + Len(d) /\ Len(l) \in Nat /\ Len(d) \in Nat
      /\ \A i \in 1..(Len(l) + Len(d)) : (l \o d)[i] = IF i <= Len(l) THEN l[i] ELSE d[i - Len(l)]
  BY ConcatProperties
<1>2. ASSUME NEW i \in 1..Len(l \o d) PROVE LinkOf((l \o d)[i], k)
  <2>1. CASE i <= Len(l)
    BY <1>1, <2>1 DEF AllLinksOf
  <2>2. CASE ~(i <= Len(l))
    <3>1. i - Len(l) \in 1..Len(d)
      BY <1>1, <2>2
    <3> QED
      BY <1>1, <2>2, <3>1 DEF AllLinksOf
  <2> QED
    BY <2>1, <2>2
<1> QED
  BY <1>1, <1>2 DEF AllLinksOf

LEMMA EndParseLinks ==
  ASSUME CallsInv, LinksInv, NEW th \in Threads, EndParse(th)
  PROVE  LinksInv'
<1>1. /\ stack[th] # <<>> /\ Top(th).pc = "parse"
      /\ UNCHANGED <<visited, rlMap, disk, run, cancelled, fetched>>
  BY DEF EndParse, At, Top
<1>2. /\ Top(th) \in TracedFrames /\ Passed(Top(th).task.url) /\ Top(th).task.depth < MaxDepth
      /\ Key[Page(th)] \in Keys /\ Page(th) = Top(th).task.url
      /\ Top(th).links \in Seq(Tokens) /\ Top(th).deeper \in Seq(Tokens)
      /\ AllLinksOf(Top(th).links, Key[Page(th)]) /\ AllLinksOf(Top(th).deeper, Key[Page(th)])
  BY <1>1, TopHasPassed
<1>3. PICK l \in Seq(Tokens) : l = Top(th).links \o Top(th).deeper /\ AllLinksOf(l, Key[Page(th)])
  BY <1>2, BothListsOf
<1>4. /\ lru' = IF l = <<>> THEN lru ELSE AfterPut(lru, Key[Page(th)], l, CacheCapacity)
      /\ Goto(th, [Top(th) EXCEPT !.pc = "index", !.hrefs = <<>>, !.links = l, !.deeper = <<>>])
  BY <1>3 DEF EndParse, AfterParse
<1>5. StartTraced' /\ MarksTraced'
  BY <1>1 DEF disk, run, LinksInv, StartTraced, MarksTraced, DepthSound
<1>6. StoreTraced'
  <2>1. CASE l = <<>>
    BY <1>1, <1>4, <2>1 DEF LinksInv, StoreTraced, disk
  <2>2. CASE l # <<>>
    <3>1. /\ Entry(Key[Page(th)], l).key = Key[Page(th)] /\ Entry(Key[Page(th)], l).value = l
          /\ \A i \in 1..Len(lru') :
               lru'[i] = Entry(Key[Page(th)], l) \/ \E m \in 1..Len(lru) : lru'[i] = lru[m]
      BY <1>2, <1>4, <2>2, PutStored DEF Entry
    <3> QED
      BY <1>1, <1>3, <3>1 DEF LinksInv, StoreTraced, disk
  <2> QED
    BY <2>1, <2>2
<1>7. [Top(th) EXCEPT !.pc = "index", !.hrefs = <<>>, !.links = l, !.deeper = <<>>] \in TracedFrames
  BY <1>2, <1>3, TracedChanges
<1>8. PoolTraced'
  BY <1>1, <1>4, <1>7, Replaced DEF Goto, LinksInv, PoolTraced
<1> QED
  BY <1>5, <1>6, <1>8 DEF LinksInv

LEMMA IndexLinks ==
  ASSUME CallsInv, LinksInv, NEW th \in Threads, Index(th)
  PROVE  LinksInv'
<1>1. /\ stack[th] # <<>> /\ Top(th).pc = "index"
      /\ UNCHANGED <<memory, bank, saved, run, cancelled, fetched>>
      /\ Return(th) \/ \E pc \in {"save", "lost"} : Goto(th, [Top(th) EXCEPT !.pc = pc])
  BY DEF Index, At, Top
<1>2. StoreTraced' /\ MarksTraced' /\ StartTraced'
  BY <1>1, StoreUntouched DEF memory, run, LinksInv, StartTraced
<1>3. PoolTraced'
  <2>1. CASE Return(th)
    BY <1>1, <2>1, ReturnsTraced
  <2>2. ASSUME NEW pc \in {"save", "lost"}, Goto(th, [Top(th) EXCEPT !.pc = pc])
        PROVE  PoolTraced'
    <3>1. [Top(th) EXCEPT !.pc = pc] \in TracedFrames
      BY <1>1, TopHasPassed, TracedChanges
    <3> QED
      BY <1>1, <2>2, <3>1, Replaced DEF Goto, LinksInv, PoolTraced
  <2> QED
    BY <1>1, <2>1, <2>2
<1> QED
  BY <1>2, <1>3 DEF LinksInv

LEMMA SaveLinksLinks ==
  ASSUME CallsInv, LinksInv, NEW th \in Threads, SaveLinks(th)
  PROVE  LinksInv'
<1>1. /\ stack[th] # <<>> /\ Top(th).pc = "save"
      /\ UNCHANGED <<memory, docs, saved, run, cancelled, fetched>>
      /\ bank' = bank \/ bank' = [bank EXCEPT ![Key[Page(th)]] = Top(th).links]
      /\ Return(th) \/ Goto(th, Submitting(Top(th), Top(th).links))
  BY DEF SaveLinks, At, Top, Banked
<1>2. /\ Top(th) \in TracedFrames /\ Passed(Top(th).task.url) /\ Top(th).task.depth < MaxDepth
      /\ Key[Page(th)] \in Keys /\ Page(th) = Top(th).task.url
      /\ Top(th).links \in Seq(Tokens) /\ AllLinksOf(Top(th).links, Key[Page(th)])
  BY <1>1, TopHasPassed
<1>3. StartTraced' /\ MarksTraced'
  BY <1>1 DEF memory, run, LinksInv, StartTraced, MarksTraced, DepthSound
<1>4. StoreTraced'
  <2>1. \A k \in Keys : AllLinksOf(bank'[k], k)
    BY <1>1, <1>2, CallsParts DEF LinksInv, StoreTraced, DiskTypes
  <2> QED
    BY <1>1, <2>1 DEF LinksInv, StoreTraced, memory
<1>5. PoolTraced'
  <2>1. CASE Return(th)
    BY <1>1, <2>1, ReturnsTraced
  <2>2. CASE Goto(th, Submitting(Top(th), Top(th).links))
    <3>1. Submitting(Top(th), Top(th).links) \in TracedFrames
      BY <1>2, TracedChanges
    <3> QED
      BY <1>1, <2>2, <3>1, Replaced DEF Goto, LinksInv, PoolTraced
  <2> QED
    BY <1>1, <2>1, <2>2
<1> QED
  BY <1>3, <1>4, <1>5 DEF LinksInv

LEMMA SubmitLinkLinks ==
  ASSUME CallsInv, LinksInv, NEW th \in Threads, SubmitLink(th)
  PROVE  LinksInv'
<1>1. /\ stack[th] # <<>> /\ Top(th).pc = "submit"
      /\ UNCHANGED <<memory, disk, run, cancelled, fetched>>
  BY DEF SubmitLink, At, Top
<1>2. StoreTraced' /\ MarksTraced' /\ StartTraced'
  BY <1>1, StoreUntouched DEF memory, disk, run, LinksInv, StartTraced
<1>3. PICK i \in 1..Len(Top(th).links), after \in OpenFrames, t \in Tasks :
        /\ FollowedFirst(Top(th).links, i)
        /\ after = After(Top(th), i) /\ after.pc = "submit"
        /\ t = TaskFor(Top(th), Top(th).links[i])
        /\ \/ /\ Len(queue) < QueueCapacity
              /\ queue' = Append(queue, t)
              /\ stack' = [stack EXCEPT ![th] = <<after>> \o Tail(stack[th])]
           \/ /\ queue' = queue
              /\ stack' = [stack EXCEPT ![th] = <<Call(t)>> \o (<<after>> \o Tail(stack[th]))]
  BY SubmitLinkStep
<1>4. t \in TracedTasks /\ after \in TracedFrames
  <2>1. Top(th) \in TracedFrames /\ Followed(Top(th).links[i])
    BY <1>1, <1>3, TopHasPassed DEF FollowedFirst
  <2> QED
    BY <1>1, <1>3, <2>1, SubmittedTraced
<1>5. queue \in Seq(TracedTasks) /\ stack \in [Threads -> Seq(TracedFrames)]
  BY DEF LinksInv, PoolTraced
<1>6. queue' \in Seq(TracedTasks)
  <2>1. Append(queue, t) \in Seq(TracedTasks)
    BY <1>4, <1>5
  <2>2. queue' = queue \/ queue' = Append(queue, t)
    BY <1>3
  <2> QED
    BY <1>5, <2>1, <2>2
<1>7. stack' \in [Threads -> Seq(TracedFrames)]
  <2>1. CASE stack' = [stack EXCEPT ![th] = <<after>> \o Tail(stack[th])]
    BY <1>1, <1>4, <1>5, <2>1, Replaced
  <2>2. CASE stack' = [stack EXCEPT ![th] = <<Call(t)>> \o (<<after>> \o Tail(stack[th]))]
    <3>1. PICK calls : calls = <<after>> \o Tail(stack[th])
      OBVIOUS
    <3>2. calls \in Seq(TracedFrames)
      <4>1. stack[th] \in Seq(TracedFrames)
        BY <1>5
      <4>2. Tail(stack[th]) \in Seq(TracedFrames)
        BY <1>1, <4>1, HeadIsFirst
      <4> QED
        BY <1>4, <3>1, <4>2, Front
    <3>3. Call(t) \in TracedFrames
      BY <1>4, CallIsTraced
    <3>4. <<Call(t)>> \o calls \in Seq(TracedFrames)
      BY <3>2, <3>3, Front
    <3> QED
      BY <1>5, <2>2, <3>1, <3>4
  <2> QED
    BY <1>3, <2>1, <2>2
<1> QED
  BY <1>2, <1>6, <1>7 DEF LinksInv, PoolTraced

LEMMA ReturnLinks ==
  ASSUME CallsInv, LinksInv, NEW th \in Threads, Abandon(th) \/ SubmittedAll(th)
  PROVE  LinksInv'
<1>1. /\ stack[th] # <<>> /\ UNCHANGED <<memory, disk, run, cancelled, fetched>> /\ Return(th)
  BY DEF Abandon, SubmittedAll, At
<1>2. StoreTraced' /\ MarksTraced' /\ StartTraced'
  BY <1>1, StoreUntouched DEF memory, disk, run, LinksInv, StartTraced
<1> QED
  BY <1>1, <1>2, ReturnsTraced DEF LinksInv

LEMMA ScrapeStepLinks ==
  ASSUME CallsInv, LinksInv, NEW th \in Threads, ScrapeStep(th)
  PROVE  LinksInv'
BY EnterLinks, FetchRulesLinks, VisitLinks, LookupCacheLinks, LookupBankLinks, FetchLinks,
   ParseLinkLinks, EndParseLinks, IndexLinks, SaveLinksLinks, SubmitLinkLinks, ReturnLinks
   DEF ScrapeStep

LEMMA TakeTaskLinks ==
  ASSUME CallsInv, LinksInv, NEW w \in Workers, TakeTask(w)
  PROVE  LinksInv'
<1>1. UNCHANGED <<memory, disk, run, cancelled, fetched>> /\ queue # <<>>
  BY DEF TakeTask, MayTake
<1>2. StoreTraced' /\ MarksTraced' /\ StartTraced'
  BY <1>1, StoreUntouched DEF memory, disk, run, LinksInv, StartTraced
<1>3. PICK t \in Tasks : /\ \E i \in 1..Len(queue) : t = queue[i]
                         /\ stack' = [stack EXCEPT ![w] = <<Call(t)>>]
  BY Taken
<1>4. /\ queue \in Seq(TracedTasks) /\ stack \in [Threads -> Seq(TracedFrames)]
      /\ queue' = Tail(queue)
  BY Taken DEF LinksInv, PoolTraced
<1>5. queue' \in Seq(TracedTasks)
  BY <1>1, <1>4, HeadIsFirst
<1>6. stack' \in [Threads -> Seq(TracedFrames)]
  <2>1. t \in TracedTasks
    BY <1>3, <1>4, ElementOfSeq
  <2>2. <<Call(t)>> \in Seq(TracedFrames)
    BY <2>1, CallIsTraced
  <2> QED
    BY <1>3, <1>4, <2>2
<1> QED
  BY <1>2, <1>5, <1>6 DEF LinksInv, PoolTraced

LEMMA SubmitStartLinks ==
  ASSUME CallsInv, LinksInv, SubmitStart
  PROVE  LinksInv'
<1>1. /\ UNCHANGED <<memory, disk, mpc, session, cancelled, fetched>> /\ todo' = Tail(todo)
  BY DEF SubmitStart
<1>2. StoreTraced' /\ MarksTraced'
  BY <1>1, StoreUntouched DEF memory, disk
<1>3. /\ todo \in Seq(URLs) /\ todo # <<>>
      /\ \A i \in 1..Len(todo) : Key[todo[i]] \in StartKeys
  BY SubmitStartStep, CallsParts DEF RunTypes, LinksInv, StartTraced
<1>4. /\ Head(todo) = todo[1] /\ 1 \in 1..Len(todo) /\ Len(todo) \in Nat
      /\ Len(Tail(todo)) = Len(todo) - 1
      /\ \A i \in 1..Len(Tail(todo)) : Tail(todo)[i] = todo[i + 1]
  BY <1>3, HeadIsFirst
<1>5. StartTraced'
  BY <1>1, <1>3, <1>4 DEF StartTraced
<1>6. PICK t \in Tasks :
        /\ t.url = Head(todo) /\ t.depth = 0
        /\ \/ /\ queue' = Append(queue, t)
              /\ stack' = [stack EXCEPT ![Main] = <<>>]
           \/ /\ queue' = queue
              /\ stack' = [stack EXCEPT ![Main] = <<Call(t)>> \o <<>>]
  BY SubmitStartStep
<1>7. t \in TracedTasks
  BY <1>3, <1>4, <1>6, LevelValues DEF TracedTasks
<1>8. queue \in Seq(TracedTasks) /\ stack \in [Threads -> Seq(TracedFrames)]
  BY DEF LinksInv, PoolTraced
<1>9. queue' \in Seq(TracedTasks)
  <2>1. Append(queue, t) \in Seq(TracedTasks)
    BY <1>7, <1>8
  <2>2. queue' = queue \/ queue' = Append(queue, t)
    BY <1>6
  <2> QED
    BY <1>8, <2>1, <2>2
<1>10. stack' \in [Threads -> Seq(TracedFrames)]
  <2>1. <<>> \in Seq(TracedFrames)
    OBVIOUS
  <2>2. <<Call(t)>> \o <<>> \in Seq(TracedFrames)
    BY <1>7, <2>1, CallIsTraced, Front
  <2> QED
    BY <1>6, <1>8, <2>1, <2>2
<1> QED
  BY <1>2, <1>5, <1>9, <1>10 DEF LinksInv, PoolTraced

LEMMA SaveVisitedLinks ==
  ASSUME CallsInv, LinksInv, SaveVisited
  PROVE  LinksInv'
<1>1. /\ UNCHANGED <<memory, bank, docs, pool, todo, session, cancelled, fetched>>
      /\ saved' = saved \/ \E k \in Keys : saved' = [saved EXCEPT ![k] = visited[k]]
  BY DEF SaveVisited, Unsaved
<1>2. PoolTraced' /\ StartTraced' /\ StoreTraced'
  BY <1>1 DEF LinksInv, PoolTraced, StartTraced, StoreTraced, memory, pool
<1>3. \A k \in Keys : saved'[k] # None => k \in Level[saved'[k]]
  BY <1>1, CallsParts DEF LinksInv, MarksTraced, DepthSound, DiskTypes
<1>4. MarksTraced'
  BY <1>1, <1>3 DEF LinksInv, MarksTraced, DepthSound, memory
<1> QED
  BY <1>2, <1>4 DEF LinksInv

LEMMA RestartLinks ==
  ASSUME CallsInv, LinksInv, Restart
  PROVE  LinksInv'
<1>1. /\ visited' = saved /\ lru' = <<>>
      /\ queue' = <<>> /\ stack' = [th \in Threads |-> <<>>] /\ todo' = StartURLs
      /\ UNCHANGED disk
  BY DEF Restart, Loaded
<1>2. PoolTraced'
  BY <1>1 DEF PoolTraced
<1>3. StartTraced'
  BY <1>1 DEF StartTraced, StartKeys
<1>4. StoreTraced' /\ MarksTraced'
  BY <1>1 DEF LinksInv, StoreTraced, MarksTraced, DepthSound, disk
<1> QED
  BY <1>2, <1>3, <1>4 DEF LinksInv

\* A step that leaves the calls, the lists and the marks alone.
LEMMA LinksUntouched ==
  ASSUME LinksInv, UNCHANGED <<stack, todo, visited, lru, bank, saved>>, queue' \in Seq(TracedTasks)
  PROVE  LinksInv'
<1>1. PoolTraced' /\ StartTraced'
  BY DEF LinksInv, PoolTraced, StartTraced
<1> QED
  BY <1>1, StoreUntouched DEF LinksInv

LEMMA InitLinks == Init => LinksInv
<1> SUFFICES ASSUME Init PROVE LinksInv
  OBVIOUS
<1>1. PoolTraced
  BY DEF Init, PoolTraced
<1>2. StartTraced
  BY DEF Init, StartTraced, StartKeys
<1>3. StoreTraced /\ MarksTraced
  BY DEF Init, StoreTraced, MarksTraced, DepthSound, AllLinksOf
<1> QED
  BY <1>1, <1>2, <1>3 DEF LinksInv

LEMMA NextLinks == CallsInv /\ LinksInv /\ [Next]_vars => LinksInv'
<1> SUFFICES ASSUME CallsInv, LinksInv, [Next]_vars PROVE LinksInv'
  OBVIOUS
<1>1. ASSUME NEW th \in Threads, ScrapeStep(th) PROVE LinksInv'
  BY <1>1, ScrapeStepLinks
<1>2. ASSUME NEW w \in Workers, TakeTask(w) PROVE LinksInv'
  BY <1>2, TakeTaskLinks
<1>3. CASE SubmitStart \/ SaveVisited \/ Restart
  BY <1>3, SubmitStartLinks, SaveVisitedLinks, RestartLinks
<1>4. queue \in Seq(TracedTasks)
  BY DEF LinksInv, PoolTraced
<1>5. CASE DropTask
  <2>1. queue # <<>> /\ queue' = Tail(queue) /\ UNCHANGED <<stack, todo, visited, lru, bank, saved>>
    BY <1>5 DEF DropTask, memory, disk, run
  <2> QED
    BY <1>4, <2>1, HeadIsFirst, LinksUntouched
<1>6. CASE Wait \/ Cancel \/ Finished \/ UNCHANGED vars
  <2>1. UNCHANGED <<queue, stack, todo, visited, lru, bank, saved>>
    BY <1>6 DEF Wait, Cancel, Finished, vars, memory, disk, pool, run
  <2> QED
    BY <1>4, <2>1, LinksUntouched
<1> QED
  BY <1>1, <1>2, <1>3, <1>5, <1>6 DEF Next, RunStep

\* Every task, list and mark comes from links of pages.
THEOREM LinksInvariant == Spec => []LinksInv
BY CallsInvariant, InitLinks, NextLinks, PTL DEF Spec

\* The depth of a mark is the length of a path of links (DepthSound): visited is set by
\* Visit and restored from saved, and every depth comes from a task.
THEOREM DepthsAreSound == Spec => []DepthSound
<1>1. LinksInv => DepthSound
  BY DEF LinksInv, MarksTraced
<1> QED
  BY <1>1, LinksInvariant, PTL
-----------------------------------------------------------------------------
(* What happens to one page *)

PcOf(th) == IF stack[th] = <<>> THEN "none" ELSE Top(th).pc

KeyOf(th) == Key[Page(th)]

\* The call is over, or waits for a vector that does not come; the one under it submits,
\* if there is one.
Over(th) == PcOf(th) \in {"none", "submit", "lost"}

\* The call visits its page for the first time.
Busy(th) == PcOf(th) \in {"fetch", "parse", "index", "save"}
-----------------------------------------------------------------------------
(* Where a step takes the innermost call of its thread *)

LEMMA ReplacedHead ==
  ASSUME NEW S, NEW st \in [Threads -> Seq(S)], NEW th \in Threads, st[th] # <<>>, NEW f,
         NEW new, new = [st EXCEPT ![th] = <<f>> \o Tail(@)]
  PROVE  /\ new[th] # <<>> /\ Head(new[th]) = f
         /\ \A o \in Threads \ {th} : new[o] = st[o]
<1>1. S \subseteq S \cup {f} /\ f \in S \cup {f}
  OBVIOUS
<1>2. st \in [Threads -> Seq(S \cup {f})]
  BY <1>1, StackMonotonic
<1> DEFINE R == S \cup {f}
<1> HIDE DEF R
<1>3. st \in [Threads -> Seq(R)] /\ f \in R
  BY <1>1, <1>2 DEF R
<1> QED
  BY <1>3, Replaced

LEMMA GoneHead ==
  ASSUME CallsInv, NEW th \in Threads, stack[th] # <<>>, Return(th)
  PROVE  /\ Over(th)' /\ PcOf(th)' \in {"none", "submit"}
         /\ \A o \in Threads \ {th} : stack'[o] = stack[o]
BY Returns DEF Over, PcOf, Top

LEMMA GotoHead ==
  ASSUME CallsInv, NEW th \in Threads, stack[th] # <<>>, NEW f, Goto(th, f)
  PROVE  /\ Top(th)' = f /\ PcOf(th)' = f.pc /\ Page(th)' = f.task.url
         /\ \A o \in Threads \ {th} : stack'[o] = stack[o]
<1>1. stack \in [Threads -> Seq(OpenFrames)] /\ stack' = [stack EXCEPT ![th] = <<f>> \o Tail(@)]
  BY CallsParts DEF Goto
<1> QED
  BY <1>1, ReplacedHead DEF PcOf, Top, Page

\* A call goes on with the same page.
LEMMA GoesOn ==
  ASSUME CallsInv, NEW th \in Threads, NEW from, NEW to, At(th, from),
         Goto(th, [Top(th) EXCEPT !.pc = to])
  PROVE  /\ PcOf(th)' = to /\ Page(th)' = Page(th)
         /\ \A o \in Threads \ {th} : stack'[o] = stack[o]
<1>1. stack[th] # <<>>
  BY DEF At
<1>2. PICK f : f = [Top(th) EXCEPT !.pc = to]
  OBVIOUS
<1>3. f.pc = to /\ f.task = Top(th).task
  BY <1>1, <1>2, TopIsOpen DEF OpenFrames, Frames
<1> QED
  BY <1>1, <1>2, <1>3, GotoHead DEF Page

\* Where the call is before the step.
LEMMA StandsAt ==
  ASSUME CallsInv, NEW th \in Threads, NEW from, At(th, from)
  PROVE  /\ stack[th] # <<>> /\ PcOf(th) = from /\ Top(th).pc = from
         /\ Top(th) \in OpenFrames /\ Page(th) \in URLs /\ KeyOf(th) \in Keys
         /\ mpc = "submit"
BY TopIsOpen, FrameTypes DEF At, PcOf, Top, Page, KeyOf

LEMMA EnterHead ==
  ASSUME CallsInv, NEW th \in Threads, Enter(th)
  PROVE  /\ PcOf(th) = "enter"
         /\ \A o \in Threads \ {th} : stack'[o] = stack[o]
         /\ Over(th)' \/ (PcOf(th)' = "rules" /\ Page(th)' = Page(th))
<1>1. At(th, "enter")
  BY DEF Enter
<1>2. Return(th) \/ Goto(th, [Top(th) EXCEPT !.pc = "rules"])
  BY DEF Enter
<1> QED
  BY <1>1, <1>2, StandsAt, GoneHead, GoesOn

LEMMA FetchRulesHead ==
  ASSUME CallsInv, NEW th \in Threads, FetchRules(th)
  PROVE  /\ PcOf(th) = "rules"
         /\ \A o \in Threads \ {th} : stack'[o] = stack[o]
         /\ Over(th)' \/ (PcOf(th)' = "visit" /\ Page(th)' = Page(th))
<1>1. At(th, "rules")
  BY DEF FetchRules
<1>2. Return(th) \/ Goto(th, [Top(th) EXCEPT !.pc = "visit"])
  BY DEF FetchRules
<1> QED
  BY <1>1, <1>2, StandsAt, GoneHead, GoesOn

LEMMA VisitHead ==
  ASSUME CallsInv, NEW th \in Threads, Visit(th)
  PROVE  /\ PcOf(th) = "visit"
         /\ \A o \in Threads \ {th} : stack'[o] = stack[o]
         /\ \/ Over(th)' /\ visited[KeyOf(th)] # None
            \/ PcOf(th)' = "lookup" /\ visited[KeyOf(th)] # None
            \/ PcOf(th)' = "fetch" /\ Page(th)' = Page(th) /\ visited[KeyOf(th)] = None
<1>1. At(th, "visit")
  BY DEF Visit
<1>2. \/ Return(th) /\ visited[KeyOf(th)] # None
      \/ Goto(th, [Top(th) EXCEPT !.pc = "lookup"]) /\ visited[KeyOf(th)] # None
      \/ Goto(th, [Top(th) EXCEPT !.pc = "fetch"]) /\ visited[KeyOf(th)] = None
  BY DEF Visit, Fresh, KeyOf
<1> QED
  BY <1>1, <1>2, StandsAt, GoneHead, GoesOn, ZenonT(60)

\* A call that has its links submits them.
LEMMA SubmitsHead ==
  ASSUME CallsInv, NEW th \in Threads, stack[th] # <<>>, NEW links, Goto(th, Submitting(Top(th), links))
  PROVE  Over(th)' /\ \A o \in Threads \ {th} : stack'[o] = stack[o]
<1>1. PICK f : f = Submitting(Top(th), links)
  OBVIOUS
<1>2. f.pc = "submit"
  BY <1>1, TopIsOpen DEF OpenFrames, Frames, Submitting
<1> QED
  BY <1>1, <1>2, GotoHead DEF Over

LEMMA LookupCacheHead ==
  ASSUME CallsInv, NEW th \in Threads, LookupCache(th)
  PROVE  /\ PcOf(th) = "lookup"
         /\ \A o \in Threads \ {th} : stack'[o] = stack[o]
         /\ Over(th)' \/ PcOf(th)' = "bank"
<1>1. At(th, "lookup")
  BY DEF LookupCache
<1>2. \/ Goto(th, Submitting(Top(th), Lookup(lru, Key[Page(th)])))
      \/ Goto(th, [Top(th) EXCEPT !.pc = "bank"])
  BY DEF LookupCache
<1> QED
  BY <1>1, <1>2, StandsAt, GoesOn, SubmitsHead

LEMMA LookupBankHead ==
  ASSUME CallsInv, NEW th \in Threads, LookupBank(th)
  PROVE  /\ PcOf(th) = "bank"
         /\ \A o \in Threads \ {th} : stack'[o] = stack[o]
         /\ Over(th)'
<1>1. At(th, "bank")
  BY DEF LookupBank
<1>2. Return(th) \/ \E links \in SavedLinks(Key[Page(th)]) : Goto(th, Submitting(Top(th), links))
  BY DEF LookupBank
<1> QED
  BY <1>1, <1>2, StandsAt, GoneHead, SubmitsHead

LEMMA FetchHead ==
  ASSUME CallsInv, NEW th \in Threads, Fetch(th)
  PROVE  /\ PcOf(th) = "fetch"
         /\ \A o \in Threads \ {th} : stack'[o] = stack[o]
         /\ \/ Over(th)' /\ May("fetch")
            \/ PcOf(th)' = "parse" /\ Page(th)' = Page(th)
<1>1. At(th, "fetch")
  BY DEF Fetch
<1>2. CASE Return(th) /\ May("fetch")
  BY <1>1, <1>2, StandsAt, GoneHead
<1>3. CASE Goto(th, [Top(th) EXCEPT !.pc = "parse", !.hrefs = Links[Page(th)]])
  <2>1. PICK f : f = [Top(th) EXCEPT !.pc = "parse", !.hrefs = Links[Page(th)]]
    OBVIOUS
  <2>2. Top(th) \in OpenFrames /\ PcOf(th) = "fetch" /\ stack[th] # <<>>
    BY <1>1, StandsAt
  <2>3. f \in [task : {Top(th).task}, pc : {"parse"}, hrefs : {Links[Page(th)]},
               links : {Top(th).links}, deeper : {Top(th).deeper}]
    BY <2>1, <2>2 DEF OpenFrames, Frames
  <2>4. f.pc = "parse" /\ f.task = Top(th).task
    BY <2>3
  <2>5. Goto(th, f)
    BY <1>3, <2>1
  <2>6. /\ \A o \in Threads \ {th} : stack'[o] = stack[o]
        /\ PcOf(th)' = f.pc /\ Page(th)' = f.task.url
    BY <2>2, <2>5, GotoHead
  <2> QED
    BY <2>2, <2>4, <2>6 DEF Page
<1> QED
  BY <1>2, <1>3 DEF Fetch

LEMMA ParseLinkHead ==
  ASSUME CallsInv, NEW th \in Threads, ParseLink(th)
  PROVE  /\ PcOf(th) = "parse"
         /\ \A o \in Threads \ {th} : stack'[o] = stack[o]
         /\ PcOf(th)' = "parse" /\ Page(th)' = Page(th)
<1>1. At(th, "parse")
  BY DEF ParseLink
<1>2. Top(th) \in OpenFrames /\ Top(th).pc = "parse" /\ PcOf(th) = "parse" /\ stack[th] # <<>>
  BY <1>1, StandsAt
<1> DEFINE rest == [Top(th) EXCEPT !.hrefs = Tail(@)]
<1>3. rest \in [task : Tasks, pc : {"parse"}, hrefs : {Tail(Top(th).hrefs)},
                links : {Top(th).links}, deeper : {Top(th).deeper}]
      /\ rest.task = Top(th).task
  BY <1>2 DEF OpenFrames, Frames
<1>4. PICK f : Goto(th, f) /\ f.pc = "parse" /\ f.task = Top(th).task
  <2>1. \/ Goto(th, rest)
        \/ Goto(th, [rest EXCEPT !.links = Append(@, Token(th))])
        \/ Goto(th, [rest EXCEPT !.deeper = Append(@, Token(th))])
    BY DEF ParseLink, Token
  <2>2. \A list : [rest EXCEPT !.links = list].pc = "parse" /\ [rest EXCEPT !.links = list].task = Top(th).task
    BY <1>3
  <2>3. \A list : [rest EXCEPT !.deeper = list].pc = "parse" /\ [rest EXCEPT !.deeper = list].task = Top(th).task
    BY <1>3
  <2>4. rest.pc = "parse"
    BY <1>3
  <2> HIDE DEF rest
  <2> QED
    BY <1>3, <2>1, <2>2, <2>3, <2>4
<1> QED
  BY <1>2, <1>4, GotoHead DEF Page

LEMMA EndParseHead ==
  ASSUME CallsInv, NEW th \in Threads, EndParse(th)
  PROVE  /\ PcOf(th) = "parse"
         /\ \A o \in Threads \ {th} : stack'[o] = stack[o]
         /\ PcOf(th)' = "index" /\ Page(th)' = Page(th)
         /\ Top(th)'.links = Top(th).links \o Top(th).deeper
<1> DEFINE links == Top(th).links \o Top(th).deeper
<1>1. At(th, "parse")
  BY DEF EndParse
<1>2. PICK f : f = [Top(th) EXCEPT !.pc = "index", !.hrefs = <<>>, !.links = links, !.deeper = <<>>]
  OBVIOUS
<1>3. Goto(th, f)
  BY <1>2 DEF EndParse, AfterParse
<1>4. f.pc = "index" /\ f.task = Top(th).task /\ f.links = links
  BY <1>1, <1>2, StandsAt DEF OpenFrames, Frames
<1> QED
  BY <1>1, <1>3, <1>4, StandsAt, GotoHead DEF Page

LEMMA IndexHead ==
  ASSUME CallsInv, NEW th \in Threads, Index(th)
  PROVE  /\ PcOf(th) = "index"
         /\ \A o \in Threads \ {th} : stack'[o] = stack[o]
         /\ docs \subseteq docs'
         /\ \/ Over(th)' /\ (May("index") \/ May("vector") \/ KeyOf(th) \in docs')
            \/ /\ PcOf(th)' = "save" /\ Page(th)' = Page(th) /\ KeyOf(th) \in docs'
               /\ Top(th)'.links = Top(th).links
<1>1. At(th, "index")
  BY DEF Index
<1>2. docs \subseteq docs'
  BY DEF Index
<1>3. CASE Return(th) /\ (May("index") \/ KeyOf(th) \in docs')
  BY <1>1, <1>2, <1>3, StandsAt, GoneHead
<1>4. CASE Goto(th, [Top(th) EXCEPT !.pc = "save"]) /\ KeyOf(th) \in docs'
  <2>1. PICK f : f = [Top(th) EXCEPT !.pc = "save"]
    OBVIOUS
  <2>2. f.pc = "save" /\ f.task = Top(th).task /\ f.links = Top(th).links
    BY <1>1, <2>1, StandsAt DEF OpenFrames, Frames
  <2> QED
    BY <1>1, <1>2, <1>4, <2>1, <2>2, StandsAt, GotoHead DEF Page
<1>5. CASE Goto(th, [Top(th) EXCEPT !.pc = "lost"]) /\ "vector" \in Faults
  BY <1>1, <1>2, <1>5, StandsAt, GoesOn DEF Over, May
<1> QED
  BY <1>3, <1>4, <1>5 DEF Index, KeyOf

LEMMA AbandonHead ==
  ASSUME CallsInv, NEW th \in Threads, Abandon(th)
  PROVE  /\ PcOf(th) = "lost"
         /\ \A o \in Threads \ {th} : stack'[o] = stack[o]
         /\ Over(th)'
BY StandsAt, GoneHead DEF Abandon

LEMMA SaveLinksHead ==
  ASSUME CallsInv, NEW th \in Threads, SaveLinks(th)
  PROVE  /\ PcOf(th) = "save"
         /\ \A o \in Threads \ {th} : stack'[o] = stack[o]
         /\ Over(th)'
<1>1. At(th, "save")
  BY DEF SaveLinks
<1>2. Return(th) \/ Goto(th, Submitting(Top(th), Top(th).links))
  BY DEF SaveLinks
<1> QED
  BY <1>1, <1>2, StandsAt, GoneHead, SubmitsHead

\* A step that only hands tasks over leaves thread th without a page it visits.
HandsOver(th) ==
  /\ th \in Threads
  /\ PcOf(th) \in {"none", "submit"} /\ PcOf(th)' \in {"none", "submit", "enter"}
  /\ \A o \in Threads \ {th} : stack'[o] = stack[o]

LEMMA SubmitLinkHead ==
  ASSUME CallsInv, NEW th \in Threads, SubmitLink(th)
  PROVE  HandsOver(th)
<1>1. stack[th] # <<>> /\ PcOf(th) = "submit"
  BY StandsAt DEF SubmitLink
<1>2. PICK i \in 1..Len(Top(th).links), after \in OpenFrames, t \in Tasks :
        /\ FollowedFirst(Top(th).links, i)
        /\ after = After(Top(th), i) /\ after.pc = "submit"
        /\ t = TaskFor(Top(th), Top(th).links[i])
        /\ \/ /\ Len(queue) < QueueCapacity
              /\ queue' = Append(queue, t)
              /\ stack' = [stack EXCEPT ![th] = <<after>> \o Tail(stack[th])]
           \/ /\ queue' = queue
              /\ stack' = [stack EXCEPT ![th] = <<Call(t)>> \o (<<after>> \o Tail(stack[th]))]
  BY SubmitLinkStep
<1>3. stack \in [Threads -> Seq(OpenFrames)] /\ Suspended(stack)
  BY CallsParts
<1>4. CASE stack' = [stack EXCEPT ![th] = <<after>> \o Tail(stack[th])]
  BY <1>1, <1>2, <1>3, <1>4, ReplacedHead DEF HandsOver, PcOf, Top
<1>5. CASE stack' = [stack EXCEPT ![th] = <<Call(t)>> \o (<<after>> \o Tail(stack[th]))]
  <2>1. PICK calls : calls = <<after>> \o Tail(stack[th])
    OBVIOUS
  <2>2. calls \in Seq(OpenFrames) /\ \A j \in 1..Len(calls) : calls[j].pc = "submit"
    BY <1>1, <1>2, <1>3, <2>1, CallsUnder DEF Suspended
  <2>3. stack' = [stack EXCEPT ![th] = <<Call(t)>> \o calls] /\ Call(t) \in OpenFrames /\ Call(t).pc = "enter"
    BY <1>5, <2>1, CallIsOpen
  <2> QED
    BY <1>1, <1>3, <2>2, <2>3, Pushed DEF HandsOver, PcOf, Top
<1> QED
  BY <1>2, <1>4, <1>5

LEMMA SubmittedAllHead ==
  ASSUME CallsInv, NEW th \in Threads, SubmittedAll(th)
  PROVE  HandsOver(th)
<1>1. At(th, "submit") /\ Return(th)
  BY DEF SubmittedAll
<1> QED
  BY <1>1, StandsAt, GoneHead DEF HandsOver, Over

\* A call is put on an empty stack, or the stack stays empty.
LEMMA StartsHead ==
  ASSUME CallsInv, NEW th \in Threads, stack[th] = <<>>, NEW t \in Tasks,
         stack' = [stack EXCEPT ![th] = <<Call(t)>>] \/ stack' = [stack EXCEPT ![th] = <<>>]
  PROVE  HandsOver(th)
<1>1. stack \in [Threads -> Seq(OpenFrames)]
  BY CallsParts
<1>2. Call(t).pc = "enter" /\ <<Call(t)>> # <<>> /\ Head(<<Call(t)>>) = Call(t)
  BY CallIsOpen
<1> QED
  BY <1>1, <1>2 DEF HandsOver, PcOf, Top

LEMMA TakeTaskHead ==
  ASSUME CallsInv, NEW w \in Workers, TakeTask(w)
  PROVE  HandsOver(w)
BY Taken, StartsHead

LEMMA SubmitStartHead ==
  ASSUME CallsInv, SubmitStart
  PROVE  HandsOver(Main)
<1>1. PICK t \in Tasks :
        /\ t.url = Head(todo) /\ t.depth = 0
        /\ \/ /\ Len(queue) < QueueCapacity
              /\ queue' = Append(queue, t)
              /\ stack' = [stack EXCEPT ![Main] = <<>>]
           \/ /\ queue' = queue
              /\ stack' = [stack EXCEPT ![Main] = <<Call(t)>> \o <<>>]
  BY SubmitStartStep
<1>2. <<Call(t)>> \o <<>> = <<Call(t)>>
  BY CallIsOpen, ConcatEmptySeq
<1> QED
  BY <1>1, <1>2, SubmitStartStep, StartsHead
-----------------------------------------------------------------------------
(* What a step does to the pages that are visited *)

Others(th) == th \in Threads /\ \A o \in Threads \ {th} : stack'[o] = stack[o]

LEMMA OthersKeep ==
  ASSUME NEW th, Others(th), NEW o \in Threads, o # th
  PROVE  /\ PcOf(o)' = PcOf(o) /\ Page(o)' = Page(o) /\ KeyOf(o)' = KeyOf(o) /\ Busy(o)' = Busy(o)
         /\ Top(o)' = Top(o)
<1>1. stack'[o] = stack[o]
  BY DEF Others
<1> QED
  BY <1>1 DEF PcOf, Page, Top, KeyOf, Busy

\* No call begins to visit a page.
NoVisit(th) ==
  /\ Others(th) /\ visited' = visited
  /\ PcOf(th)' # "fetch"
  /\ Busy(th)' => Busy(th) /\ Page(th)' = Page(th) /\ KeyOf(th)' = KeyOf(th)

FreshVisit(th) ==
  /\ Others(th)
  /\ PcOf(th) = "visit" /\ PcOf(th)' = "fetch" /\ Page(th)' = Page(th) /\ KeyOf(th)' = KeyOf(th)
  /\ KeyOf(th) \in Keys /\ visited[KeyOf(th)] = None
  /\ \E d \in Nat : visited' = [visited EXCEPT ![KeyOf(th)] = d]
  /\ UNCHANGED <<lru, rlMap, disk, run, cancelled, fetched>>

Request(th) ==
  /\ PcOf(th) = "fetch" /\ KeyOf(th) \in Keys
  /\ fetched' = [fetched EXCEPT ![KeyOf(th)] = @ + 1]

LEMMA VisitEffect ==
  ASSUME CallsInv, NEW th \in Threads, Visit(th)
  PROVE  (NoVisit(th) /\ UNCHANGED fetched) \/ FreshVisit(th)
<1>1. Others(th) /\ UNCHANGED <<lru, rlMap, disk, run, cancelled, fetched>>
  BY VisitHead DEF Others, Visit
<1>2. /\ KeyOf(th) \in Keys /\ Top(th).task.depth \in Nat
      /\ visited' = [visited EXCEPT ![KeyOf(th)] = LoadOrStore(KeyOf(th), Top(th).task.depth)]
  BY StandsAt, FrameTypes, CrawlAssumption DEF Visit, KeyOf
<1>3. visited \in [Keys -> (0..(MaxDepth - 1)) \cup {None}]
  BY CallsParts DEF MemoryTypes
<1>4. CASE visited[KeyOf(th)] # None
  <2>1. visited' = visited
    BY <1>2, <1>3, <1>4 DEF LoadOrStore
  <2> QED
    BY <1>1, <1>4, <2>1, VisitHead DEF NoVisit, Busy, Over
<1>5. CASE visited[KeyOf(th)] = None
  BY <1>1, <1>2, <1>5, VisitHead DEF FreshVisit, LoadOrStore, KeyOf
<1> QED
  BY <1>4, <1>5

LEMMA FetchEffect ==
  ASSUME CallsInv, NEW th \in Threads, Fetch(th)
  PROVE  NoVisit(th) /\ Request(th)
<1>1. UNCHANGED <<memory, disk, run, cancelled>>
  BY DEF Fetch
<1>2. NoVisit(th)
  BY <1>1, FetchHead DEF NoVisit, Others, Busy, Over, KeyOf, memory
<1>3. Request(th)
  BY StandsAt, FetchHead DEF Fetch, Request, KeyOf
<1> QED
  BY <1>2, <1>3

\* A step that leaves the fetching to others.
LEMMA QuietEffect ==
  ASSUME CallsInv, NEW th \in Threads,
         \/ Enter(th) \/ FetchRules(th) \/ LookupCache(th) \/ LookupBank(th)
         \/ ParseLink(th) \/ EndParse(th) \/ Index(th) \/ Abandon(th) \/ SaveLinks(th)
  PROVE  NoVisit(th) /\ UNCHANGED fetched
<1>1. CASE \/ Enter(th) \/ FetchRules(th) \/ LookupCache(th) \/ LookupBank(th)
           \/ Abandon(th) \/ SaveLinks(th)
  <2>1. UNCHANGED visited /\ UNCHANGED fetched
    BY <1>1 DEF Enter, FetchRules, LookupCache, LookupBank, Abandon, SaveLinks, memory
  <2>2. Others(th) /\ (Over(th)' \/ PcOf(th)' \in {"rules", "visit", "bank"})
    BY <1>1, EnterHead, FetchRulesHead, LookupCacheHead, LookupBankHead, AbandonHead, SaveLinksHead
       DEF Others
  <2> QED
    BY <2>1, <2>2 DEF NoVisit, Busy, Over
<1>2. CASE ParseLink(th) \/ EndParse(th) \/ Index(th)
  <2>1. UNCHANGED visited /\ UNCHANGED fetched
    BY <1>2 DEF ParseLink, EndParse, Index, memory
  <2>2. /\ Others(th) /\ PcOf(th) \in {"parse", "index"}
        /\ Over(th)' \/ (PcOf(th)' \in {"parse", "index", "save"} /\ Page(th)' = Page(th))
    BY <1>2, ParseLinkHead, EndParseHead, IndexHead DEF Others
  <2> QED
    BY <2>1, <2>2 DEF NoVisit, Busy, Over, KeyOf
<1> QED
  BY <1>1, <1>2

LEMMA HandOverEffect ==
  ASSUME NEW th, HandsOver(th), visited' = visited
  PROVE  NoVisit(th)
BY DEF HandsOver, NoVisit, Others, Busy

LEMMA SubmitEffect ==
  ASSUME CallsInv, NEW th \in Threads, SubmitLink(th) \/ SubmittedAll(th)
  PROVE  NoVisit(th) /\ UNCHANGED fetched
<1>1. UNCHANGED visited /\ UNCHANGED fetched
  BY DEF SubmitLink, SubmittedAll, memory
<1>2. HandsOver(th)
  BY SubmitLinkHead, SubmittedAllHead
<1> QED
  BY <1>1, <1>2, HandOverEffect

\* The steps of a call: one begins a visit, one requests, the others do neither.
LEMMA ScrapeEffect ==
  ASSUME CallsInv, NEW th \in Threads, ScrapeStep(th)
  PROVE  /\ UNCHANGED <<saved, run, cancelled>> /\ mpc = "submit"
         /\ \/ FreshVisit(th)
            \/ NoVisit(th) /\ UNCHANGED fetched
            \/ NoVisit(th) /\ Request(th)
<1>1. UNCHANGED <<saved, run, cancelled>>
  BY DEF ScrapeStep, Enter, FetchRules, Visit, LookupCache, LookupBank, Fetch, ParseLink,
         EndParse, Index, Abandon, SaveLinks, SubmitLink, SubmittedAll, disk, memory
<1>2. \E pc : At(th, pc)
  BY DEF ScrapeStep, Enter, FetchRules, Visit, LookupCache, LookupBank, Fetch, ParseLink,
         EndParse, Index, Abandon, SaveLinks, SubmitLink, SubmittedAll
<1>3. mpc = "submit"
  BY <1>2, StandsAt
<1>4. \/ FreshVisit(th)
      \/ NoVisit(th) /\ UNCHANGED fetched
      \/ NoVisit(th) /\ Request(th)
  BY VisitEffect, FetchEffect, QuietEffect, SubmitEffect DEF ScrapeStep
<1> QED
  BY <1>1, <1>3, <1>4

\* The steps of the others: a task is handed over, the mark of a page is saved, or
\* nothing of this is touched.
LEMMA OtherEffect ==
  ASSUME CallsInv,
         \/ \E w \in Workers : TakeTask(w)
         \/ RunStep \/ DropTask \/ Cancel \/ Finished \/ UNCHANGED vars
  PROVE  /\ UNCHANGED <<memory, bank, docs, fetched>>
         /\ (\E th \in Threads : HandsOver(th)) \/ UNCHANGED stack
         /\ \/ UNCHANGED <<saved, mpc>>
            \/ UNCHANGED saved /\ mpc = "submit" /\ mpc' = "saving"
            \/ /\ UNCHANGED <<saved, stack>> /\ mpc' = "done"
               /\ Unsaved = {} \/ "save" \in Faults
            \/ UNCHANGED <<mpc, stack>> /\ mpc = "saving"
               /\ \E k \in Keys : visited[k] # None /\ saved' = [saved EXCEPT ![k] = visited[k]]
<1>1. ASSUME NEW w \in Workers, TakeTask(w)
      PROVE  UNCHANGED <<memory, bank, docs, fetched, saved, mpc>> /\ \E th \in Threads : HandsOver(th)
  BY <1>1, TakeTaskHead DEF TakeTask, disk, run, Threads
<1>2. CASE SubmitStart
  BY <1>2, SubmitStartHead DEF SubmitStart, disk, Threads
<1>3. CASE Wait
  BY <1>3 DEF Wait, disk, pool
<1>4. CASE SaveVisited
  BY <1>4 DEF SaveVisited, Unsaved, pool
<1>5. CASE DropTask
  BY <1>5 DEF DropTask, disk, run
<1>6. CASE Cancel \/ Finished \/ UNCHANGED vars
  BY <1>6 DEF Cancel, Finished, vars, memory, disk, pool, run
<1> QED
  BY <1>1, <1>2, <1>3, <1>4, <1>5, <1>6 DEF RunStep
-----------------------------------------------------------------------------
(* VisitsInv: a page has one visitor, that requests it once *)

OneVisitor ==
  /\ \A th \in Threads : Busy(th) => visited[KeyOf(th)] # None
  /\ \A th, o \in Threads : Busy(th) /\ Busy(o) /\ KeyOf(th) = KeyOf(o) => th = o

AtMostOne == \A k \in Keys : fetched[k] <= 1

OneRequest ==
  /\ AtMostOne
  /\ \A th \in Threads : PcOf(th) = "fetch" => fetched[KeyOf(th)] = 0
  /\ \A k \in Keys : visited[k] = None => fetched[k] = 0

MarksSaved ==
  /\ \A k \in Keys : saved[k] # None => visited[k] = saved[k]
  /\ mpc = "done" => saved = visited \/ "save" \in Faults

\* What is visited for the first time had no mark on disk when the program was started.
NotSavedYet ==
  /\ \A th \in Threads : Busy(th) => saved[KeyOf(th)] = None
  /\ mpc = "submit" => \A k \in Keys : saved[k] # None => fetched[k] = 0

VisitsInv == OneVisitor /\ OneRequest /\ MarksSaved /\ NotSavedYet

LEMMA FreshVisitInv ==
  ASSUME CallsInv, VisitsInv, NEW th, FreshVisit(th)
  PROVE  VisitsInv'
<1>1. /\ Others(th) /\ th \in Threads
      /\ PcOf(th)' = "fetch" /\ Page(th)' = Page(th) /\ KeyOf(th)' = KeyOf(th)
      /\ KeyOf(th) \in Keys /\ visited[KeyOf(th)] = None
      /\ UNCHANGED <<saved, mpc, fetched>>
  BY DEF FreshVisit, Others, disk, run
<1>2. PICK d \in Nat : visited' = [visited EXCEPT ![KeyOf(th)] = d]
  BY DEF FreshVisit
<1>3. d # None /\ visited \in [Keys -> (0..(MaxDepth - 1)) \cup {None}]
  BY CrawlAssumption, CallsParts DEF MemoryTypes
<1>4. /\ visited'[KeyOf(th)] # None
      /\ \A k \in Keys \ {KeyOf(th)} : visited'[k] = visited[k]
      /\ \A k : visited[k] # None => visited'[k] = visited[k]
  BY <1>1, <1>2, <1>3
<1>5. \A o \in Threads : Busy(o) => KeyOf(o) # KeyOf(th)
  BY <1>1 DEF VisitsInv, OneVisitor
<1>6. OneVisitor'
  <2>1. \A o \in Threads : Busy(o)' => visited'[KeyOf(o)'] # None
    BY <1>1, <1>4, OthersKeep DEF VisitsInv, OneVisitor
  <2>2. \A t, o \in Threads : Busy(t)' /\ Busy(o)' /\ KeyOf(t)' = KeyOf(o)' => t = o
    BY <1>1, <1>5, OthersKeep DEF VisitsInv, OneVisitor
  <2> QED
    BY <2>1, <2>2 DEF OneVisitor
<1>7. OneRequest'
  <2>1. \A o \in Threads : PcOf(o)' = "fetch" => fetched'[KeyOf(o)'] = 0
    BY <1>1, OthersKeep DEF VisitsInv, OneRequest
  <2>2. \A k \in Keys : visited'[k] = None => fetched'[k] = 0
    BY <1>1, <1>4 DEF VisitsInv, OneRequest
  <2> QED
    BY <1>1, <2>1, <2>2 DEF VisitsInv, OneRequest, AtMostOne
<1>8. MarksSaved'
  <2>1. mpc # "done"
    BY <1>1, StandsAt, TopIsOpen DEF FreshVisit, PcOf
  <2> QED
    BY <1>1, <1>4, <2>1 DEF VisitsInv, MarksSaved
<1>9. NotSavedYet'
  <2>1. saved[KeyOf(th)] = None
    BY <1>1 DEF VisitsInv, MarksSaved
  <2>2. \A o \in Threads : Busy(o)' => saved'[KeyOf(o)'] = None
    BY <1>1, <2>1, OthersKeep DEF VisitsInv, NotSavedYet
  <2> QED
    BY <1>1, <2>2 DEF VisitsInv, NotSavedYet
<1> QED
  BY <1>6, <1>7, <1>8, <1>9 DEF VisitsInv

LEMMA NoVisitInv ==
  ASSUME CallsInv, VisitsInv, NEW th, NoVisit(th)
  PROVE  OneVisitor'
<1>1. /\ Others(th) /\ th \in Threads /\ visited' = visited
      /\ Busy(th)' => Busy(th) /\ KeyOf(th)' = KeyOf(th)
  BY DEF NoVisit, Others
<1>2. \A o \in Threads : Busy(o)' => visited'[KeyOf(o)'] # None
  BY <1>1, OthersKeep DEF VisitsInv, OneVisitor
<1>3. \A t, o \in Threads : Busy(t)' /\ Busy(o)' /\ KeyOf(t)' = KeyOf(o)' => t = o
  <2> SUFFICES ASSUME NEW t \in Threads, NEW o \in Threads, Busy(t)', Busy(o)', KeyOf(t)' = KeyOf(o)'
               PROVE  t = o
    OBVIOUS
  <2>1. Busy(t) /\ KeyOf(t)' = KeyOf(t)
    BY <1>1, OthersKeep
  <2>2. Busy(o) /\ KeyOf(o)' = KeyOf(o)
    BY <1>1, OthersKeep
  <2> QED
    BY <2>1, <2>2 DEF VisitsInv, OneVisitor
<1> QED
  BY <1>2, <1>3 DEF OneVisitor

LEMMA NoRequestInv ==
  ASSUME VisitsInv, NEW th, NoVisit(th), UNCHANGED fetched
  PROVE  OneRequest'
<1>1. \A o \in Threads : PcOf(o)' = "fetch" => fetched'[KeyOf(o)'] = 0
  BY OthersKeep DEF NoVisit, VisitsInv, OneRequest
<1> QED
  BY <1>1 DEF NoVisit, VisitsInv, OneRequest, AtMostOne

LEMMA RequestInv ==
  ASSUME CallsInv, VisitsInv, NEW th, NoVisit(th), Request(th)
  PROVE  OneRequest'
<1>1. /\ Others(th) /\ th \in Threads /\ visited' = visited /\ PcOf(th)' # "fetch"
      /\ PcOf(th) = "fetch" /\ KeyOf(th) \in Keys
      /\ fetched' = [fetched EXCEPT ![KeyOf(th)] = @ + 1]
      /\ fetched \in [Keys -> Nat]
  BY CallsParts DEF NoVisit, Others, Request, DiskTypes
<1>2. fetched[KeyOf(th)] = 0 /\ visited[KeyOf(th)] # None
  BY <1>1 DEF VisitsInv, OneRequest, OneVisitor, Busy
<1>3. fetched'[KeyOf(th)] = 1 /\ \A k \in Keys \ {KeyOf(th)} : fetched'[k] = fetched[k]
  BY <1>1, <1>2
<1>4. AtMostOne'
  BY <1>3 DEF VisitsInv, OneRequest, AtMostOne
<1>5. \A o \in Threads : PcOf(o)' = "fetch" => fetched'[KeyOf(o)'] = 0
  <2> SUFFICES ASSUME NEW o \in Threads, PcOf(o)' = "fetch" PROVE fetched'[KeyOf(o)'] = 0
    OBVIOUS
  <2>1. o # th /\ PcOf(o) = "fetch" /\ KeyOf(o)' = KeyOf(o)
    BY <1>1, OthersKeep
  <2>2. KeyOf(o) \in Keys /\ KeyOf(o) # KeyOf(th)
    <3>1. At(o, "fetch")
      BY <2>1 DEF PcOf, At, Top
    <3> QED
      BY <1>1, <2>1, <3>1, StandsAt DEF VisitsInv, OneVisitor, Busy
  <2> QED
    BY <1>3, <2>1, <2>2 DEF VisitsInv, OneRequest
<1>6. \A k \in Keys : visited'[k] = None => fetched'[k] = 0
  BY <1>1, <1>2, <1>3 DEF VisitsInv, OneRequest
<1> QED
  BY <1>4, <1>5, <1>6 DEF OneRequest

LEMMA NotSavedInv ==
  ASSUME CallsInv, VisitsInv, NEW th, NoVisit(th), UNCHANGED <<saved, mpc>>,
         UNCHANGED fetched \/ Request(th)
  PROVE  NotSavedYet'
<1>1. \A o \in Threads : Busy(o)' => saved'[KeyOf(o)'] = None
  <2> SUFFICES ASSUME NEW o \in Threads, Busy(o)' PROVE saved'[KeyOf(o)'] = None
    OBVIOUS
  <2>1. Busy(o) /\ KeyOf(o)' = KeyOf(o)
    BY OthersKeep DEF NoVisit
  <2> QED
    BY <2>1 DEF VisitsInv, NotSavedYet
<1>2. ASSUME Request(th) PROVE \A k \in Keys : saved[k] # None => fetched'[k] = fetched[k]
  <2>1. th \in Threads /\ Busy(th)
    BY <1>2 DEF NoVisit, Others, Request, Busy
  <2>2. saved[KeyOf(th)] = None
    BY <2>1 DEF VisitsInv, NotSavedYet
  <2>3. fetched \in [Keys -> Nat]
    BY CallsParts DEF DiskTypes
  <2> QED
    BY <1>2, <2>2, <2>3 DEF Request
<1>3. mpc' = "submit" => \A k \in Keys : saved'[k] # None => fetched'[k] = 0
  BY <1>2 DEF VisitsInv, NotSavedYet
<1> QED
  BY <1>1, <1>3 DEF NotSavedYet

LEMMA ScrapeVisits ==
  ASSUME CallsInv, VisitsInv, NEW th \in Threads, ScrapeStep(th)
  PROVE  VisitsInv'
<1>1. UNCHANGED <<saved, run>> /\ mpc = "submit"
  BY ScrapeEffect
<1>2. CASE FreshVisit(th)
  BY <1>2, FreshVisitInv
<1>3. CASE NoVisit(th) /\ (UNCHANGED fetched \/ Request(th))
  <2>1. OneVisitor' /\ OneRequest'
    BY <1>3, NoVisitInv, NoRequestInv, RequestInv
  <2>2. MarksSaved'
    BY <1>1, <1>3 DEF NoVisit, VisitsInv, MarksSaved, run
  <2>3. NotSavedYet'
    BY <1>1, <1>3, NotSavedInv DEF run
  <2> QED
    BY <2>1, <2>2, <2>3 DEF VisitsInv
<1> QED
  BY <1>2, <1>3, ScrapeEffect

\* With the stacks, the marks and the requests as they were.
LEMMA StacksKept ==
  ASSUME VisitsInv, UNCHANGED <<stack, visited, fetched>>
  PROVE  OneVisitor' /\ OneRequest'
BY DEF VisitsInv, OneVisitor, OneRequest, AtMostOne, Busy, PcOf, KeyOf, Page, Top

LEMMA OtherVisits ==
  ASSUME CallsInv, VisitsInv,
         \/ \E w \in Workers : TakeTask(w)
         \/ RunStep \/ DropTask \/ Cancel \/ Finished \/ UNCHANGED vars
  PROVE  VisitsInv'
<1>1. UNCHANGED <<visited, fetched>>
  BY OtherEffect DEF memory
<1>2. OneVisitor' /\ OneRequest'
  <2>1. CASE UNCHANGED stack
    BY <1>1, <2>1, StacksKept
  <2>2. ASSUME NEW th \in Threads, HandsOver(th) PROVE OneVisitor' /\ OneRequest'
    BY <1>1, <2>2, HandOverEffect, NoVisitInv, NoRequestInv
  <2> QED
    BY <2>1, <2>2, OtherEffect
<1>3. MarksSaved'
  <2>1. /\ visited \in [Keys -> (0..(MaxDepth - 1)) \cup {None}]
        /\ saved \in [Keys -> (0..(MaxDepth - 1)) \cup {None}]
    BY CallsParts DEF MemoryTypes, DiskTypes
  <2>2. CASE UNCHANGED <<saved, mpc>> \/ (UNCHANGED saved /\ mpc' = "saving")
    BY <1>1, <2>2 DEF VisitsInv, MarksSaved
  <2>3. CASE UNCHANGED saved /\ "save" \in Faults
    BY <1>1, <2>3 DEF VisitsInv, MarksSaved
  <2>4. CASE UNCHANGED saved /\ Unsaved = {} /\ mpc' = "done"
    <3>1. \A k \in Keys : saved[k] = visited[k]
      BY <2>4 DEF VisitsInv, MarksSaved, Unsaved
    <3>2. saved = visited
      BY <2>1, <3>1
    <3> QED
      BY <1>1, <2>4, <3>2 DEF VisitsInv, MarksSaved
  <2>5. ASSUME NEW k \in Keys, saved' = [saved EXCEPT ![k] = visited[k]], mpc' = mpc, mpc = "saving"
        PROVE  MarksSaved'
    BY <1>1, <2>1, <2>5 DEF VisitsInv, MarksSaved
  <2> QED
    BY <2>2, <2>3, <2>4, <2>5, OtherEffect
<1>4. NotSavedYet'
  <2>1. CASE UNCHANGED saved
    <3>1. \A th \in Threads : Busy(th)' => saved'[KeyOf(th)'] = None
      <4>1. CASE UNCHANGED stack
        BY <2>1, <4>1 DEF VisitsInv, NotSavedYet, Busy, PcOf, KeyOf, Page, Top
      <4>2. ASSUME NEW th \in Threads, HandsOver(th), NEW o \in Threads, Busy(o)'
            PROVE  saved'[KeyOf(o)'] = None
        <5>1. NoVisit(th)
          BY <1>1, <4>2, HandOverEffect
        <5>2. Busy(o) /\ KeyOf(o)' = KeyOf(o)
          BY <4>2, <5>1, OthersKeep DEF NoVisit
        <5> QED
          BY <2>1, <5>2 DEF VisitsInv, NotSavedYet
      <4> QED
        BY <4>1, <4>2, OtherEffect
    <3>2. mpc' = "submit" => mpc = "submit"
      BY OtherEffect
    <3> QED
      BY <1>1, <2>1, <3>1, <3>2 DEF VisitsInv, NotSavedYet
  <2>2. CASE UNCHANGED <<mpc, stack>> /\ mpc = "saving"
    <3>1. \A th \in Threads : stack'[th] = <<>>
      BY <2>2, CallsParts DEF Idle
    <3>2. \A th \in Threads : ~Busy(th)'
      BY <3>1 DEF Busy, PcOf
    <3> QED
      BY <2>2, <3>2 DEF NotSavedYet
  <2> QED
    BY <2>1, <2>2, OtherEffect
<1> QED
  BY <1>2, <1>3, <1>4 DEF VisitsInv

LEMMA RestartVisits ==
  ASSUME CallsInv, VisitsInv, Restart
  PROVE  VisitsInv'
<1>1. /\ visited' = saved /\ saved' = saved /\ mpc' = "submit"
      /\ stack' = [th \in Threads |-> <<>>]
      /\ fetched' = [k \in Keys |-> 0]
  BY DEF Restart, Loaded, disk
<1>2. \A th \in Threads : PcOf(th)' = "none"
  BY <1>1 DEF PcOf
<1>3. OneVisitor'
  BY <1>2 DEF OneVisitor, Busy
<1>4. OneRequest'
  BY <1>1, <1>2 DEF OneRequest, AtMostOne
<1>5. MarksSaved' /\ NotSavedYet'
  BY <1>1, <1>2 DEF MarksSaved, NotSavedYet, Busy
<1> QED
  BY <1>3, <1>4, <1>5 DEF VisitsInv

LEMMA InitVisits == Init => VisitsInv
<1> SUFFICES ASSUME Init PROVE VisitsInv
  OBVIOUS
<1>1. \A th \in Threads : PcOf(th) = "none"
  BY DEF Init, PcOf
<1>2. OneVisitor
  BY <1>1 DEF OneVisitor, Busy
<1>3. OneRequest /\ MarksSaved /\ NotSavedYet
  BY <1>1 DEF Init, OneRequest, AtMostOne, MarksSaved, NotSavedYet, Busy
<1> QED
  BY <1>2, <1>3 DEF VisitsInv

LEMMA NextVisits == CallsInv /\ VisitsInv /\ [Next]_vars => VisitsInv'
BY ScrapeVisits, OtherVisits, RestartVisits DEF Next

\* Marks, requests and the saved marks go together.
THEOREM VisitsInvariant == Spec => []VisitsInv
BY CallsInvariant, InitVisits, NextVisits, PTL DEF Spec

\* However many calls of a run reach a page, at most one requests it, and none in a run
\* that found its mark on disk (FetchedOnce): LoadOrStore in ScrapeWithContext, and
\* LoadVisitedUrls at the start.  Which marks were saved is left open: a transaction of
\* SaveVisitedUrls may fail without a trace.
THEOREM PagesAreFetchedOnce == Spec => []FetchedOnce
<1>1. VisitsInv => FetchedOnce
  BY DEF VisitsInv, OneRequest, AtMostOne, NotSavedYet, FetchedOnce
<1> QED
  BY <1>1, VisitsInvariant, PTL

\* No saved mark is lost or replaced (SavedMarksStay): SaveVisitedUrls writes marks that
\* were not there, and a later run starts from those that were.
THEOREM SavedMarksAreKept == Spec => SavedMarksStay
<1> DEFINE Stay == \A k \in Keys : saved[k] # None => saved'[k] # None /\ saved'[k] <= saved[k]
<1>1. CallsInv /\ VisitsInv /\ [Next]_vars => [Stay]_vars
  <2> SUFFICES ASSUME CallsInv, VisitsInv, Next PROVE Stay
    OBVIOUS
  <2>1. saved \in [Keys -> (0..(MaxDepth - 1)) \cup {None}] /\ MaxDepth \in Nat /\ None \notin Nat
    BY CallsParts, CrawlAssumption DEF DiskTypes
  <2>2. saved' = saved \/ \E k \in Keys : visited[k] # None /\ saved' = [saved EXCEPT ![k] = visited[k]]
    BY ScrapeEffect, OtherEffect DEF Next, Restart, disk
  <2>3. \A k \in Keys : saved[k] # None => saved'[k] = saved[k]
    BY <2>1, <2>2 DEF VisitsInv, MarksSaved
  <2> QED
    BY <2>1, <2>3
<1>2. Spec => [][Stay]_vars
  BY <1>1, CallsInvariant, VisitsInvariant, PTL DEF Spec
<1> QED
  BY <1>2 DEF SavedMarksStay
-----------------------------------------------------------------------------
(* LimitersInv: a host that is asked for a page has a limiter *)

\* The call has been through the closure's prelude and may come to ask for its page.
Asks(th) == PcOf(th) \in {"rules", "visit", "fetch"}

LimitersInv == \A th \in Threads : Asks(th) => rlMap[Host[Page(th)]] # None

LEMMA OthersAsk ==
  ASSUME NEW th, Others(th), NEW o \in Threads, o # th
  PROVE  Asks(o)' = Asks(o) /\ Page(o)' = Page(o)
BY OthersKeep DEF Asks

\* No limiter goes while the program runs, and the call that comes to ask had one or
\* has just got one.
LEMMA LimitersStay ==
  ASSUME CallsInv, NEW th \in Threads, ScrapeStep(th)
  PROVE  /\ \A h \in Hosts : rlMap[h] # None => rlMap'[h] # None
         /\ Others(th)
         /\ Asks(th)' => (Asks(th) /\ Page(th)' = Page(th)) \/ rlMap'[Host[Page(th)']] # None
<1>1. rlMap \in [Hosts -> Nat \cup {None}] /\ DefaultDelay \in Nat /\ None \notin Nat
  BY CallsParts, CrawlAssumption DEF MemoryTypes, DefaultDelay
<1>2. CASE Enter(th)
  <2>1. Page(th) \in URLs /\ Host[Page(th)] \in Hosts /\ Page(th) = Top(th).task.url
    BY <1>2, StandsAt, CrawlAssumption DEF Enter, Page
  <2>2. /\ \A h \in Hosts : rlMap[h] # None => rlMap'[h] # None
        /\ rlMap'[Host[Page(th)]] # None
    BY <1>1, <1>2, <2>1 DEF Enter, NeedsLimiter
  <2> QED
    BY <1>2, <2>2, EnterHead DEF Others, Asks, Over
<1>3. CASE FetchRules(th)
  <2>1. /\ Page(th) \in URLs /\ Host[Page(th)] \in Hosts
        /\ RobotsDelay[Page(th)] \in Nat \cup {None}
    BY <1>3, StandsAt, CrawlAssumption DEF FetchRules
  <2>2. \A h \in Hosts, delay \in Nat : LimiterFor(h, delay) # None
    BY <1>1 DEF LimiterFor
  <2>3. \A h \in Hosts : rlMap[h] # None => rlMap'[h] # None
    BY <1>1, <1>3, <2>1, <2>2 DEF FetchRules
  <2> QED
    BY <1>3, <2>3, FetchRulesHead DEF Others, Asks, Over
<1>4. CASE \/ Visit(th) \/ LookupCache(th) \/ LookupBank(th)
           \/ Fetch(th) \/ ParseLink(th) \/ EndParse(th) \/ Index(th) \/ SaveLinks(th)
           \/ Abandon(th) \/ SubmitLink(th) \/ SubmittedAll(th)
  <2>1. UNCHANGED rlMap
    BY <1>4 DEF Visit, LookupCache, LookupBank, Fetch, ParseLink, EndParse, Index, Abandon, SaveLinks,
                SubmitLink, SubmittedAll, memory
  <2>2. Others(th) /\ (Asks(th)' => Asks(th) /\ Page(th)' = Page(th))
    <3>1. CASE Visit(th)
      BY <3>1, VisitHead DEF Others, Asks, Over
    <3>2. CASE LookupCache(th) \/ LookupBank(th) \/ SaveLinks(th)
      BY <3>2, LookupCacheHead, LookupBankHead, SaveLinksHead DEF Others, Asks, Over
    <3>3. CASE Fetch(th) \/ ParseLink(th) \/ EndParse(th) \/ Index(th) \/ Abandon(th)
      BY <3>3, FetchHead, ParseLinkHead, EndParseHead, IndexHead, AbandonHead DEF Others, Asks, Over
    <3>4. CASE SubmitLink(th) \/ SubmittedAll(th)
      BY <3>4, SubmitLinkHead, SubmittedAllHead DEF HandsOver, Others, Asks
    <3> QED
      BY <1>4, <3>1, <3>2, <3>3, <3>4
  <2> QED
    BY <2>1, <2>2
<1> QED
  BY <1>2, <1>3, <1>4 DEF ScrapeStep

LEMMA AskedHosts ==
  ASSUME CallsInv, NEW th \in Threads, Asks(th)
  PROVE  Host[Page(th)] \in Hosts
<1>1. stack[th] # <<>>
  BY DEF Asks, PcOf
<1> QED
  BY <1>1, TopIsOpen, FrameTypes DEF Page

LEMMA ScrapeLimiters ==
  ASSUME CallsInv, LimitersInv, NEW th \in Threads, ScrapeStep(th)
  PROVE  LimitersInv'
<1> SUFFICES ASSUME NEW o \in Threads, Asks(o)'
             PROVE  rlMap'[Host[Page(o)']] # None
  BY DEF LimitersInv
<1>1. (Asks(o) /\ Page(o)' = Page(o)) \/ rlMap'[Host[Page(o)']] # None
  BY LimitersStay, OthersAsk
<1> QED
  BY <1>1, LimitersStay, AskedHosts DEF LimitersInv

LEMMA OtherLimiters ==
  ASSUME CallsInv, LimitersInv,
         \/ \E w \in Workers : TakeTask(w)
         \/ RunStep \/ DropTask \/ Cancel \/ Finished \/ UNCHANGED vars
  PROVE  LimitersInv'
<1>1. UNCHANGED rlMap
  BY OtherEffect DEF memory
<1>2. CASE UNCHANGED stack
  BY <1>1, <1>2 DEF LimitersInv, Asks, PcOf, Page, Top
<1>3. ASSUME NEW th \in Threads, HandsOver(th) PROVE LimitersInv'
  <2>1. Others(th) /\ ~Asks(th)'
    BY <1>3 DEF HandsOver, Others, Asks
  <2> QED
    BY <1>1, <2>1, OthersAsk DEF LimitersInv
<1> QED
  BY <1>2, <1>3, OtherEffect

LEMMA RestartLimiters ==
  ASSUME Restart
  PROVE  LimitersInv'
<1>1. stack' = [th \in Threads |-> <<>>]
  BY DEF Restart
<1> QED
  BY <1>1 DEF LimitersInv, Asks, PcOf

LEMMA InitLimiters == Init => LimitersInv
BY DEF Init, LimitersInv, Asks, PcOf

\* getHTML finds a limiter for the host of its page (LimiterPresent): the closures give
\* the host one before ScrapeWithContext runs, and nothing takes it away.
THEOREM LimitersArePresent == Spec => []LimiterPresent
<1>1. CallsInv /\ LimitersInv /\ [Next]_vars => LimitersInv'
  BY ScrapeLimiters, OtherLimiters, RestartLimiters DEF Next
<1>2. LimitersInv => LimiterPresent
  BY DEF LimitersInv, LimiterPresent, Asks, PcOf, At, Top
<1> QED
  BY <1>1, <1>2, CallsInvariant, InitLimiters, PTL DEF Spec
-----------------------------------------------------------------------------
(* BankInv: links are saved for documents that are stored *)

BankInv ==
  /\ \A th \in Threads : PcOf(th) = "save" => KeyOf(th) \in docs
  /\ \A k \in Keys : bank[k] # <<>> => k \in docs

\* Documents stay, and a call comes to save its links when its document is stored.
LEMMA DocumentsStay ==
  ASSUME CallsInv, NEW th \in Threads, ScrapeStep(th)
  PROVE  /\ docs \subseteq docs' /\ Others(th)
         /\ PcOf(th)' = "save" => KeyOf(th)' \in docs'
         /\ UNCHANGED bank \/ SaveLinks(th)
<1>1. CASE Index(th)
  BY <1>1, IndexHead DEF Others, Over, KeyOf, Index
<1>2. CASE ~Index(th)
  <2>1. UNCHANGED docs
    BY <1>2 DEF ScrapeStep, Enter, FetchRules, Visit, LookupCache, LookupBank, Fetch, ParseLink, EndParse,
                Abandon, SaveLinks, SubmitLink, SubmittedAll, disk
  <2>2. UNCHANGED bank \/ SaveLinks(th)
    BY <1>2 DEF ScrapeStep, Enter, FetchRules, Visit, LookupCache, LookupBank, Fetch, ParseLink, EndParse,
                Abandon, SubmitLink, SubmittedAll, disk
  <2>3. Others(th) /\ PcOf(th)' # "save"
    <3>1. CASE Enter(th) \/ FetchRules(th) \/ Visit(th) \/ Fetch(th) \/ Abandon(th)
      BY <3>1, EnterHead, FetchRulesHead, VisitHead, FetchHead, AbandonHead DEF Others, Over
    <3>2. CASE LookupCache(th) \/ LookupBank(th) \/ ParseLink(th) \/ EndParse(th) \/ SaveLinks(th)
      BY <3>2, LookupCacheHead, LookupBankHead, ParseLinkHead, EndParseHead, SaveLinksHead DEF Others, Over
    <3>3. CASE SubmitLink(th) \/ SubmittedAll(th)
      BY <3>3, SubmitLinkHead, SubmittedAllHead DEF HandsOver, Others
    <3> QED
      BY <1>2, <3>1, <3>2, <3>3 DEF ScrapeStep
  <2> QED
    BY <2>1, <2>2, <2>3
<1> QED
  BY <1>1, <1>2

LEMMA SaveEffect ==
  ASSUME CallsInv, NEW th \in Threads, SaveLinks(th)
  PROVE  /\ KeyOf(th) \in Keys /\ PcOf(th) = "save"
         /\ bank' = bank \/ bank' = [bank EXCEPT ![KeyOf(th)] = Top(th).links]
BY StandsAt DEF SaveLinks, KeyOf, Banked

LEMMA ScrapeBank ==
  ASSUME CallsInv, BankInv, NEW th \in Threads, ScrapeStep(th)
  PROVE  BankInv'
<1>1. \A o \in Threads : PcOf(o)' = "save" => KeyOf(o)' \in docs'
  BY DocumentsStay, OthersKeep DEF BankInv
<1>2. \A k \in Keys : bank'[k] # <<>> => k \in docs'
  <2>1. CASE UNCHANGED bank
    BY <2>1, DocumentsStay DEF BankInv
  <2>2. CASE SaveLinks(th)
    <3>1. bank \in [Keys -> Seq(Tokens)]
      BY CallsParts DEF DiskTypes
    <3>2. \A k \in Keys : bank'[k] # <<>> => bank[k] # <<>> \/ k = KeyOf(th)
      BY <2>2, <3>1, SaveEffect
    <3> QED
      BY <2>2, <3>2, DocumentsStay, SaveEffect DEF BankInv
  <2> QED
    BY <2>1, <2>2, DocumentsStay
<1> QED
  BY <1>1, <1>2 DEF BankInv

LEMMA OtherBank ==
  ASSUME CallsInv, BankInv,
         \/ \E w \in Workers : TakeTask(w)
         \/ RunStep \/ DropTask \/ Cancel \/ Finished \/ UNCHANGED vars
  PROVE  BankInv'
<1>1. UNCHANGED <<bank, docs>>
  BY OtherEffect
<1>2. CASE UNCHANGED stack
  BY <1>1, <1>2 DEF BankInv, PcOf, KeyOf, Page, Top
<1>3. ASSUME NEW th \in Threads, HandsOver(th) PROVE BankInv'
  <2>1. Others(th) /\ PcOf(th)' # "save"
    BY <1>3 DEF HandsOver, Others
  <2> QED
    BY <1>1, <2>1, OthersKeep DEF BankInv
<1> QED
  BY <1>2, <1>3, OtherEffect

LEMMA RestartBank ==
  ASSUME BankInv, Restart
  PROVE  BankInv'
<1>1. stack' = [th \in Threads |-> <<>>] /\ UNCHANGED disk
  BY DEF Restart
<1> QED
  BY <1>1 DEF BankInv, PcOf, disk

LEMMA InitBank == Init => BankInv
BY DEF Init, BankInv, PcOf

\* What the bank and the cache know of a page are its links, and the bank knows only
\* pages that are stored (BankSound): SaveUrlsToBank comes after the document is saved.
THEOREM BankIsSound == Spec => []BankSound
<1>1. CallsInv /\ BankInv /\ [Next]_vars => BankInv'
  BY ScrapeBank, OtherBank, RestartBank DEF Next
<1>2. ASSUME NEW k, NEW list, AllLinksOf(list, k)
      PROVE  \A i \in 1..Len(list) : list[i].link \in LinksOf(k)
  <2> SUFFICES ASSUME NEW i \in 1..Len(list) PROVE list[i].link \in LinksOf(k)
    OBVIOUS
  <2>1. PICK u \in URLs : Key[u] = k /\ \E j \in 1..Len(Links[u]) : Links[u][j] = list[i].link
    BY <1>2 DEF AllLinksOf, LinkOf
  <2>2. list[i].link \in {Links[u][j] : j \in 1..Len(Links[u])}
    BY <2>1
  <2> QED
    BY <2>1, <2>2 DEF LinksOf
<1>3. LinksInv /\ BankInv => BankSound
  BY <1>2 DEF LinksInv, StoreTraced, BankInv, BankSound
<1> QED
  BY <1>1, <1>3, CallsInvariant, LinksInvariant, InitBank, PTL DEF Spec
-----------------------------------------------------------------------------
(* CacheInv: what the cache and the bank hold of a page while it is visited *)

KnownVisited ==
  /\ \A k \in Keys : bank[k] # <<>> => visited[k] # None
  /\ \A i \in 1..Len(lru) : visited[lru[i].key] # None

\* The visitor of a page is the first to put its links, and saves what it has put.
OwnLinks ==
  \A th \in Threads : Busy(th) =>
    /\ bank[KeyOf(th)] = <<>>
    /\ \A i \in 1..Len(lru) : lru[i].key = KeyOf(th) =>
         PcOf(th) \in {"index", "save"} /\ lru[i].value = Top(th).links

Agree == \A i \in 1..Len(lru) : bank[lru[i].key] \in {<<>>, lru[i].value}

CacheInv == KnownVisited /\ OwnLinks /\ Agree

\* Nothing new is put, and what the visitor has put is what it will save.
NothingPut(th) ==
  /\ NoVisit(th) /\ bank' = bank
  /\ \A i \in 1..Len(lru') : \E j \in 1..Len(lru) : lru'[i] = lru[j]
  /\ Busy(th)' /\ PcOf(th) \in {"index", "save"} =>
       PcOf(th)' \in {"index", "save"} /\ Top(th)'.links = Top(th).links

\* A list of links is put.
ListPut(th, list) ==
  /\ KeyOf(th) \in Keys /\ NoVisit(th) /\ bank' = bank
  /\ \A i \in 1..Len(lru') :
       \/ lru'[i].key = KeyOf(th) /\ lru'[i].value = list
       \/ \E j \in 1..Len(lru) : lru'[i] = lru[j]
  /\ \/ list # <<>> /\ list = bank[KeyOf(th)] /\ ~Busy(th)'
     \/ PcOf(th) = "parse" /\ PcOf(th)' = "index" /\ Top(th)'.links = list

\* The visitor saves its links.
ListSaved(th) ==
  /\ KeyOf(th) \in Keys /\ NoVisit(th) /\ UNCHANGED lru
  /\ PcOf(th) = "save" /\ ~Busy(th)'
  /\ bank' = [bank EXCEPT ![KeyOf(th)] = Top(th).links]

LEMMA LookupCacheEffect ==
  ASSUME CallsInv, NEW th \in Threads, LookupCache(th)
  PROVE  NothingPut(th)
<1>1. /\ NoVisit(th) /\ UNCHANGED bank /\ ~Busy(th)'
      /\ KeyOf(th) \in Keys
      /\ lru' = lru \/ (Has(lru, KeyOf(th)) /\ lru' = AfterGet(lru, KeyOf(th)))
  BY QuietEffect, LookupCacheHead, StandsAt DEF LookupCache, disk, KeyOf, Busy, Over
<1>2. \A i \in 1..Len(lru') : \E j \in 1..Len(lru) : lru'[i] = lru[j]
  BY <1>1, LookupFound
<1> QED
  BY <1>1, <1>2 DEF NothingPut

LEMMA LookupBankEffect ==
  ASSUME CallsInv, NEW th \in Threads, LookupBank(th)
  PROVE  NothingPut(th) \/ \E list : ListPut(th, list)
<1>1. NoVisit(th) /\ UNCHANGED bank /\ ~Busy(th)' /\ KeyOf(th) \in Keys
  BY QuietEffect, LookupBankHead, StandsAt DEF LookupBank, disk, Busy, Over
<1>2. CASE lru' = lru
  BY <1>1, <1>2 DEF NothingPut
<1>3. ASSUME NEW list \in SavedLinks(KeyOf(th)) \ {<<>>},
             lru' = AfterPut(lru, KeyOf(th), list, CacheCapacity)
      PROVE  ListPut(th, list)
  <2>1. list = bank[KeyOf(th)] /\ list # <<>>
    BY <1>3 DEF SavedLinks
  <2>2. list \in Seq(Tokens) \ {<<>>}
    BY <1>1, <2>1, CallsParts DEF DiskTypes
  <2>3. \A i \in 1..Len(lru') :
          lru'[i] = Entry(KeyOf(th), list) \/ \E j \in 1..Len(lru) : lru'[i] = lru[j]
    BY <1>1, <1>3, <2>2, PutStored
  <2>4. Entry(KeyOf(th), list).key = KeyOf(th) /\ Entry(KeyOf(th), list).value = list
    BY DEF Entry
  <2> QED
    BY <1>1, <2>1, <2>3, <2>4 DEF ListPut
<1> QED
  BY <1>2, <1>3 DEF LookupBank, KeyOf

LEMMA EndParseEffect ==
  ASSUME CallsInv, NEW th \in Threads, EndParse(th)
  PROVE  NothingPut(th) \/ \E list : ListPut(th, list)
<1>1. PICK list : list = Top(th).links \o Top(th).deeper
  OBVIOUS
<1>2. /\ lru' = IF list = <<>> THEN lru ELSE AfterPut(lru, KeyOf(th), list, CacheCapacity)
      /\ UNCHANGED bank
  BY <1>1 DEF EndParse, KeyOf, disk
<1>3. /\ PcOf(th) = "parse" /\ PcOf(th)' = "index" /\ Top(th)'.links = list
      /\ NoVisit(th)
  BY <1>1, EndParseHead, QuietEffect
<1>4. KeyOf(th) \in Keys /\ list \in Seq(Tokens)
  BY <1>1, StandsAt, FrameTypes, ConcatProperties DEF EndParse
<1>5. CASE list = <<>>
  BY <1>2, <1>3, <1>5 DEF NothingPut
<1>6. CASE list # <<>>
  <2>1. \A i \in 1..Len(lru') :
          lru'[i] = Entry(KeyOf(th), list) \/ \E j \in 1..Len(lru) : lru'[i] = lru[j]
    BY <1>2, <1>4, <1>6, PutStored
  <2>2. Entry(KeyOf(th), list).key = KeyOf(th) /\ Entry(KeyOf(th), list).value = list
    BY DEF Entry
  <2> QED
    BY <1>2, <1>3, <1>4, <2>1, <2>2 DEF ListPut
<1> QED
  BY <1>5, <1>6

LEMMA SaveLinksEffect ==
  ASSUME CallsInv, NEW th \in Threads, SaveLinks(th)
  PROVE  NothingPut(th) \/ ListSaved(th)
<1>1. NoVisit(th) /\ UNCHANGED lru /\ ~Busy(th)'
  BY QuietEffect, SaveLinksHead DEF SaveLinks, memory, Busy, Over
<1> QED
  BY <1>1, SaveEffect DEF NothingPut, ListSaved

\* The other steps of a call, but for the first visit.
LEMMA NothingPutEffect ==
  ASSUME CallsInv, NEW th \in Threads, NoVisit(th),
         \/ Enter(th) \/ FetchRules(th) \/ Visit(th) \/ Fetch(th) \/ ParseLink(th)
         \/ Index(th) \/ Abandon(th) \/ SubmitLink(th) \/ SubmittedAll(th)
  PROVE  NothingPut(th)
<1>1. UNCHANGED <<lru, bank>>
  BY DEF Enter, FetchRules, Visit, Fetch, ParseLink, Index, Abandon, SubmitLink, SubmittedAll, memory, disk
<1>2. PcOf(th) \in {"index", "save"} => Index(th)
  BY EnterHead, FetchRulesHead, VisitHead, FetchHead, ParseLinkHead, AbandonHead, SubmitLinkHead,
     SubmittedAllHead DEF HandsOver
<1>3. Index(th) /\ Busy(th)' => PcOf(th)' \in {"index", "save"} /\ Top(th)'.links = Top(th).links
  BY IndexHead DEF Busy, Over
<1> QED
  BY <1>1, <1>2, <1>3 DEF NothingPut

LEMMA PutEffect ==
  ASSUME CallsInv, NEW th \in Threads, ScrapeStep(th)
  PROVE  \/ FreshVisit(th) \/ NothingPut(th)
         \/ \E list : ListPut(th, list)
         \/ ListSaved(th)
<1>1. FreshVisit(th) \/ NoVisit(th)
  BY ScrapeEffect
<1>2. CASE NoVisit(th) /\ (\/ Enter(th) \/ FetchRules(th) \/ Visit(th) \/ Fetch(th) \/ ParseLink(th)
                          \/ Index(th) \/ Abandon(th) \/ SubmitLink(th) \/ SubmittedAll(th))
  BY <1>2, NothingPutEffect
<1> QED
  BY <1>1, <1>2, LookupCacheEffect, LookupBankEffect, EndParseEffect, SaveLinksEffect DEF ScrapeStep

LEMMA FreshVisitCache ==
  ASSUME CallsInv, VisitsInv, CacheInv, NEW th, FreshVisit(th)
  PROVE  CacheInv'
<1>1. /\ Others(th) /\ KeyOf(th)' = KeyOf(th) /\ KeyOf(th) \in Keys /\ visited[KeyOf(th)] = None
      /\ UNCHANGED <<lru, bank>>
  BY DEF FreshVisit, disk
<1>2. \A k : visited[k] # None => visited'[k] = visited[k]
  <2>1. PICK d \in Nat : visited' = [visited EXCEPT ![KeyOf(th)] = d]
    BY DEF FreshVisit
  <2> QED
    BY <1>1, <2>1, CallsParts DEF MemoryTypes
<1>3. KnownVisited'
  BY <1>1, <1>2 DEF CacheInv, KnownVisited
<1>4. OwnLinks'
  BY <1>1, OthersKeep DEF CacheInv, KnownVisited, OwnLinks
<1>5. Agree'
  BY <1>1 DEF CacheInv, Agree
<1> QED
  BY <1>3, <1>4, <1>5 DEF CacheInv

LEMMA NothingPutCache ==
  ASSUME CacheInv, NEW th, NothingPut(th)
  PROVE  CacheInv'
<1>1. /\ Others(th) /\ visited' = visited /\ bank' = bank
      /\ \A i \in 1..Len(lru') : \E j \in 1..Len(lru) : lru'[i] = lru[j]
  BY DEF NothingPut, NoVisit
<1>2. KnownVisited' /\ Agree'
  BY <1>1 DEF CacheInv, KnownVisited, Agree
<1>3. ASSUME NEW o \in Threads, Busy(o)'
      PROVE  /\ bank'[KeyOf(o)'] = <<>>
             /\ \A i \in 1..Len(lru') : lru'[i].key = KeyOf(o)' =>
                  PcOf(o)' \in {"index", "save"} /\ lru'[i].value = Top(o)'.links
  <2>1. Busy(o) /\ KeyOf(o)' = KeyOf(o)
    BY <1>1, <1>3, OthersKeep DEF NothingPut, NoVisit
  <2>2. PcOf(o) \in {"index", "save"} => PcOf(o)' \in {"index", "save"} /\ Top(o)'.links = Top(o).links
    BY <1>1, <1>3, OthersKeep DEF NothingPut
  <2> QED
    BY <1>1, <2>1, <2>2 DEF CacheInv, OwnLinks
<1> QED
  BY <1>2, <1>3 DEF CacheInv, OwnLinks

LEMMA ListPutCache ==
  ASSUME CallsInv, VisitsInv, CacheInv, NEW th, NEW list, ListPut(th, list)
  PROVE  CacheInv'
<1>1. /\ Others(th) /\ th \in Threads /\ visited' = visited /\ bank' = bank /\ KeyOf(th) \in Keys
      /\ \A i \in 1..Len(lru') :
           \/ lru'[i].key = KeyOf(th) /\ lru'[i].value = list
           \/ \E j \in 1..Len(lru) : lru'[i] = lru[j]
      /\ Busy(th)' => Busy(th) /\ KeyOf(th)' = KeyOf(th)
  BY DEF ListPut, NoVisit, Others
<1>2. visited[KeyOf(th)] # None /\ bank[KeyOf(th)] \in {<<>>, list}
  BY <1>1 DEF ListPut, CacheInv, KnownVisited, OwnLinks, VisitsInv, OneVisitor, Busy
<1>3. KnownVisited' /\ Agree'
  BY <1>1, <1>2 DEF CacheInv, KnownVisited, Agree
<1>4. ASSUME NEW o \in Threads, Busy(o)', NEW i \in 1..Len(lru'), lru'[i].key = KeyOf(o)'
      PROVE  PcOf(o)' \in {"index", "save"} /\ lru'[i].value = Top(o)'.links
  <2>1. CASE o = th
    <3>1. PcOf(th) = "parse" /\ PcOf(th)' = "index" /\ Top(th)'.links = list
      BY <1>4, <2>1 DEF ListPut
    <3>2. lru'[i].key = KeyOf(th) /\ \A j \in 1..Len(lru) : lru[j].key # KeyOf(th)
      BY <1>1, <1>4, <2>1, <3>1 DEF CacheInv, OwnLinks, Busy
    <3> QED
      BY <1>1, <2>1, <3>1, <3>2
  <2>2. CASE o # th
    <3>1. Busy(o) /\ KeyOf(o)' = KeyOf(o) /\ PcOf(o)' = PcOf(o) /\ Top(o)' = Top(o)
      BY <1>1, <1>4, <2>2, OthersKeep
    <3>2. KeyOf(o) # KeyOf(th)
      BY <1>1, <2>2, <3>1 DEF ListPut, CacheInv, OwnLinks, VisitsInv, OneVisitor, Busy
    <3> QED
      BY <1>1, <1>4, <3>1, <3>2 DEF CacheInv, OwnLinks
  <2> QED
    BY <2>1, <2>2
<1>5. \A o \in Threads : Busy(o)' => bank'[KeyOf(o)'] = <<>>
  BY <1>1, OthersKeep DEF CacheInv, OwnLinks
<1> QED
  BY <1>3, <1>4, <1>5 DEF CacheInv, OwnLinks

LEMMA ListSavedCache ==
  ASSUME CallsInv, VisitsInv, CacheInv, NEW th, ListSaved(th)
  PROVE  CacheInv'
<1>1. /\ Others(th) /\ th \in Threads /\ visited' = visited /\ KeyOf(th) \in Keys /\ UNCHANGED lru
      /\ Busy(th) /\ PcOf(th) = "save" /\ ~Busy(th)'
      /\ bank' = [bank EXCEPT ![KeyOf(th)] = Top(th).links]
      /\ bank \in [Keys -> Seq(Tokens)] /\ lru \in Seq(Entries)
  BY CallsParts DEF ListSaved, NoVisit, Others, Busy, DiskTypes, MemoryTypes
<1>2. bank'[KeyOf(th)] = Top(th).links /\ \A k \in Keys \ {KeyOf(th)} : bank'[k] = bank[k]
  BY <1>1
<1>3. visited[KeyOf(th)] # None
  BY <1>1 DEF VisitsInv, OneVisitor
<1>4. KnownVisited'
  BY <1>1, <1>2, <1>3 DEF CacheInv, KnownVisited
<1>5. Agree'
  <2> SUFFICES ASSUME NEW i \in 1..Len(lru) PROVE bank'[lru[i].key] \in {<<>>, lru[i].value}
    BY <1>1 DEF Agree
  <2>1. lru[i] \in Entries
    BY <1>1, ElementOfSeq
  <2>2. lru[i].key \in Keys
    BY <2>1 DEF Entries
  <2> QED
    BY <1>1, <1>2, <2>2 DEF CacheInv, OwnLinks, Agree
<1>6. OwnLinks'
  <2> SUFFICES ASSUME NEW o \in Threads, Busy(o)'
               PROVE  /\ bank'[KeyOf(o)'] = <<>>
                      /\ \A i \in 1..Len(lru') : lru'[i].key = KeyOf(o)' =>
                           PcOf(o)' \in {"index", "save"} /\ lru'[i].value = Top(o)'.links
    BY DEF OwnLinks
  <2>1. o # th /\ Busy(o) /\ KeyOf(o)' = KeyOf(o) /\ PcOf(o)' = PcOf(o) /\ Top(o)' = Top(o)
    BY <1>1, OthersKeep
  <2>2. KeyOf(o) # KeyOf(th)
    BY <1>1, <2>1 DEF VisitsInv, OneVisitor
  <2>3. KeyOf(o) \in Keys
    <3>1. stack[o] # <<>>
      BY <2>1 DEF Busy, PcOf
    <3> QED
      BY <3>1, TopIsOpen, FrameTypes DEF KeyOf, Page
  <2> QED
    BY <1>1, <1>2, <2>1, <2>2, <2>3 DEF CacheInv, OwnLinks
<1> QED
  BY <1>4, <1>5, <1>6 DEF CacheInv

LEMMA ScrapeCache ==
  ASSUME CallsInv, VisitsInv, CacheInv, NEW th \in Threads, ScrapeStep(th)
  PROVE  CacheInv'
BY PutEffect, FreshVisitCache, NothingPutCache, ListPutCache, ListSavedCache

LEMMA OtherCache ==
  ASSUME CallsInv, CacheInv,
         \/ \E w \in Workers : TakeTask(w)
         \/ RunStep \/ DropTask \/ Cancel \/ Finished \/ UNCHANGED vars
  PROVE  CacheInv'
<1>1. UNCHANGED <<visited, lru, bank>>
  BY OtherEffect DEF memory
<1>2. CASE UNCHANGED stack
  BY <1>1, <1>2 DEF CacheInv, KnownVisited, OwnLinks, Agree, Busy, PcOf, KeyOf, Page, Top
<1>3. ASSUME NEW th \in Threads, HandsOver(th) PROVE CacheInv'
  <2>1. NoVisit(th) /\ ~Busy(th)'
    BY <1>1, <1>3, HandOverEffect DEF HandsOver, Busy
  <2> QED
    BY <1>1, <2>1, NothingPutCache DEF NothingPut
<1> QED
  BY <1>2, <1>3, OtherEffect

\* The program that starts again reads every mark of the one that ended.
LEMMA RestartCache ==
  ASSUME VisitsInv, CacheInv, Restart, ~Crashes, "save" \notin Faults
  PROVE  CacheInv'
<1>1. /\ visited' = saved /\ mpc = "done" /\ lru' = <<>> /\ bank' = bank
      /\ stack' = [th \in Threads |-> <<>>]
  BY DEF Restart, Loaded, disk
<1>2. visited' = visited
  BY <1>1 DEF VisitsInv, MarksSaved
<1>3. OwnLinks'
  BY <1>1 DEF OwnLinks, Busy, PcOf
<1> QED
  BY <1>1, <1>2, <1>3 DEF CacheInv, KnownVisited, Agree

LEMMA InitCache == Init => CacheInv
BY DEF Init, CacheInv, KnownVisited, OwnLinks, Agree, Busy, PcOf

\* The cache and the bank agree on a page both know (CacheAgreesWithBank), as long as the
\* process does not die and no mark fails to be saved, so that no later run visits a page
\* of the bank again: parseHTMLStream caches the list that SaveUrlsToBank writes.
THEOREM CacheAndBankAgree ==
  ASSUME ~Crashes, "save" \notin Faults
  PROVE  Spec => []CacheAgreesWithBank
<1>1. CallsInv /\ VisitsInv /\ CacheInv /\ [Next]_vars => CacheInv'
  BY ScrapeCache, OtherCache, RestartCache DEF Next
<1>2. CallsInv /\ CacheInv => CacheAgreesWithBank
  BY DEF CallsInv, CacheInv, Agree, CacheAgreesWithBank
<1> QED
  BY <1>1, <1>2, CallsInvariant, VisitsInvariant, InitCache, PTL DEF Spec
-----------------------------------------------------------------------------
(* IndexedInv: a page that is marked gets indexed *)

\* A call is on its way to index the page.
Works(th) == PcOf(th) \in {"fetch", "parse", "index"}

Working(k) == \E th \in Threads : Works(th) /\ KeyOf(th) = k

MarksIndexed ==
  \A k \in Keys : /\ visited[k] # None => k \in docs \/ Working(k)
                  /\ saved[k] # None => k \in docs

IndexedInv == (cancelled => Interrupts) /\ (~cancelled => MarksIndexed)

\* Without failures the way to the index is not left.
LEMMA WorkEffect ==
  ASSUME CallsInv, Faults = {}, ~cancelled, NEW th \in Threads, ScrapeStep(th), Works(th)
  PROVE  (Works(th)' /\ KeyOf(th)' = KeyOf(th)) \/ KeyOf(th) \in docs'
<1>1. ~May("fetch") /\ ~May("index") /\ ~May("vector")
  BY DEF May
<1>2. Fetch(th) \/ ParseLink(th) \/ EndParse(th) \/ Index(th)
  BY EnterHead, FetchRulesHead, VisitHead, LookupCacheHead, LookupBankHead, AbandonHead, SaveLinksHead,
     SubmitLinkHead, SubmittedAllHead DEF ScrapeStep, HandsOver, Works
<1> QED
  BY <1>1, <1>2, FetchHead, ParseLinkHead, EndParseHead, IndexHead DEF Works, KeyOf

LEMMA ScrapeIndexed ==
  ASSUME CallsInv, MarksIndexed, Faults = {}, ~cancelled, NEW th \in Threads, ScrapeStep(th)
  PROVE  MarksIndexed'
<1>1. UNCHANGED saved /\ docs \subseteq docs' /\ Others(th)
  BY ScrapeEffect, DocumentsStay
<1>2. SUFFICES ASSUME NEW k \in Keys, visited'[k] # None
               PROVE  k \in docs' \/ Working(k)'
  BY <1>1 DEF MarksIndexed
<1>3. CASE visited[k] # None
  <2>1. CASE k \in docs
    BY <1>1, <2>1
  <2>2. ASSUME NEW o \in Threads, Works(o), KeyOf(o) = k
        PROVE  k \in docs' \/ Working(k)'
    <3>1. CASE o = th
      BY <1>2, <2>2, <3>1, WorkEffect DEF Working
    <3>2. CASE o # th
      <4>1. Works(o)' /\ KeyOf(o)' = k
        BY <1>1, <2>2, <3>2, OthersKeep DEF Works
      <4> QED
        BY <4>1 DEF Working
    <3> QED
      BY <3>1, <3>2
  <2> QED
    BY <1>3, <2>1, <2>2 DEF MarksIndexed, Working
<1>4. CASE visited[k] = None
  <2>1. FreshVisit(th)
    BY <1>2, <1>4, ScrapeEffect DEF NoVisit
  <2>2. k = KeyOf(th)
    BY <1>2, <1>4, <2>1, CallsParts DEF FreshVisit, MemoryTypes
  <2>3. Works(th)' /\ KeyOf(th)' = k
    BY <2>1, <2>2 DEF FreshVisit, Works
  <2> QED
    BY <2>3 DEF Working
<1> QED
  BY <1>3, <1>4

LEMMA OtherIndexed ==
  ASSUME CallsInv, MarksIndexed,
         \/ \E w \in Workers : TakeTask(w)
         \/ RunStep \/ DropTask \/ Cancel \/ Finished \/ UNCHANGED vars
  PROVE  MarksIndexed'
<1>1. UNCHANGED <<visited, docs>>
  BY OtherEffect DEF memory
<1>2. visited' = visited /\ docs' = docs
  BY <1>1
<1>3. SUFFICES ASSUME NEW k \in Keys
               PROVE  /\ visited[k] # None => k \in docs \/ Working(k)'
                      /\ saved'[k] # None => k \in docs
  BY <1>2 DEF MarksIndexed
<1>4. Working(k) => Working(k)'
  <2>1. CASE UNCHANGED stack
    BY <2>1 DEF Working, Works, PcOf, KeyOf, Page, Top
  <2>2. ASSUME NEW th \in Threads, HandsOver(th), NEW o \in Threads, Works(o), KeyOf(o) = k
        PROVE  Working(k)'
    <3>1. Others(th) /\ o # th
      BY <2>2 DEF HandsOver, Others, Works
    <3>2. Works(o)' /\ KeyOf(o)' = k
      BY <2>2, <3>1, OthersKeep DEF Works
    <3> QED
      BY <3>2 DEF Working
  <2> QED
    BY <2>1, <2>2, OtherEffect DEF Working
<1>5. saved'[k] # None => k \in docs
  <2>1. CASE UNCHANGED saved
    BY <2>1 DEF MarksIndexed
  <2>2. ASSUME mpc = "saving", NEW m \in Keys, visited[m] # None, saved' = [saved EXCEPT ![m] = visited[m]]
        PROVE  saved'[k] # None => k \in docs
    <3>1. \A th \in Threads : stack[th] = <<>>
      BY <2>2, CallsParts DEF Idle
    <3>2. ~Working(m)
      BY <3>1 DEF Working, Works, PcOf
    <3>3. m \in docs
      BY <2>2, <3>2 DEF MarksIndexed
    <3> QED
      BY <2>2, <3>3, CallsParts DEF MarksIndexed, DiskTypes
  <2> QED
    BY <2>1, <2>2, OtherEffect
<1> QED
  BY <1>4, <1>5 DEF MarksIndexed

LEMMA RestartIndexed ==
  ASSUME MarksIndexed, Restart
  PROVE  MarksIndexed'
<1>1. visited' = saved /\ saved' = saved /\ docs' = docs
  BY DEF Restart, Loaded, disk
<1> QED
  BY <1>1 DEF MarksIndexed

\* With one run where the program may be interrupted, a run begins without the marks of
\* an interrupted one.
LEMMA RestartUncancelled ==
  ASSUME CallsInv, IndexedInv, Interrupts => Sessions = 1, Restart
  PROVE  ~cancelled
<1>1. session < Sessions
  BY DEF Restart
<1>2. Sessions # 1
  BY <1>1, CallsParts, CrawlAssumption DEF RunTypes
<1> QED
  BY <1>2 DEF IndexedInv

LEMMA NextIndexed ==
  ASSUME CallsInv, IndexedInv, Faults = {}, Interrupts => Sessions = 1, [Next]_vars
  PROVE  IndexedInv'
<1>1. CASE \E th \in Threads : ScrapeStep(th)
  <2>1. UNCHANGED cancelled
    BY <1>1, ScrapeEffect
  <2>2. ~cancelled => MarksIndexed'
    BY <1>1, ScrapeIndexed DEF IndexedInv
  <2> QED
    BY <2>1, <2>2, Zenon DEF IndexedInv
<1>2. CASE \/ \E w \in Workers : TakeTask(w)
           \/ RunStep \/ DropTask \/ Cancel \/ Finished \/ UNCHANGED vars
  <2>1. UNCHANGED cancelled \/ (~cancelled /\ Interrupts /\ cancelled' = TRUE)
    BY <1>2 DEF TakeTask, RunStep, SubmitStart, Wait, SaveVisited, DropTask, Cancel, Finished, vars
  <2>2. MarksIndexed => MarksIndexed'
    BY <1>2, OtherIndexed
  <2>3. CASE UNCHANGED cancelled
    BY <2>2, <2>3, Zenon DEF IndexedInv
  <2>4. CASE Interrupts /\ cancelled' = TRUE
    BY <2>4 DEF IndexedInv
  <2> QED
    BY <2>1, <2>3, <2>4
<1>3. CASE Restart
  <2>1. cancelled' = FALSE
    BY <1>3 DEF Restart
  <2>2. MarksIndexed
    BY <1>3, RestartUncancelled DEF IndexedInv
  <2>3. MarksIndexed'
    BY <1>3, <2>2, RestartIndexed
  <2> QED
    BY <2>1, <2>3 DEF IndexedInv
<1> QED
  BY <1>1, <1>2, <1>3 DEF Next

LEMMA InitIndexed == Init => IndexedInv
BY DEF Init, IndexedInv, MarksIndexed

\* When Run is over no call works, and what is marked has been indexed.
LEMMA EndIndexed ==
  ASSUME CallsInv, IndexedInv
  PROVE  VisitedIsIndexed
<1> SUFFICES ASSUME mpc # "submit", ~cancelled, NEW k \in Keys, visited[k] # None
             PROVE  k \in docs
  BY DEF VisitedIsIndexed, Undisturbed
<1>1. \A th \in Threads : stack[th] = <<>>
  BY CallsParts DEF Idle
<1>2. ~Working(k)
  BY <1>1 DEF Working, Works, PcOf
<1>3. MarksIndexed
  BY DEF IndexedInv
<1> QED
  BY <1>2, <1>3 DEF MarksIndexed

\* When Run is over every page marked as visited has its document (VisitedIsIndexed):
\* without failures a call that set a mark goes on to HandleDocumentWords.  A crawl that
\* was interrupted leaves marks without documents to the runs after it, so that only one
\* run is assumed where there are interrupts.
THEOREM VisitedPagesAreIndexed ==
  ASSUME Interrupts => Sessions = 1
  PROVE  Spec => []VisitedIsIndexed
<1>1. CASE Faults = {}
  <2>1. CallsInv /\ IndexedInv /\ [Next]_vars => IndexedInv'
    BY <1>1, NextIndexed
  <2>2. CallsInv /\ IndexedInv => VisitedIsIndexed
    BY EndIndexed
  <2> QED
    BY <2>1, <2>2, CallsInvariant, InitIndexed, PTL DEF Spec
<1>2. CASE Faults # {}
  <2>1. CallsInv => VisitedIsIndexed
    BY <1>2 DEF VisitedIsIndexed, Undisturbed
  <2> QED
    BY <2>1, CallsInvariant, PTL
<1> QED
  BY <1>1, <1>2
-----------------------------------------------------------------------------
(* One worker goes through the web level by level *)

\* The spellings of a key are spellings of one page.
SpellingsAlike ==
  \A u, v \in URLs : Key[u] = Key[v] =>
    /\ Links[u] = Links[v] /\ (u \in Sitemaps <=> v \in Sitemaps)
    /\ \A l \in URLs : <<l, u>> \in SameOrigin <=> <<l, v>> \in SameOrigin

\* The pages that are crawled from one start URL have one origin, of its own.
StartsApart(origin) ==
  /\ \A n \in 0..(MaxDepth - 1), p \in Leads : p[1] \in Level[n] => origin[p[2]] = origin[p[1]]
  /\ \A i, j \in 1..Len(StartURLs) :
       i # j => origin[Key[StartURLs[i]]] # origin[Key[StartURLs[j]]]

Task(w) == Top(w).task

Queued == {queue[i] : i \in 1..Len(queue)}

Pending(w) == Queued \cup (IF PcOf(w) = "none" THEN {} ELSE {Task(w)})

\* The worker has one call at a time, without robots.txt rules, and Run has none.
Alone(w) ==
  /\ stack[Main] = <<>> /\ Len(stack[w]) <= 1
  /\ \A t \in Pending(w) : t.rules = None
  /\ mpc # "submit" => todo = <<>>

\* Task t may come after task s.
InTurn(origin, s, t) ==
  origin[Key[s.url]] = origin[Key[t.url]] => s.depth <= t.depth /\ t.depth <= s.depth + 1

InOrder(w, origin) ==
  /\ \A i, j \in 1..Len(queue) : i < j => InTurn(origin, queue[i], queue[j])
  /\ PcOf(w) # "none" => \A i \in 1..Len(queue) : InTurn(origin, Task(w), queue[i])

MarksFirst(w, origin) ==
  \A k \in Keys : \A t \in Pending(w) :
    visited[k] # None /\ origin[k] = origin[Key[t.url]] => visited[k] <= t.depth

\* Nothing of a start URL that has not been submitted is known.
Unknown(w, origin, s) ==
  /\ \A t \in Pending(w) : origin[Key[t.url]] # s
  /\ \A k \in Keys : visited[k] # None => origin[k] # s

TodoFresh(w, origin) ==
  \A i \in 1..Len(todo) :
    /\ Unknown(w, origin, origin[Key[todo[i]]])
    /\ \A j \in 1..Len(todo) : j # i => origin[Key[todo[i]]] # origin[Key[todo[j]]]

\* A page is never walked again: its first visit is the one at the least depth.
WalksOnce(w) ==
  /\ PcOf(w) \notin {"lookup", "bank"}
  /\ PcOf(w) \in {"fetch", "parse", "index", "save", "submit"} => visited[KeyOf(w)] = Task(w).depth

TurnsInv(w, origin) ==
  InOrder(w, origin) /\ MarksFirst(w, origin) /\ TodoFresh(w, origin) /\ WalksOnce(w)

\* The tasks whose page has yet to be marked.
Awaited(w) == Queued \cup (IF PcOf(w) \in {"enter", "rules", "visit"} THEN {Task(w)} ELSE {})

\* Page k has been visited at a depth of n or less, or will be.
Reached(w, k, n) ==
  \/ n >= MaxDepth \/ k \in Skipped
  \/ visited[k] # None /\ visited[k] <= n
  \/ \E t \in Awaited(w) : Key[t.url] = k /\ t.depth <= n

\* The links of the page that the worker is at with which it has yet to do.
FromHrefs(f, k) ==
  \E i \in 1..Len(f.hrefs) :
    /\ Key[f.hrefs[i]] = k
    /\ ~OnlySameDomain \/ <<f.hrefs[i], f.task.url>> \in SameOrigin

FromList(list, k) == \E i \in 1..Len(list) : Key[list[i].link] = k /\ Followed(list[i])

Coming(w, k) ==
  \/ PcOf(w) = "fetch"
  \/ PcOf(w) = "parse" /\ (FromHrefs(Top(w), k) \/ FromList(Top(w).deeper, k))
  \/ PcOf(w) \in {"parse", "index", "save", "submit"} /\ FromList(Top(w).links, k)

StartsReached(w) ==
  \A k \in StartKeys : Reached(w, k, 0) \/ \E i \in 1..Len(todo) : Key[todo[i]] = k

LinksReached(w) ==
  \A k, l \in Keys : visited[k] # None /\ <<k, l>> \in Leads =>
    Reached(w, l, visited[k] + 1) \/ (KeyOf(w) = k /\ Coming(w, l))

MarksPassed ==
  /\ \A k \in Keys : visited[k] # None => k \notin Skipped
  /\ \A k \in docs : visited[k] # None

CoverInv(w) == StartsReached(w) /\ LinksReached(w) /\ MarksPassed
-----------------------------------------------------------------------------
(* What the only worker does *)

Sequential(w) == Workers = {w} /\ Sessions = 1 /\ Faults = {}

Going(w) == Sequential(w) /\ CallsInv /\ LinksInv /\ Alone(w) /\ HasRoom /\ ~cancelled

\* The call goes on to another place.
Goes(w, from, to) ==
  /\ PcOf(w) = from /\ PcOf(w)' = to
  /\ Task(w)' = Task(w) /\ KeyOf(w)' = KeyOf(w) /\ Page(w)' = Page(w) /\ UNCHANGED todo

\* The call is over.
Dropped(w) ==
  /\ PcOf(w)' = "none" /\ UNCHANGED <<queue, todo, visited>>
  /\ \/ PcOf(w) = "enter" /\ Task(w).depth >= MaxDepth /\ UNCHANGED docs
     \/ PcOf(w) = "rules" /\ Page(w) \in Sitemaps /\ UNCHANGED docs
     \/ /\ PcOf(w) = "visit" /\ UNCHANGED docs
        /\ visited[KeyOf(w)] # None /\ visited[KeyOf(w)] <= Task(w).depth
     \/ PcOf(w) = "index" /\ Top(w).links = <<>> /\ docs' = docs \cup {KeyOf(w)}
     \/ /\ PcOf(w) = "submit" /\ UNCHANGED docs
        /\ \A i \in 1..Len(Top(w).links) : ~Followed(Top(w).links[i])

\* A link of the page has been parsed.
Parsed(w) ==
  /\ Top(w).hrefs # <<>> /\ Top(w)'.hrefs = Tail(Top(w).hrefs)
  /\ \/ Top(w)'.links = Append(Top(w).links, Token(w)) /\ Top(w)'.deeper = Top(w).deeper
     \/ Top(w)'.links = Top(w).links /\ Top(w)'.deeper = Append(Top(w).deeper, Token(w))
     \/ /\ Top(w)'.links = Top(w).links /\ Top(w)'.deeper = Top(w).deeper
        /\ visited[Key[Head(Top(w).hrefs)]] # None
        /\ visited[Key[Head(Top(w).hrefs)]] <= Task(w).depth

Moved(w) ==
  /\ UNCHANGED <<queue, visited>>
  /\ \/ Goes(w, "enter", "rules") /\ UNCHANGED docs
     \/ Goes(w, "rules", "visit") /\ Page(w) \notin Sitemaps /\ UNCHANGED docs
     \/ Goes(w, "fetch", "parse") /\ Top(w)'.hrefs = Links[Page(w)] /\ UNCHANGED docs
     \/ Goes(w, "parse", "parse") /\ Parsed(w) /\ UNCHANGED docs
     \/ /\ Goes(w, "parse", "index") /\ Top(w).hrefs = <<>> /\ UNCHANGED docs
        /\ Top(w)'.links = Top(w).links \o Top(w).deeper
     \/ Goes(w, "index", "save") /\ Top(w)'.links = Top(w).links /\ docs' = docs \cup {KeyOf(w)}
     \/ Goes(w, "save", "submit") /\ Top(w)'.links = Top(w).links /\ UNCHANGED docs

Marked(w) ==
  /\ Goes(w, "visit", "fetch") /\ UNCHANGED <<queue, docs>>
  /\ visited[KeyOf(w)] = None /\ visited' = [visited EXCEPT ![KeyOf(w)] = Task(w).depth]

Posted(w) ==
  /\ Goes(w, "submit", "submit") /\ UNCHANGED <<visited, docs>>
  /\ \E i \in 1..Len(Top(w).links) :
       /\ FollowedFirst(Top(w).links, i)
       /\ queue' = Append(queue, TaskFor(Top(w), Top(w).links[i]))
       /\ Top(w)'.links = SubSeq(Top(w).links, i + 1, Len(Top(w).links))

Took(w) ==
  /\ PcOf(w) = "none" /\ queue # <<>> /\ queue' = Tail(queue)
  /\ PcOf(w)' = "enter" /\ Task(w)' = Head(queue) /\ UNCHANGED <<todo, visited, docs>>

Started(w) ==
  /\ stack'[w] = stack[w] /\ UNCHANGED <<visited, docs>>
  /\ todo # <<>> /\ todo' = Tail(todo)
  /\ \E t \in Tasks : /\ t.url = Head(todo) /\ t.depth = 0 /\ t.rules = None
                      /\ queue' = Append(queue, t)

Rested(w) == stack'[w] = stack[w] /\ UNCHANGED <<queue, todo, visited, docs>>

LEMMA GoesTo ==
  ASSUME NEW w, Going(w), stack[w] # <<>>, NEW f, Goto(w, f)
  PROVE  /\ Top(w)' = f /\ PcOf(w)' = f.pc /\ Page(w)' = f.task.url
         /\ Task(w)' = f.task /\ KeyOf(w)' = Key[f.task.url]
         /\ queue' = queue /\ Len(stack'[w]) <= 1 /\ stack'[Main] = <<>>
<1>1. w \in Threads /\ Main \in Threads /\ Main # w /\ CallsInv
  BY CrawlAssumption DEF Going, Sequential, Threads
<1>2. /\ Top(w)' = f /\ PcOf(w)' = f.pc /\ Page(w)' = f.task.url
      /\ \A o \in Threads \ {w} : stack'[o] = stack[o]
  BY <1>1, GotoHead
<1>3. stack'[Main] = <<>>
  BY <1>1, <1>2 DEF Going, Alone
<1>4. Len(stack'[w]) <= 1
  <2>1. stack[w] \in Seq(OpenFrames) /\ Len(stack[w]) <= 1
    BY <1>1, CallsParts DEF Going, Alone
  <2>2. Tail(stack[w]) = <<>>
    BY <2>1, EmptySeq, HeadIsFirst
  <2>3. stack'[w] = <<f>> \o <<>>
    BY <1>1, <2>2, CallsParts DEF Goto
  <2> QED
    BY <2>3
<1> QED
  BY <1>2, <1>3, <1>4 DEF Goto, Task, KeyOf, Page

LEMMA GoneFrom ==
  ASSUME NEW w, Going(w), stack[w] # <<>>, Return(w)
  PROVE  PcOf(w)' = "none" /\ queue' = queue /\ stack'[w] = <<>> /\ stack'[Main] = <<>>
<1>1. w \in Threads /\ Main \in Threads /\ Main # w /\ CallsInv
  BY CrawlAssumption DEF Going, Sequential, Threads
<1>2. stack[w] \in Seq(OpenFrames) /\ Len(stack[w]) <= 1
  BY <1>1, CallsParts DEF Going, Alone
<1>3. Tail(stack[w]) = <<>>
  BY <1>2, EmptySeq, HeadIsFirst
<1>4. stack' = [stack EXCEPT ![w] = Tail(@)] /\ queue' = queue /\ stack \in [Threads -> Seq(OpenFrames)]
  BY <1>1, CallsParts DEF Return
<1> QED
  BY <1>1, <1>3, <1>4 DEF PcOf, Going, Alone

\* What is known of a call of the worker.
LEMMA AtWork ==
  ASSUME NEW w, Going(w), NEW from, At(w, from)
  PROVE  /\ w \in Threads /\ CallsInv /\ LinksInv /\ stack[w] # <<>> /\ PcOf(w) = from
         /\ Top(w).pc = from
         /\ Top(w) \in OpenFrames /\ Top(w) \in Frames /\ Page(w) = Task(w).url /\ Task(w) = Top(w).task
         /\ KeyOf(w) \in Keys /\ KeyOf(w) = Key[Page(w)] /\ Page(w) \in URLs
         /\ Task(w).depth \in Nat
         /\ Task(w).rules = None
<1>1. w \in Threads /\ CallsInv /\ LinksInv
  BY DEF Going, Sequential, Threads
<1>2. /\ stack[w] # <<>> /\ PcOf(w) = from /\ Top(w).pc = from
      /\ Top(w) \in OpenFrames /\ Page(w) \in URLs /\ KeyOf(w) \in Keys
  BY <1>1, StandsAt
<1>3. Top(w) \in Frames /\ Task(w).depth \in Nat
  BY <1>2, FrameTypes DEF Task
<1>4. Task(w) \in Pending(w)
  BY <1>2, FrameTypes DEF Pending, PcOf, OpenFrames, Frames
<1>5. Task(w).rules = None
  BY <1>4 DEF Going, Alone
<1> QED
  BY <1>1, <1>2, <1>3, <1>5 DEF Task, Page, KeyOf

\* A place is all that changes.
LEMMA GoesOnTo ==
  ASSUME NEW w, Going(w), NEW from, At(w, from), NEW to, Goto(w, [Top(w) EXCEPT !.pc = to]),
         UNCHANGED todo
  PROVE  Goes(w, from, to) /\ queue' = queue /\ Top(w)'.links = Top(w).links
<1>1. PICK f : f = [Top(w) EXCEPT !.pc = to]
  OBVIOUS
<1>2. f.pc = to /\ f.task = Top(w).task /\ f.links = Top(w).links
  BY <1>1, AtWork DEF Frames
<1>3. /\ Top(w)' = f /\ PcOf(w)' = f.pc /\ Page(w)' = f.task.url
      /\ Task(w)' = f.task /\ KeyOf(w)' = Key[f.task.url] /\ queue' = queue
  BY <1>1, AtWork, GoesTo
<1> QED
  BY <1>2, <1>3, AtWork DEF Goes

LEMMA EnterView ==
  ASSUME NEW w, Going(w), Enter(w)
  PROVE  Dropped(w) \/ Moved(w)
<1>1. /\ At(w, "enter") /\ UNCHANGED <<visited, lru, disk, run, cancelled, fetched>>
      /\ \/ (MayEnd \/ TooDeep(Task(w))) /\ Return(w)
         \/ Goto(w, [Top(w) EXCEPT !.pc = "rules"])
  BY DEF Enter, Task
<1>2. ~MayEnd /\ UNCHANGED <<docs, todo, visited>>
  BY <1>1 DEF MayEnd, Going, Sequential, disk, run
<1>3. CASE TooDeep(Task(w)) /\ Return(w)
  BY <1>1, <1>2, <1>3, AtWork, GoneFrom DEF Dropped, TooDeep
<1>4. CASE Goto(w, [Top(w) EXCEPT !.pc = "rules"])
  BY <1>1, <1>2, <1>4, GoesOnTo DEF Moved
<1> QED
  BY <1>1, <1>2, <1>3, <1>4

LEMMA FetchRulesView ==
  ASSUME NEW w, Going(w), FetchRules(w)
  PROVE  Dropped(w) \/ Moved(w)
<1>1. /\ At(w, "rules") /\ UNCHANGED <<visited, lru, disk, run, cancelled, fetched>>
      /\ \/ (Page(w) \in Sitemaps \/ MayEnd) /\ Return(w)
         \/ (Page(w) \notin Sitemaps \/ "fetch" \in Faults) /\ Goto(w, [Top(w) EXCEPT !.pc = "visit"])
  BY DEF FetchRules
<1>2. ~MayEnd /\ "fetch" \notin Faults /\ UNCHANGED <<docs, todo, visited>>
  BY <1>1 DEF MayEnd, Going, Sequential, disk, run
<1>3. CASE Page(w) \in Sitemaps /\ Return(w)
  BY <1>1, <1>2, <1>3, AtWork, GoneFrom DEF Dropped
<1>4. CASE Page(w) \notin Sitemaps /\ Goto(w, [Top(w) EXCEPT !.pc = "visit"])
  BY <1>1, <1>2, <1>4, GoesOnTo DEF Moved
<1> QED
  BY <1>1, <1>2, <1>3, <1>4

\* A mark is never ahead of the task that comes to its page.
LEMMA MarkIsFirst ==
  ASSUME NEW w, NEW origin, Going(w), MarksFirst(w, origin), NEW from, At(w, from), visited[KeyOf(w)] # None
  PROVE  visited[KeyOf(w)] <= Task(w).depth /\ visited[KeyOf(w)] \in Nat
<1>1. /\ KeyOf(w) \in Keys /\ KeyOf(w) = Key[Task(w).url] /\ PcOf(w) = from /\ from \in {f.pc : f \in Frames}
      /\ CallsInv
  BY AtWork
<1>2. Task(w) \in Pending(w)
  BY <1>1 DEF Pending, Frames
<1>3. visited[KeyOf(w)] \in Nat
  BY <1>1, CallsParts, CrawlAssumption DEF MemoryTypes
<1> QED
  BY <1>1, <1>2, <1>3 DEF MarksFirst

LEMMA VisitView ==
  ASSUME NEW w, NEW origin, Going(w), MarksFirst(w, origin), Visit(w)
  PROVE  Dropped(w) \/ Marked(w)
<1>1. /\ At(w, "visit") /\ UNCHANGED <<lru, rlMap, disk, run, cancelled, fetched>>
      /\ visited' = [visited EXCEPT ![KeyOf(w)] = LoadOrStore(KeyOf(w), Task(w).depth)]
      /\ \/ visited[KeyOf(w)] = None /\ Goto(w, [Top(w) EXCEPT !.pc = "fetch"])
         \/ visited[KeyOf(w)] # None /\ visited[KeyOf(w)] <= Task(w).depth /\ Return(w)
         \/ visited[KeyOf(w)] # None /\ visited[KeyOf(w)] > Task(w).depth
  BY DEF Visit, Fresh, KeyOf, Task
<1>2. UNCHANGED <<docs, todo>>
  BY <1>1 DEF disk, run
<1>3. CASE visited[KeyOf(w)] = None /\ Goto(w, [Top(w) EXCEPT !.pc = "fetch"])
  BY <1>1, <1>2, <1>3, GoesOnTo DEF Marked, LoadOrStore
<1>4. CASE visited[KeyOf(w)] # None /\ visited[KeyOf(w)] <= Task(w).depth /\ Return(w)
  <2>1. visited' = visited
    BY <1>1, <1>4, AtWork, CallsParts DEF LoadOrStore, MemoryTypes
  <2> QED
    BY <1>1, <1>2, <1>4, <2>1, AtWork, GoneFrom DEF Dropped
<1>5. CASE visited[KeyOf(w)] # None /\ visited[KeyOf(w)] > Task(w).depth
  <2>1. visited[KeyOf(w)] <= Task(w).depth /\ visited[KeyOf(w)] \in Nat /\ Task(w).depth \in Nat
    BY <1>1, <1>5, AtWork, MarkIsFirst
  <2> QED
    BY <1>5, <2>1
<1> QED
  BY <1>1, <1>3, <1>4, <1>5

LEMMA FetchView ==
  ASSUME NEW w, Going(w), Fetch(w)
  PROVE  Moved(w)
<1>1. /\ At(w, "fetch") /\ UNCHANGED <<memory, disk, run, cancelled>>
      /\ \/ May("fetch") /\ Return(w)
         \/ Goto(w, [Top(w) EXCEPT !.pc = "parse", !.hrefs = Links[Page(w)]])
  BY DEF Fetch
<1>2. ~May("fetch") /\ UNCHANGED <<docs, todo, visited>>
  BY <1>1 DEF May, Going, Sequential, disk, run, memory
<1>3. PICK f : f = [Top(w) EXCEPT !.pc = "parse", !.hrefs = Links[Page(w)]]
  OBVIOUS
<1>4. f.pc = "parse" /\ f.task = Top(w).task /\ f.hrefs = Links[Page(w)]
  <2>1. At(w, "fetch")
    BY <1>1
  <2>2. Top(w) \in Frames
    BY <2>1, AtWork
  <2>3. f \in [task : {Top(w).task}, pc : {"parse"}, hrefs : {Links[Page(w)]},
               links : {Top(w).links}, deeper : {Top(w).deeper}]
    BY <1>3, <2>2 DEF Frames
  <2> QED
    BY <2>3
<1>5. /\ Top(w)' = f /\ PcOf(w)' = f.pc /\ Page(w)' = f.task.url
      /\ Task(w)' = f.task /\ KeyOf(w)' = Key[f.task.url] /\ queue' = queue
  <2>1. Goto(w, f)
    BY <1>1, <1>2, <1>3
  <2>2. stack[w] # <<>>
    BY <1>1 DEF At
  <2> QED
    BY <2>1, <2>2, GoesTo
<1>6. Goes(w, "fetch", "parse") /\ Top(w)'.hrefs = Links[Page(w)]
  BY <1>1, <1>2, <1>4, <1>5, AtWork DEF Goes
<1> QED
  BY <1>2, <1>5, <1>6 DEF Moved

LEMMA ParseLinkView ==
  ASSUME NEW w, Going(w), ParseLink(w)
  PROVE  Moved(w)
<1>1. /\ At(w, "parse") /\ Top(w).hrefs # <<>> /\ UNCHANGED <<memory, disk, run, cancelled, fetched>>
  BY DEF ParseLink
<1>2. UNCHANGED <<docs, todo, visited>>
  BY <1>1 DEF disk, run, memory
<1> DEFINE rest == [Top(w) EXCEPT !.hrefs = Tail(@)]
           seen == visited[Key[Head(Top(w).hrefs)]]
<1>3. \/ Goto(w, [rest EXCEPT !.links = Append(@, Token(w))])
      \/ Goto(w, [rest EXCEPT !.deeper = Append(@, Token(w))])
      \/ Goto(w, rest) /\ seen # None /\ seen <= Task(w).depth
  <2>1. Top(w).task.rules = None
    BY <1>1, AtWork DEF Task
  <2> QED
    BY <2>1 DEF ParseLink, Token, Task
<1>4. rest \in [task : {Top(w).task}, pc : {"parse"}, hrefs : {Tail(Top(w).hrefs)},
                links : {Top(w).links}, deeper : {Top(w).deeper}]
  BY <1>1, AtWork DEF Frames
<1>5. PICK rst : rst = rest
  OBVIOUS
<1>6. PICK seenAt : seenAt = seen
  OBVIOUS
<1> HIDE DEF rest, seen
<1>7. ASSUME NEW f, Goto(w, f), f.task = Top(w).task, f.pc = "parse"
      PROVE  Goes(w, "parse", "parse") /\ queue' = queue /\ Top(w)' = f
  <2>1. /\ Top(w)' = f /\ PcOf(w)' = f.pc /\ Page(w)' = f.task.url
        /\ Task(w)' = f.task /\ KeyOf(w)' = Key[f.task.url] /\ queue' = queue
    BY <1>1, <1>7, AtWork, GoesTo
  <2> QED
    BY <1>1, <1>2, <1>7, <2>1, AtWork DEF Goes
<1>8. CASE Goto(w, [rst EXCEPT !.links = Append(@, Token(w))])
  <2>1. PICK f : f = [rst EXCEPT !.links = Append(@, Token(w))]
    OBVIOUS
  <2>2. /\ f.task = Top(w).task /\ f.pc = "parse" /\ f.hrefs = Tail(Top(w).hrefs)
        /\ f.links = Append(Top(w).links, Token(w)) /\ f.deeper = Top(w).deeper
    BY <1>4, <1>5, <2>1
  <2>3. Goes(w, "parse", "parse") /\ queue' = queue /\ Top(w)' = f
    BY <1>7, <1>8, <2>1, <2>2
  <2> QED
    BY <1>1, <1>2, <2>2, <2>3 DEF Moved, Parsed
<1>9. CASE Goto(w, [rst EXCEPT !.deeper = Append(@, Token(w))])
  <2>1. PICK f : f = [rst EXCEPT !.deeper = Append(@, Token(w))]
    OBVIOUS
  <2>2. /\ f.task = Top(w).task /\ f.pc = "parse" /\ f.hrefs = Tail(Top(w).hrefs)
        /\ f.deeper = Append(Top(w).deeper, Token(w)) /\ f.links = Top(w).links
    BY <1>4, <1>5, <2>1
  <2>3. Goes(w, "parse", "parse") /\ queue' = queue /\ Top(w)' = f
    BY <1>7, <1>9, <2>1, <2>2
  <2> QED
    BY <1>1, <1>2, <2>2, <2>3 DEF Moved, Parsed
<1>10. CASE Goto(w, rst) /\ seen # None /\ seen <= Task(w).depth
  <2>1. Goes(w, "parse", "parse") /\ queue' = queue /\ Top(w)' = rst
    BY <1>4, <1>5, <1>7, <1>10
  <2> QED
    BY <1>1, <1>2, <1>4, <1>5, <1>10, <2>1 DEF Moved, Parsed, seen
<1> QED
  BY <1>3, <1>5, <1>8, <1>9, <1>10

LEMMA EndParseView ==
  ASSUME NEW w, Going(w), EndParse(w)
  PROVE  Moved(w)
<1>1. /\ At(w, "parse") /\ UNCHANGED <<visited, rlMap, disk, run, cancelled, fetched>>
      /\ Top(w).hrefs = <<>> \/ MayEnd
      /\ Goto(w, [Top(w) EXCEPT !.pc = "index", !.hrefs = <<>>,
                                !.links = Top(w).links \o Top(w).deeper, !.deeper = <<>>])
  BY DEF EndParse, AfterParse
<1>2. ~MayEnd /\ UNCHANGED <<docs, todo, visited>>
  BY <1>1 DEF MayEnd, Going, Sequential, disk, run
<1>3. PICK l : l = Top(w).links \o Top(w).deeper
  OBVIOUS
<1>4. PICK f : f = [Top(w) EXCEPT !.pc = "index", !.hrefs = <<>>, !.links = l, !.deeper = <<>>]
  OBVIOUS
<1>5. f.pc = "index" /\ f.task = Top(w).task /\ f.links = l
  <2>1. At(w, "parse")
    BY <1>1
  <2>2. Top(w) \in Frames
    BY <2>1, AtWork
  <2>3. f \in [task : {Top(w).task}, pc : {"index"}, hrefs : {<<>>}, links : {l}, deeper : {<<>>}]
    BY <1>4, <2>2 DEF Frames
  <2> QED
    BY <2>3
<1>6. /\ Top(w)' = f /\ PcOf(w)' = f.pc /\ Page(w)' = f.task.url
      /\ Task(w)' = f.task /\ KeyOf(w)' = Key[f.task.url] /\ queue' = queue
  <2>1. Goto(w, f)
    BY <1>1, <1>3, <1>4
  <2>2. stack[w] # <<>>
    BY <1>1 DEF At
  <2> QED
    BY <2>1, <2>2, GoesTo
<1>7. Goes(w, "parse", "index")
  BY <1>1, <1>2, <1>5, <1>6, AtWork DEF Goes
<1> QED
  BY <1>1, <1>2, <1>3, <1>5, <1>6, <1>7 DEF Moved

LEMMA IndexView ==
  ASSUME NEW w, Going(w), Index(w)
  PROVE  Dropped(w) \/ Moved(w)
<1>1. /\ At(w, "index") /\ UNCHANGED <<memory, bank, saved, run, cancelled, fetched>>
      /\ \/ /\ docs' = docs \cup {KeyOf(w)}
            /\ \/ Top(w).links = <<>> /\ Return(w)
               \/ Goto(w, [Top(w) EXCEPT !.pc = "save"])
         \/ May("index") \/ May("vector")
  BY DEF Index, KeyOf, May
<1>2. ~May("index") /\ ~May("vector") /\ UNCHANGED <<todo, visited>>
  BY <1>1 DEF May, Going, Sequential, memory, run
<1>3. CASE Top(w).links = <<>> /\ Return(w)
  BY <1>1, <1>2, <1>3, AtWork, GoneFrom DEF Dropped
<1>4. CASE Goto(w, [Top(w) EXCEPT !.pc = "save"])
  BY <1>1, <1>2, <1>4, GoesOnTo DEF Moved
<1> QED
  BY <1>1, <1>2, <1>3, <1>4

LEMMA SaveLinksView ==
  ASSUME NEW w, Going(w), SaveLinks(w)
  PROVE  Moved(w)
<1>1. /\ At(w, "save") /\ UNCHANGED <<memory, docs, saved, run, cancelled, fetched>>
      /\ Goto(w, Submitting(Top(w), Top(w).links)) \/ "bank" \in Faults
  BY DEF SaveLinks
<1>2. "bank" \notin Faults /\ UNCHANGED <<docs, todo, visited>>
  BY <1>1 DEF Going, Sequential, memory, run
<1>3. PICK f : f = Submitting(Top(w), Top(w).links)
  OBVIOUS
<1>4. f.pc = "submit" /\ f.task = Top(w).task /\ f.links = Top(w).links
  BY <1>1, <1>3, AtWork DEF Frames, Submitting
<1>5. /\ Top(w)' = f /\ PcOf(w)' = f.pc /\ Page(w)' = f.task.url
      /\ Task(w)' = f.task /\ KeyOf(w)' = Key[f.task.url] /\ queue' = queue
  BY <1>1, <1>2, <1>3, AtWork, GoesTo
<1>6. Goes(w, "save", "submit")
  BY <1>1, <1>2, <1>4, <1>5, AtWork DEF Goes
<1> QED
  BY <1>2, <1>4, <1>5, <1>6 DEF Moved

\* There is room in the queue, so that the call goes on.
LEMMA SubmitLinkView ==
  ASSUME NEW w, Going(w), SubmitLink(w)
  PROVE  Posted(w)
<1>1. At(w, "submit") /\ UNCHANGED <<memory, disk, run, cancelled, fetched>>
  BY DEF SubmitLink
<1>2. UNCHANGED <<docs, todo, visited>>
  BY <1>1 DEF disk, run, memory
<1>3. PICK i \in 1..Len(Top(w).links) :
        /\ FollowedFirst(Top(w).links, i)
        /\ Submit(w, TaskFor(Top(w), Top(w).links[i]), <<After(Top(w), i)>> \o Tail(stack[w]))
  BY DEF SubmitLink, After
<1>4. PICK f : f = After(Top(w), i)
  OBVIOUS
<1>5. /\ queue' = Append(queue, TaskFor(Top(w), Top(w).links[i]))
      /\ stack' = [stack EXCEPT ![w] = <<f>> \o Tail(stack[w])]
  BY <1>3, <1>4 DEF Submit, Going
<1>6. /\ f.pc = "submit" /\ f.task = Top(w).task
      /\ f.links = SubSeq(Top(w).links, i + 1, Len(Top(w).links))
  BY <1>1, <1>4, AtWork DEF Frames, After
<1>7. Top(w)' = f /\ PcOf(w)' = f.pc
  <2>1. stack'[w] # <<>> /\ Head(stack'[w]) = f
    BY <1>1, <1>5, AtWork, CallsParts, ReplacedHead
  <2> QED
    BY <2>1 DEF Top, PcOf
<1>8. Goes(w, "submit", "submit")
  BY <1>1, <1>2, <1>6, <1>7, AtWork DEF Goes, Task, KeyOf, Page
<1> QED
  BY <1>2, <1>3, <1>5, <1>6, <1>7, <1>8 DEF Posted

LEMMA SubmittedAllView ==
  ASSUME NEW w, Going(w), SubmittedAll(w)
  PROVE  Dropped(w)
<1>1. /\ At(w, "submit") /\ Return(w) /\ UNCHANGED <<memory, disk, run, cancelled, fetched>>
      /\ \A i \in 1..Len(Top(w).links) : ~Followed(Top(w).links[i])
  BY DEF SubmittedAll
<1>2. UNCHANGED <<docs, todo, visited>>
  BY <1>1 DEF disk, run, memory
<1> QED
  BY <1>1, <1>2, AtWork, GoneFrom DEF Dropped

\* A step of a call, all of which are the worker's.
LEMMA ScrapeView ==
  ASSUME NEW w, NEW origin, Going(w), TurnsInv(w, origin), NEW th \in Threads, ScrapeStep(th)
  PROVE  th = w /\ (Dropped(w) \/ Moved(w) \/ Marked(w) \/ Posted(w))
<1>1. PICK from : At(th, from)
  BY DEF ScrapeStep, Enter, FetchRules, Visit, LookupCache, LookupBank, Fetch, ParseLink,
         EndParse, Index, Abandon, SaveLinks, SubmitLink, SubmittedAll
<1>2. th # Main
  BY <1>1 DEF At, Going, Alone
<1>3. th = w
  BY <1>2 DEF Going, Sequential, Threads
<1>4. ~LookupCache(w) /\ ~LookupBank(w) /\ ~Abandon(w)
  <2>1. PcOf(w) \notin {"lookup", "bank"}
    BY DEF TurnsInv, WalksOnce
  <2> QED
    BY <2>1, AtWork DEF LookupCache, LookupBank, Abandon, Going
<1>5. MarksFirst(w, origin)
  BY DEF TurnsInv
<1> QED
  BY <1>3, <1>4, <1>5, EnterView, FetchRulesView, VisitView, FetchView, ParseLinkView, EndParseView,
     IndexView, SaveLinksView, SubmitLinkView, SubmittedAllView DEF ScrapeStep

LEMMA TakeTaskView ==
  ASSUME NEW w, Going(w), NEW v \in Workers, TakeTask(v)
  PROVE  v = w /\ Took(w)
<1>1. v = w /\ w \in Threads /\ CallsInv
  BY DEF Going, Sequential, Threads
<1>2. /\ stack[w] = <<>> /\ queue # <<>> /\ queue' = Tail(queue)
      /\ stack' = [stack EXCEPT ![w] = <<Call(Head(queue))>>]
      /\ UNCHANGED <<visited, docs, todo>>
  BY <1>1 DEF TakeTask, MayTake, memory, disk, run
<1>3. Top(w)' = Call(Head(queue)) /\ stack'[w] # <<>>
  BY <1>1, <1>2, CallsParts DEF Top
<1>4. Call(Head(queue)).pc = "enter" /\ Call(Head(queue)).task = Head(queue)
  BY DEF Call
<1> QED
  BY <1>1, <1>2, <1>3, <1>4 DEF Took, PcOf, Task

LEMMA SubmitStartView ==
  ASSUME NEW w, Going(w), SubmitStart
  PROVE  Started(w) /\ stack' = stack
<1>1. /\ mpc = "submit" /\ stack[Main] = <<>> /\ todo # <<>> /\ todo' = Tail(todo)
      /\ UNCHANGED <<memory, disk, mpc, session, cancelled, fetched>>
      /\ Submit(Main, [url |-> Head(todo), depth |-> 0, rules |-> None, first |-> TRUE], <<>>)
  BY DEF SubmitStart
<1>2. PICK t : t = [url |-> Head(todo), depth |-> 0, rules |-> None, first |-> TRUE]
  OBVIOUS
<1>3. t \in Tasks /\ t.url = Head(todo) /\ t.depth = 0 /\ t.rules = None
  <2>1. Head(todo) \in URLs
    BY <1>1, HeadIsFirst, CallsParts DEF Going, RunTypes
  <2> QED
    BY <1>2, <2>1, CrawlAssumption DEF Tasks, Depths
<1>4. queue' = Append(queue, t) /\ stack' = [stack EXCEPT ![Main] = <<>>]
  BY <1>1, <1>2 DEF Submit, Going
<1>5. stack' = stack
  BY <1>1, <1>4, CallsParts DEF Going
<1> QED
  BY <1>1, <1>3, <1>4, <1>5 DEF Started, memory, disk

\* The other steps leave the crawl alone, or interrupt it; with one session there is no
\* restart.
LEMMA RestView ==
  ASSUME NEW w, Going(w), Wait \/ SaveVisited \/ DropTask \/ Cancel \/ Restart \/ Finished \/ UNCHANGED vars
  PROVE  cancelled' \/ (Rested(w) /\ stack' = stack)
<1>1. ~DropTask
  BY DEF DropTask, Going
<1>2. ~Restart
  BY CallsParts DEF Restart, Going, Sequential, RunTypes
<1>3. CASE Cancel
  BY <1>3 DEF Cancel
<1>4. CASE Wait \/ SaveVisited \/ Finished \/ UNCHANGED vars
  BY <1>4 DEF Wait, SaveVisited, Finished, vars, memory, disk, pool, run, Rested
<1> QED
  BY <1>1, <1>2, <1>3, <1>4

Step(w) ==
  Dropped(w) \/ Moved(w) \/ Marked(w) \/ Posted(w) \/ Took(w) \/ Started(w) \/ Rested(w)

LEMMA StepView ==
  ASSUME NEW w, NEW origin, Going(w), TurnsInv(w, origin), [Next]_vars
  PROVE  cancelled' \/ Step(w)
<1>1. CASE \E th \in Threads : ScrapeStep(th)
  BY <1>1, ScrapeView DEF Step
<1>2. CASE \E v \in Workers : TakeTask(v)
  BY <1>2, TakeTaskView DEF Step
<1>3. CASE SubmitStart
  BY <1>3, SubmitStartView DEF Step
<1>4. CASE Wait \/ SaveVisited \/ DropTask \/ Cancel \/ Restart \/ Finished \/ UNCHANGED vars
  BY <1>4, RestView DEF Step
<1> QED
  BY <1>1, <1>2, <1>3, <1>4 DEF Next, RunStep
-----------------------------------------------------------------------------
(* Alone: the worker stays the only one, with one call *)

LEMMA ScrapeAlone ==
  ASSUME NEW w, Going(w), ScrapeStep(w)
  PROVE  /\ stack'[Main] = <<>> /\ Len(stack'[w]) <= 1
         /\ UNCHANGED <<mpc, todo>>
<1>1. PICK from : At(w, from)
  BY DEF ScrapeStep, Enter, FetchRules, Visit, LookupCache, LookupBank, Fetch, ParseLink,
         EndParse, Index, Abandon, SaveLinks, SubmitLink, SubmittedAll
<1>2. stack[w] # <<>> /\ w \in Threads /\ CallsInv
  BY <1>1, AtWork
<1>3. UNCHANGED run
  BY DEF ScrapeStep, Enter, FetchRules, Visit, LookupCache, LookupBank, Fetch, ParseLink,
         EndParse, Index, Abandon, SaveLinks, SubmitLink, SubmittedAll
<1>4. CASE \E f : Goto(w, f)
  BY <1>2, <1>3, <1>4, GoesTo DEF run
<1>5. CASE Return(w)
  <2>1. stack'[w] = <<>> /\ stack'[Main] = <<>>
    BY <1>2, <1>5, GoneFrom
  <2> QED
    BY <1>3, <2>1 DEF run
<1>6. CASE SubmitLink(w)
  <2>1. PICK f : stack' = [stack EXCEPT ![w] = <<f>> \o Tail(stack[w])]
    BY <1>6 DEF SubmitLink, Submit, Going
  <2>3. stack \in [Threads -> Seq(OpenFrames)] /\ Main \in Threads /\ Main # w
    BY <1>2, CallsParts, CrawlAssumption DEF Threads, Going, Sequential
  <2>4. stack'[Main] = <<>> /\ stack'[w] = <<f>> \o Tail(stack[w])
    BY <1>2, <2>1, <2>3 DEF Going, Alone
  <2>5. Tail(stack[w]) = <<>>
    BY <1>2, <2>3, EmptySeq, HeadIsFirst DEF Going, Alone
  <2>6. stack'[w] = <<f>> \o <<>>
    BY <2>4, <2>5
  <2>7. Len(stack'[w]) <= 1
    BY <2>6
  <2> QED
    BY <1>3, <2>4, <2>7 DEF run
<1>7. ASSUME ~SubmitLink(w) PROVE Return(w) \/ \E f : Goto(w, f)
  <2>1. CASE Enter(w) \/ FetchRules(w)
    BY <2>1 DEF Enter, FetchRules
  <2>2. CASE Visit(w) \/ LookupCache(w) \/ LookupBank(w)
    BY <2>2 DEF Visit, LookupCache, LookupBank
  <2>3. CASE Fetch(w) \/ EndParse(w)
    BY <2>3 DEF Fetch, EndParse
  <2>4. CASE ParseLink(w)
    BY <2>4 DEF ParseLink
  <2>5. CASE Index(w)
    BY <2>5 DEF Index
  <2>6. CASE Abandon(w) \/ SaveLinks(w) \/ SubmittedAll(w)
    BY <2>6 DEF Abandon, SaveLinks, SubmittedAll
  <2> QED
    BY <1>7, <2>1, <2>2, <2>3, <2>4, <2>5, <2>6 DEF ScrapeStep
<1> QED
  BY <1>4, <1>5, <1>6, <1>7

\* A task that the worker has just made of a link of its page.
Child(w, t) ==
  /\ PcOf(w) = "submit"
  /\ \E i \in 1..Len(Top(w).links) :
       /\ FollowedFirst(Top(w).links, i) /\ Top(w).links[i] \in Tokens
       /\ t = TaskFor(Top(w), Top(w).links[i])

\* A task that Run has just made of a start URL.
OfStart(t) == todo # <<>> /\ t.url = Head(todo) /\ t.depth = 0 /\ t.rules = None

\* The tasks of the queue after a step.
Added(w, t) == queue' = Append(queue, t) /\ t \in Tasks

LEMMA AddedLast ==
  ASSUME NEW w, Going(w), NEW t, Added(w, t)
  PROVE  /\ Len(queue') = Len(queue) + 1 /\ Len(queue) \in Nat
         /\ \A i \in 1..Len(queue) : queue'[i] = queue[i]
         /\ queue'[Len(queue) + 1] = t
         /\ Queued' = Queued \cup {t}
<1>1. queue \in Seq(Tasks)
  BY CallsParts DEF Going, PoolTypes
<1>2. /\ Len(queue') = Len(queue) + 1 /\ Len(queue) \in Nat
      /\ \A i \in 1..Len(queue) : queue'[i] = queue[i]
      /\ queue'[Len(queue) + 1] = t
  BY <1>1 DEF Added
<1>3. Queued' = Queued \cup {t}
  BY <1>2 DEF Queued
<1> QED
  BY <1>2, <1>3

LEMMA TookFirst ==
  ASSUME NEW w, Going(w), Took(w)
  PROVE  /\ Len(queue) \in Nat \ {0} /\ Len(queue') = Len(queue) - 1
         /\ \A i \in 1..Len(queue') : queue'[i] = queue[i + 1] /\ i + 1 \in 1..Len(queue)
         /\ Task(w)' = queue[1] /\ 1 \in 1..Len(queue)
         /\ Pending(w)' = Pending(w) /\ Queued = Queued' \cup {Task(w)'}
<1>1. queue \in Seq(Tasks) /\ queue # <<>> /\ queue' = Tail(queue) /\ Task(w)' = Head(queue)
  BY CallsParts DEF Going, PoolTypes, Took
<1>2. /\ Len(queue) \in Nat \ {0} /\ Len(queue') = Len(queue) - 1
      /\ \A i \in 1..Len(queue') : queue'[i] = queue[i + 1] /\ i + 1 \in 1..Len(queue)
      /\ Task(w)' = queue[1] /\ 1 \in 1..Len(queue)
  BY <1>1, HeadIsFirst
<1>3. Queued = Queued' \cup {Task(w)'}
  <2>1. \A t \in Queued : t \in Queued' \/ t = Task(w)'
    <3> SUFFICES ASSUME NEW i \in 1..Len(queue), i # 1 PROVE queue[i] \in Queued'
      BY <1>2 DEF Queued
    <3>1. i - 1 \in 1..Len(queue') /\ (i - 1) + 1 = i
      BY <1>2
    <3> QED
      BY <1>2, <3>1 DEF Queued
  <2>2. \A t \in Queued' : t \in Queued
    BY <1>2 DEF Queued
  <2>3. Task(w)' \in Queued
    BY <1>2 DEF Queued
  <2> QED
    BY <2>1, <2>2, <2>3
<1>4. PcOf(w) = "none" /\ PcOf(w)' = "enter"
  BY DEF Took
<1> QED
  BY <1>2, <1>3, <1>4 DEF Pending

LEMMA PostedChild ==
  ASSUME NEW w, Going(w), Posted(w)
  PROVE  \E t : Child(w, t) /\ Added(w, t)
<1>1. /\ PcOf(w) = "submit" /\ At(w, "submit")
  BY DEF Posted, Goes, PcOf, At, Top
<1>2. PICK i \in 1..Len(Top(w).links) :
        /\ FollowedFirst(Top(w).links, i)
        /\ queue' = Append(queue, TaskFor(Top(w), Top(w).links[i]))
  BY DEF Posted
<1>3. TaskFor(Top(w), Top(w).links[i]) \in Tasks /\ Top(w).links[i] \in Tokens
  BY <1>1, AtWork, AfterTypes
<1> QED
  BY <1>1, <1>2, <1>3 DEF Child, Added

LEMMA StartedTask ==
  ASSUME NEW w, Started(w)
  PROVE  \E t : OfStart(t) /\ Added(w, t)
BY DEF Started, OfStart, Added

LEMMA SameCall ==
  ASSUME NEW w, stack'[w] = stack[w]
  PROVE  /\ PcOf(w)' = PcOf(w) /\ Top(w)' = Top(w) /\ Page(w)' = Page(w)
         /\ Task(w)' = Task(w) /\ KeyOf(w)' = KeyOf(w)
BY DEF PcOf, Top, Page, Task, KeyOf

LEMMA StillAtIt ==
  ASSUME NEW w, Moved(w) \/ Marked(w) \/ Posted(w)
  PROVE  /\ PcOf(w) # "none" /\ PcOf(w)' # "none"
         /\ Task(w)' = Task(w) /\ KeyOf(w)' = KeyOf(w) /\ Page(w)' = Page(w) /\ todo' = todo
BY DEF Moved, Marked, Posted, Goes

LEMMA PendingGrows ==
  ASSUME NEW w, Going(w), Step(w)
  PROVE  \A t \in Pending(w)' : t \in Pending(w) \/ Child(w, t) \/ OfStart(t)
<1>1. CASE queue' = queue /\ PcOf(w)' = "none"
  BY <1>1 DEF Pending, Queued
<1>2. CASE queue' = queue /\ PcOf(w) = PcOf(w)' /\ Task(w)' = Task(w)
  BY <1>2 DEF Pending, Queued
<1>3. CASE queue' = queue /\ PcOf(w) # "none" /\ Task(w)' = Task(w)
  BY <1>3 DEF Pending, Queued
<1>4. CASE Moved(w) \/ Marked(w)
  <2>1. queue' = queue
    BY <1>4 DEF Moved, Marked
  <2> QED
    BY <1>3, <1>4, <2>1, StillAtIt
<1>5. CASE Dropped(w)
  BY <1>1, <1>5 DEF Dropped
<1>6. CASE Posted(w)
  <2>1. PICK t : Child(w, t) /\ Added(w, t)
    BY <1>6, PostedChild
  <2>2. Queued' = Queued \cup {t}
    BY <2>1, AddedLast
  <2> QED
    BY <1>6, <2>1, <2>2, StillAtIt DEF Pending
<1>7. CASE Took(w)
  BY <1>7, TookFirst
<1>8. CASE Started(w)
  <2>1. PICK t : OfStart(t) /\ Added(w, t)
    BY <1>8, StartedTask
  <2>2. Queued' = Queued \cup {t}
    BY <2>1, AddedLast
  <2>3. stack'[w] = stack[w]
    BY <1>8 DEF Started
  <2> QED
    BY <2>1, <2>2, <2>3, SameCall DEF Pending
<1>9. CASE Rested(w)
  BY <1>2, <1>9, SameCall DEF Rested
<1> QED
  BY <1>4, <1>5, <1>6, <1>7, <1>8, <1>9 DEF Step

LEMMA AloneStays ==
  ASSUME NEW w, NEW origin, Going(w), TurnsInv(w, origin), [Next]_vars, ~cancelled'
  PROVE  Alone(w)'
<1>1. Step(w)
  BY StepView
<1>2. ASSUME NEW t \in Pending(w)' PROVE t.rules = None
  <2>1. CASE t \in Pending(w)
    BY <2>1 DEF Going, Alone
  <2>2. CASE Child(w, t)
    <3>1. At(w, "submit")
      BY <2>2 DEF Child, PcOf, At, Top
    <3>2. Top(w).task.rules = None
      BY <3>1, AtWork DEF Task
    <3> QED
      BY <2>2, <3>2 DEF Child, TaskFor
  <2> QED
    BY <1>1, <1>2, <2>1, <2>2, PendingGrows DEF OfStart
<1>3. stack'[Main] = <<>> /\ Len(stack'[w]) <= 1 /\ (mpc' # "submit" => todo' = <<>>)
  <2>1. Alone(w)
    BY DEF Going
  <2>2. CASE \E th \in Threads : ScrapeStep(th)
    <3>1. ScrapeStep(w)
      BY <2>2, ScrapeView
    <3> QED
      BY <2>1, <3>1, ScrapeAlone DEF Alone
  <2>3. CASE \E v \in Workers : TakeTask(v)
    <3>1. TakeTask(w) /\ w \in Threads /\ Main # w /\ CallsInv
      BY <2>3, CrawlAssumption DEF Going, Sequential, Threads
    <3>2. stack' = [stack EXCEPT ![w] = <<Call(Head(queue))>>] /\ UNCHANGED <<mpc, todo>>
      BY <3>1 DEF TakeTask, run
    <3>3. stack'[Main] = stack[Main] /\ stack'[w] = <<Call(Head(queue))>>
      BY <3>1, <3>2, CallsParts, CrawlAssumption DEF Threads
    <3> QED
      BY <2>1, <3>2, <3>3 DEF Alone
  <2>4. CASE SubmitStart
    <3>1. stack' = stack /\ mpc' = "submit"
      BY <2>4, SubmitStartView DEF SubmitStart
    <3> QED
      BY <2>1, <3>1 DEF Alone
  <2>5. CASE Wait \/ SaveVisited \/ DropTask \/ Cancel \/ Restart \/ Finished \/ UNCHANGED vars
    <3>1. stack' = stack /\ todo' = todo
      BY <2>5, RestView DEF Rested
    <3>2. mpc' # "submit" => mpc # "submit" \/ todo = <<>>
      BY <2>5, RestView DEF Wait, SaveVisited, DropTask, Cancel, Restart, Finished, vars, run
    <3> QED
      BY <2>1, <3>1, <3>2 DEF Alone
  <2> QED
    BY <2>2, <2>3, <2>4, <2>5 DEF Next, RunStep
<1> QED
  BY <1>2, <1>3 DEF Alone
-----------------------------------------------------------------------------
(* TurnsInv: level after level *)

\* What is known of a call that visits or comes after that.
LEMMA AtWorkPassed ==
  ASSUME NEW w, Going(w), PcOf(w) \notin {"none", "enter", "rules"}
  PROVE  /\ KeyOf(w) \in Keys /\ KeyOf(w) = Key[Task(w).url] /\ Page(w) = Task(w).url
         /\ Page(w) \in URLs /\ Page(w) \notin Sitemaps
         /\ Task(w).depth \in 0..(MaxDepth - 1) /\ KeyOf(w) \in Level[Task(w).depth]
         /\ Top(w).links \in Seq(Tokens) /\ Top(w).deeper \in Seq(Tokens) /\ Top(w).hrefs \in Seq(URLs)
         /\ AllLinksOf(Top(w).links, KeyOf(w)) /\ AllLinksOf(Top(w).deeper, KeyOf(w))
         /\ AllOnPage(Top(w).hrefs, Page(w))
<1>1. /\ w \in Threads /\ CallsInv /\ LinksInv
      /\ stack[w] # <<>> /\ Top(w).pc \notin {"enter", "rules"} /\ "fetch" \notin Faults
  BY DEF Going, Sequential, Threads, PcOf
<1>2. /\ Top(w) \in TracedFrames /\ Top(w) \in OpenFrames
      /\ Passed(Top(w).task.url) /\ Page(w) = Top(w).task.url
      /\ Page(w) \in URLs /\ Key[Page(w)] \in Keys
      /\ Top(w).task.depth \in 0..(MaxDepth - 1)
      /\ Key[Page(w)] \in Level[Top(w).task.depth]
      /\ Top(w).links \in Seq(Tokens) /\ Top(w).deeper \in Seq(Tokens)
      /\ AllLinksOf(Top(w).links, Key[Page(w)]) /\ AllLinksOf(Top(w).deeper, Key[Page(w)])
  BY <1>1, TopHasPassed
<1>3. AllOnPage(Top(w).hrefs, Page(w)) /\ Top(w).hrefs \in Seq(URLs)
  BY <1>2, TracedIs, FrameTypes
<1> QED
  BY <1>1, <1>2, <1>3 DEF Task, KeyOf, Passed

\* A task made of a link is one level deeper, and of the origin of its page.
LEMMA ChildOrigin ==
  ASSUME NEW w, NEW origin, Going(w), StartsApart(origin), NEW t, Child(w, t)
  PROVE  /\ t.depth = Task(w).depth + 1 /\ Task(w).depth \in Nat
         /\ origin[Key[t.url]] = origin[KeyOf(w)] /\ KeyOf(w) = Key[Task(w).url]
<1>1. PICK i \in 1..Len(Top(w).links) :
        /\ FollowedFirst(Top(w).links, i) /\ Top(w).links[i] \in Tokens
        /\ t = TaskFor(Top(w), Top(w).links[i])
  BY DEF Child
<1>2. /\ KeyOf(w) \in Keys /\ KeyOf(w) = Key[Task(w).url]
      /\ Task(w).depth \in 0..(MaxDepth - 1) /\ KeyOf(w) \in Level[Task(w).depth]
      /\ AllLinksOf(Top(w).links, KeyOf(w))
  BY AtWorkPassed DEF Child
<1>3. PICK token : token = Top(w).links[i]
  OBVIOUS
<1>4. token.link \in URLs /\ LinkOf(token, KeyOf(w)) /\ Followed(token)
  BY <1>1, <1>2, <1>3 DEF AllLinksOf, FollowedFirst, Tokens
<1>5. <<KeyOf(w), Key[token.link]>> \in Leads
  BY <1>4, LinkLeads
<1>6. origin[Key[token.link]] = origin[KeyOf(w)]
  BY <1>2, <1>5 DEF StartsApart
<1>7. t.url = token.link /\ t.depth = Task(w).depth + 1
  BY <1>1, <1>3 DEF TaskFor, Deeper, Task
<1> QED
  BY <1>2, <1>6, <1>7, CrawlAssumption

LEMMA TaskIsPending ==
  ASSUME NEW w, PcOf(w) # "none"
  PROVE  Task(w) \in Pending(w)
BY DEF Pending

LEMMA QueuedIsPending ==
  ASSUME NEW w, NEW i \in 1..Len(queue)
  PROVE  queue[i] \in Pending(w)
BY DEF Pending, Queued

LEMMA PendingTypes ==
  ASSUME NEW w, Going(w), NEW t \in Pending(w)
  PROVE  t \in Tasks /\ t.depth \in Nat /\ Key[t.url] \in Keys /\ t.rules = None
<1>1. t \in Tasks
  <2>1. CASE t \in Queued
    BY <2>1, CallsParts DEF Going, PoolTypes, Queued
  <2>2. CASE PcOf(w) # "none" /\ t = Task(w)
    <3>1. w \in Threads /\ stack[w] # <<>> /\ CallsInv
      BY <2>2 DEF Going, Sequential, Threads, PcOf
    <3>2. Top(w) \in OpenFrames
      BY <3>1, TopIsOpen
    <3> QED
      BY <2>2, <3>2, FrameTypes DEF Task
  <2> QED
    BY <2>1, <2>2 DEF Pending
<1> QED
  BY <1>1, CrawlAssumption DEF Tasks, Depths, Going, Alone

\* A step after which no task and no mark is new.
LEMMA QuietTurns ==
  ASSUME NEW w, NEW origin, TurnsInv(w, origin), UNCHANGED <<queue, todo, visited>>,
         PcOf(w)' = "none" \/ (PcOf(w) # "none" /\ Task(w)' = Task(w))
  PROVE  InOrder(w, origin)' /\ MarksFirst(w, origin)' /\ TodoFresh(w, origin)'
<1>1. InOrder(w, origin)'
  BY DEF TurnsInv, InOrder
<1>2. \A t \in Pending(w)' : t \in Pending(w)
  BY DEF Pending, Queued
<1>3. MarksFirst(w, origin)'
  BY <1>2 DEF TurnsInv, MarksFirst
<1>4. TodoFresh(w, origin)'
  BY <1>2 DEF TurnsInv, TodoFresh, Unknown
<1> QED
  BY <1>1, <1>3, <1>4

LEMMA MarkedTurns ==
  ASSUME NEW w, NEW origin, Going(w), TurnsInv(w, origin), Marked(w)
  PROVE  InOrder(w, origin)' /\ MarksFirst(w, origin)' /\ TodoFresh(w, origin)'
<1>1. /\ PcOf(w) = "visit" /\ PcOf(w)' = "fetch" /\ Task(w)' = Task(w) /\ UNCHANGED <<queue, todo>>
      /\ visited' = [visited EXCEPT ![KeyOf(w)] = Task(w).depth]
      /\ KeyOf(w) = Key[Task(w).url] /\ KeyOf(w) \in Keys
  BY AtWorkPassed DEF Marked, Goes
<1>2. InOrder(w, origin)'
  BY <1>1 DEF TurnsInv, InOrder
<1>3. Pending(w)' = Pending(w) /\ Task(w) \in Pending(w)
  BY <1>1 DEF Pending, Queued
<1>4. visited \in [Keys -> (0..(MaxDepth - 1)) \cup {None}]
  BY CallsParts DEF Going, MemoryTypes
<1>5. \A k \in Keys : visited'[k] = IF k = KeyOf(w) THEN Task(w).depth ELSE visited[k]
  BY <1>1, <1>4
<1>6. MarksFirst(w, origin)'
  <2> SUFFICES ASSUME NEW t \in Pending(w), origin[KeyOf(w)] = origin[Key[t.url]]
               PROVE  Task(w).depth <= t.depth
    BY <1>3, <1>5 DEF TurnsInv, MarksFirst
  <2>1. Task(w).depth \in Nat
    BY <1>3, PendingTypes
  <2>2. CASE t = Task(w)
    BY <2>1, <2>2
  <2>3. CASE t \in Queued
    BY <1>1, <2>3 DEF TurnsInv, InOrder, InTurn, Queued
  <2> QED
    BY <1>1, <2>2, <2>3 DEF Pending
<1>7. TodoFresh(w, origin)'
  <2>1. \A i \in 1..Len(todo) : origin[KeyOf(w)] # origin[Key[todo[i]]]
    BY <1>1, <1>3 DEF TurnsInv, TodoFresh, Unknown
  <2> QED
    BY <1>1, <1>3, <1>5, <2>1 DEF TurnsInv, TodoFresh, Unknown
<1> QED
  BY <1>2, <1>6, <1>7

LEMMA PostedTurns ==
  ASSUME NEW w, NEW origin, Going(w), StartsApart(origin), TurnsInv(w, origin), Posted(w)
  PROVE  InOrder(w, origin)' /\ MarksFirst(w, origin)' /\ TodoFresh(w, origin)'
<1>1. PICK t : Child(w, t) /\ Added(w, t)
  BY PostedChild
<1>2. /\ Len(queue') = Len(queue) + 1 /\ Len(queue) \in Nat
      /\ \A i \in 1..Len(queue) : queue'[i] = queue[i]
      /\ queue'[Len(queue) + 1] = t
      /\ Queued' = Queued \cup {t}
  BY <1>1, AddedLast
<1>3. /\ t.depth = Task(w).depth + 1 /\ Task(w).depth \in Nat
      /\ origin[Key[t.url]] = origin[Key[Task(w).url]]
  BY <1>1, ChildOrigin
<1>4. /\ PcOf(w) # "none" /\ PcOf(w)' # "none" /\ Task(w)' = Task(w) /\ UNCHANGED <<visited, todo>>
  BY StillAtIt DEF Posted
<1>5. Task(w) \in Pending(w) /\ Pending(w)' = Pending(w) \cup {t}
  BY <1>2, <1>4 DEF Pending
<1>6. ASSUME NEW i \in 1..Len(queue)
      PROVE  /\ InTurn(origin, Task(w), queue[i]) /\ queue[i].depth \in Nat
             /\ InTurn(origin, queue[i], t)
  <2>1. InTurn(origin, Task(w), queue[i])
    BY <1>4 DEF TurnsInv, InOrder
  <2>2. queue[i].depth \in Nat
    BY QueuedIsPending, PendingTypes
  <2>3. InTurn(origin, queue[i], t)
    BY <1>3, <2>1, <2>2 DEF InTurn
  <2> QED
    BY <2>1, <2>2, <2>3
<1>7. InTurn(origin, Task(w), t)
  BY <1>3 DEF InTurn
<1>8. InOrder(w, origin)'
  <2>1. ASSUME NEW i \in 1..Len(queue'), NEW j \in 1..Len(queue'), i < j
        PROVE  InTurn(origin, queue'[i], queue'[j])
    <3>1. i \in 1..Len(queue)
      BY <1>2, <2>1
    <3>2. CASE j \in 1..Len(queue)
      BY <1>2, <2>1, <3>1, <3>2 DEF TurnsInv, InOrder
    <3>3. CASE j = Len(queue) + 1
      BY <1>2, <1>6, <3>1, <3>3
    <3> QED
      BY <1>2, <3>2, <3>3
  <2>2. ASSUME NEW i \in 1..Len(queue') PROVE InTurn(origin, Task(w), queue'[i])
    <3>1. CASE i \in 1..Len(queue)
      BY <1>2, <1>6, <3>1
    <3>2. CASE i = Len(queue) + 1
      BY <1>2, <1>7, <3>2
    <3> QED
      BY <1>2, <3>1, <3>2
  <2> QED
    BY <1>4, <2>1, <2>2 DEF InOrder, InTurn
<1>9. MarksFirst(w, origin)'
  <2> SUFFICES ASSUME NEW k \in Keys, NEW s \in Pending(w) \cup {t}, visited[k] # None,
                      origin[k] = origin[Key[s.url]]
               PROVE  visited[k] <= s.depth
    BY <1>4, <1>5 DEF MarksFirst
  <2>1. CASE s \in Pending(w)
    BY <2>1 DEF TurnsInv, MarksFirst
  <2>2. CASE s = t
    <3>1. visited[k] <= Task(w).depth
      BY <1>3, <1>5, <2>2 DEF TurnsInv, MarksFirst
    <3>2. visited[k] \in Nat
      BY CallsParts, CrawlAssumption DEF Going, MemoryTypes
    <3> QED
      BY <1>3, <2>2, <3>1, <3>2
  <2> QED
    BY <2>1, <2>2
<1>10. TodoFresh(w, origin)'
  <2>1. \A i \in 1..Len(todo) : origin[Key[t.url]] # origin[Key[todo[i]]]
    BY <1>3, <1>5 DEF TurnsInv, TodoFresh, Unknown
  <2> QED
    BY <1>4, <1>5, <2>1 DEF TurnsInv, TodoFresh, Unknown
<1> QED
  BY <1>8, <1>9, <1>10

LEMMA TookTurns ==
  ASSUME NEW w, NEW origin, Going(w), TurnsInv(w, origin), Took(w)
  PROVE  InOrder(w, origin)' /\ MarksFirst(w, origin)' /\ TodoFresh(w, origin)'
<1>1. /\ Len(queue) \in Nat \ {0} /\ Len(queue') = Len(queue) - 1
      /\ \A i \in 1..Len(queue') : queue'[i] = queue[i + 1] /\ i + 1 \in 1..Len(queue)
      /\ Task(w)' = queue[1] /\ 1 \in 1..Len(queue)
      /\ Pending(w)' = Pending(w)
  BY TookFirst
<1>2. \A i, j \in 1..Len(queue) : i < j => InTurn(origin, queue[i], queue[j])
  BY DEF TurnsInv, InOrder
<1>3. \A i, j \in 1..Len(queue') : i < j => InTurn(origin, queue'[i], queue'[j])
  <2> SUFFICES ASSUME NEW i \in 1..Len(queue'), NEW j \in 1..Len(queue'), i < j
               PROVE  InTurn(origin, queue'[i], queue'[j])
    OBVIOUS
  <2>1. i + 1 < j + 1 /\ i + 1 \in 1..Len(queue) /\ j + 1 \in 1..Len(queue)
    BY <1>1
  <2> QED
    BY <1>1, <1>2, <2>1
<1>4. \A i \in 1..Len(queue') : InTurn(origin, Task(w)', queue'[i])
  <2> SUFFICES ASSUME NEW i \in 1..Len(queue') PROVE InTurn(origin, Task(w)', queue'[i])
    OBVIOUS
  <2>1. 1 < i + 1 /\ i + 1 \in 1..Len(queue)
    BY <1>1
  <2> QED
    BY <1>1, <1>2, <2>1
<1>5. InOrder(w, origin)'
  BY <1>3, <1>4 DEF InOrder, InTurn
<1>6. MarksFirst(w, origin)' /\ TodoFresh(w, origin)'
  BY <1>1 DEF TurnsInv, MarksFirst, TodoFresh, Unknown, Took
<1> QED
  BY <1>5, <1>6

\* The task of a start URL is the only one of its origin.
LEMMA StartedTurns ==
  ASSUME NEW w, NEW origin, Going(w), TurnsInv(w, origin), Started(w)
  PROVE  InOrder(w, origin)' /\ MarksFirst(w, origin)' /\ TodoFresh(w, origin)'
<1>1. PICK t : OfStart(t) /\ Added(w, t)
  BY StartedTask
<1>2. /\ Len(queue') = Len(queue) + 1 /\ Len(queue) \in Nat
      /\ \A i \in 1..Len(queue) : queue'[i] = queue[i]
      /\ queue'[Len(queue) + 1] = t
      /\ Queued' = Queued \cup {t}
  BY <1>1, AddedLast
<1>3. PcOf(w)' = PcOf(w) /\ Task(w)' = Task(w) /\ visited' = visited
  BY SameCall DEF Started
<1>4. Pending(w)' = Pending(w) \cup {t}
  BY <1>2, <1>3 DEF Pending
<1>5. /\ 1 \in 1..Len(todo) /\ t.url = todo[1]
      /\ Len(todo') = Len(todo) - 1 /\ Len(todo) \in Nat
      /\ \A i \in 1..Len(todo') : todo'[i] = todo[i + 1] /\ i + 1 \in 1..Len(todo) /\ i + 1 # 1
  BY <1>1, HeadIsFirst, CallsParts DEF Going, RunTypes, OfStart, Started
<1>6. Unknown(w, origin, origin[Key[t.url]])
  BY <1>5 DEF TurnsInv, TodoFresh
<1>7. InOrder(w, origin)'
  <2>1. ASSUME NEW i \in 1..Len(queue'), NEW j \in 1..Len(queue'), i < j
        PROVE  InTurn(origin, queue'[i], queue'[j])
    <3>1. i \in 1..Len(queue)
      BY <1>2, <2>1
    <3>2. CASE j \in 1..Len(queue)
      BY <1>2, <2>1, <3>1, <3>2 DEF TurnsInv, InOrder
    <3>3. CASE j = Len(queue) + 1
      <4>1. queue[i] \in Pending(w)
        BY <3>1, QueuedIsPending
      <4> QED
        BY <1>2, <1>6, <3>1, <3>3, <4>1 DEF Unknown, InTurn
    <3> QED
      BY <1>2, <3>2, <3>3
  <2>2. ASSUME NEW i \in 1..Len(queue'), PcOf(w) # "none" PROVE InTurn(origin, Task(w), queue'[i])
    <3>1. CASE i \in 1..Len(queue)
      BY <1>2, <2>2, <3>1 DEF TurnsInv, InOrder
    <3>2. CASE i = Len(queue) + 1
      BY <1>2, <1>6, <2>2, <3>2, TaskIsPending DEF Unknown, InTurn
    <3> QED
      BY <1>2, <3>1, <3>2
  <2> QED
    BY <1>3, <2>1, <2>2 DEF InOrder, InTurn
<1>8. MarksFirst(w, origin)'
  BY <1>3, <1>4, <1>6 DEF TurnsInv, MarksFirst, Unknown
<1>9. TodoFresh(w, origin)'
  <2> SUFFICES ASSUME NEW i \in 1..Len(todo')
               PROVE  /\ \A s \in Pending(w) \cup {t} : origin[Key[s.url]] # origin[Key[todo'[i]]]
                      /\ \A k \in Keys : visited[k] # None => origin[k] # origin[Key[todo'[i]]]
                      /\ \A j \in 1..Len(todo') : j # i => origin[Key[todo'[i]]] # origin[Key[todo'[j]]]
    BY <1>3, <1>4 DEF TodoFresh, Unknown
  <2>1. /\ i + 1 \in 1..Len(todo) /\ todo'[i] = todo[i + 1] /\ i + 1 # 1
    BY <1>5
  <2>2. /\ Unknown(w, origin, origin[Key[todo[i + 1]]])
        /\ \A j \in 1..Len(todo) : j # i + 1 => origin[Key[todo[i + 1]]] # origin[Key[todo[j]]]
    BY <2>1 DEF TurnsInv, TodoFresh
  <2>3. origin[Key[t.url]] # origin[Key[todo'[i]]]
    BY <1>5, <2>1, <2>2
  <2>4. \A j \in 1..Len(todo') : j # i => origin[Key[todo'[i]]] # origin[Key[todo'[j]]]
    <3> SUFFICES ASSUME NEW j \in 1..Len(todo'), j # i
                 PROVE  origin[Key[todo'[i]]] # origin[Key[todo'[j]]]
      OBVIOUS
    <3>1. j + 1 \in 1..Len(todo) /\ j + 1 # i + 1 /\ todo'[j] = todo[j + 1]
      BY <1>5
    <3> QED
      BY <2>1, <2>2, <3>1
  <2> QED
    BY <2>1, <2>2, <2>3, <2>4 DEF Unknown
<1> QED
  BY <1>7, <1>8, <1>9

LEMMA NextWalks ==
  ASSUME NEW w, NEW origin, Going(w), TurnsInv(w, origin), Step(w)
  PROVE  WalksOnce(w)'
<1>1. WalksOnce(w)
  BY DEF TurnsInv
<1>2. CASE Dropped(w)
  BY <1>2 DEF Dropped, WalksOnce
<1>3. CASE Moved(w)
  BY <1>1, <1>3 DEF Moved, Goes, WalksOnce
<1>4. CASE Marked(w)
  <2>1. KeyOf(w) \in Keys /\ visited \in [Keys -> (0..(MaxDepth - 1)) \cup {None}]
    BY <1>4, AtWorkPassed, CallsParts DEF Marked, Goes, Going, MemoryTypes
  <2> QED
    BY <1>4, <2>1 DEF Marked, Goes, WalksOnce
<1>5. CASE Posted(w)
  BY <1>1, <1>5 DEF Posted, Goes, WalksOnce
<1>6. CASE Took(w)
  BY <1>6 DEF Took, WalksOnce
<1>7. CASE Started(w) \/ Rested(w)
  BY <1>1, <1>7, SameCall DEF Started, Rested, WalksOnce
<1> QED
  BY <1>2, <1>3, <1>4, <1>5, <1>6, <1>7 DEF Step

LEMMA NextTurns ==
  ASSUME NEW w, NEW origin, Going(w), StartsApart(origin), TurnsInv(w, origin), Step(w)
  PROVE  TurnsInv(w, origin)'
<1>1. WalksOnce(w)'
  BY NextWalks
<1>2. InOrder(w, origin)' /\ MarksFirst(w, origin)' /\ TodoFresh(w, origin)'
  <2>1. CASE Dropped(w) \/ Moved(w)
    BY <2>1, QuietTurns, StillAtIt DEF Dropped, Moved
  <2>2. CASE Rested(w)
    BY <2>2, QuietTurns, SameCall DEF Rested
  <2> QED
    BY <2>1, <2>2, MarkedTurns, PostedTurns, TookTurns, StartedTurns DEF Step
<1> QED
  BY <1>1, <1>2 DEF TurnsInv
-----------------------------------------------------------------------------
(* CoverInv: no page of the levels is forgotten *)

\* What has become of a task whose page had yet to be marked.
Settled(w, t) ==
  \/ t \in Awaited(w)
  \/ t.depth >= MaxDepth \/ Key[t.url] \in Skipped
  \/ visited[Key[t.url]] # None /\ visited[Key[t.url]] <= t.depth

LEMMA MarksStay ==
  ASSUME NEW w, Going(w), Step(w), NEW k \in Keys, visited[k] # None
  PROVE  visited'[k] = visited[k]
<1>1. visited \in [Keys -> (0..(MaxDepth - 1)) \cup {None}]
  BY CallsParts DEF Going, MemoryTypes
<1>2. CASE Marked(w)
  BY <1>1, <1>2 DEF Marked
<1> QED
  BY <1>2 DEF Step, Dropped, Moved, Posted, Took, Started, Rested

LEMMA AwaitedTypes ==
  ASSUME NEW w, Going(w), NEW t \in Awaited(w)
  PROVE  t.depth \in Nat /\ Key[t.url] \in Keys
<1>1. t \in Pending(w)
  BY DEF Awaited, Pending
<1> QED
  BY <1>1, PendingTypes

LEMMA AtPage ==
  ASSUME NEW w, Going(w), PcOf(w) # "none"
  PROVE  Page(w) \in URLs /\ KeyOf(w) \in Keys /\ KeyOf(w) = Key[Task(w).url] /\ Page(w) = Task(w).url
<1>1. At(w, Top(w).pc)
  BY DEF PcOf, At, Top
<1> QED
  BY <1>1, AtWork

LEMMA AwaitedSettle ==
  ASSUME NEW w, Going(w), Step(w), NEW t \in Awaited(w)
  PROVE  Settled(w, t)'
<1>1. CASE t \in Queued /\ ~Took(w)
  <2>1. CASE Posted(w) \/ Started(w)
    <3>1. PICK s : Added(w, s)
      BY <2>1, PostedChild, StartedTask
    <3> QED
      BY <1>1, <3>1, AddedLast DEF Settled, Awaited
  <2>2. CASE UNCHANGED queue
    BY <1>1, <2>2 DEF Settled, Awaited, Queued
  <2> QED
    BY <1>1, <2>1, <2>2 DEF Step, Dropped, Moved, Marked, Rested
<1>2. CASE Took(w)
  <2>1. t \in Queued /\ Queued = Queued' \cup {Task(w)'} /\ PcOf(w)' = "enter"
    BY <1>2, TookFirst DEF Took, Awaited
  <2> QED
    BY <2>1 DEF Settled, Awaited
<1>3. CASE t = Task(w) /\ PcOf(w) \in {"enter", "rules", "visit"}
  <2>1. Page(w) \in URLs /\ KeyOf(w) \in Keys /\ KeyOf(w) = Key[t.url] /\ Page(w) = t.url
    BY <1>3, AtPage
  <2>2. CASE Dropped(w)
    <3>1. CASE PcOf(w) = "enter"
      BY <1>3, <2>2, <3>1 DEF Dropped, Settled
    <3>2. CASE PcOf(w) = "rules"
      BY <2>1, <2>2, <3>2 DEF Dropped, Settled, Skipped
    <3>3. CASE PcOf(w) = "visit"
      BY <1>3, <2>1, <2>2, <3>3 DEF Dropped, Settled
    <3> QED
      BY <1>3, <3>1, <3>2, <3>3
  <2>3. CASE Moved(w)
    BY <1>3, <2>3 DEF Moved, Goes, Settled, Awaited
  <2>4. CASE Marked(w)
    <3>1. visited \in [Keys -> (0..(MaxDepth - 1)) \cup {None}] /\ t.depth \in Nat /\ t.depth # None
      BY AwaitedTypes, CallsParts, CrawlAssumption DEF Going, MemoryTypes
    <3>2. visited'[Key[t.url]] = t.depth
      BY <1>3, <2>1, <2>4, <3>1 DEF Marked
    <3> QED
      BY <3>1, <3>2 DEF Settled
  <2>5. CASE Started(w) \/ Rested(w)
    <3>1. t = Task(w)' /\ PcOf(w)' \in {"enter", "rules", "visit"}
      BY <1>3, <2>5, SameCall DEF Started, Rested
    <3> QED
      BY <3>1 DEF Settled, Awaited
  <2> QED
    BY <1>3, <2>2, <2>3, <2>4, <2>5 DEF Step, Posted, Goes, Took
<1> QED
  BY <1>1, <1>2, <1>3 DEF Awaited

LEMMA ReachedStays ==
  ASSUME NEW w, Going(w), Step(w), NEW k \in Keys, NEW n \in Nat, Reached(w, k, n)
  PROVE  Reached(w, k, n)'
<1>1. CASE visited[k] # None /\ visited[k] <= n
  BY <1>1, MarksStay DEF Reached
<1>2. CASE \E t \in Awaited(w) : Key[t.url] = k /\ t.depth <= n
  <2>1. PICK t \in Awaited(w) : Key[t.url] = k /\ t.depth <= n
    BY <1>2
  <2>2. Settled(w, t)' /\ t.depth \in Nat
    BY <2>1, AwaitedSettle, AwaitedTypes
  <2>3. CASE t \in Awaited(w)'
    BY <2>1, <2>3 DEF Reached
  <2>4. CASE t.depth >= MaxDepth
    BY <2>1, <2>2, <2>4, CrawlAssumption DEF Reached
  <2>5. CASE visited'[k] # None /\ visited'[k] <= t.depth
    <3>1. visited'[k] \in Nat \/ (visited[k] = None /\ visited'[k] = None) \/ Marked(w)
      <4>1. visited[k] \in Nat \cup {None}
        BY CallsParts DEF Going, MemoryTypes
      <4> QED
        BY <4>1 DEF Step, Dropped, Moved, Posted, Took, Started, Rested
    <3>2. CASE Marked(w)
      <4>1. visited \in [Keys -> (0..(MaxDepth - 1)) \cup {None}] /\ Task(w).depth \in Nat
        BY <3>2, AtWorkPassed, CallsParts DEF Going, MemoryTypes, Marked, Goes
      <4>2. visited'[k] \in Nat \cup {None}
        BY <3>2, <4>1 DEF Marked
      <4> QED
        BY <2>1, <2>2, <2>5, <4>2 DEF Reached
    <3> QED
      BY <2>1, <2>2, <2>5, <3>1, <3>2 DEF Reached
  <2> QED
    BY <2>1, <2>2, <2>3, <2>4, <2>5 DEF Settled, Reached
<1> QED
  BY <1>1, <1>2 DEF Reached

LEMMA NextStarts ==
  ASSUME NEW w, Going(w), Step(w), StartsReached(w)
  PROVE  StartsReached(w)'
<1> SUFFICES ASSUME NEW k \in StartKeys
             PROVE  Reached(w, k, 0)' \/ \E i \in 1..Len(todo') : Key[todo'[i]] = k
  BY DEF StartsReached
<1>1. k \in Keys
  BY CrawlAssumption DEF StartKeys
<1>2. CASE Reached(w, k, 0)
  BY <1>1, <1>2, ReachedStays
<1>3. CASE \E i \in 1..Len(todo) : Key[todo[i]] = k
  <2>1. CASE todo' = todo
    BY <1>3, <2>1
  <2>2. CASE Started(w)
    <3>1. PICK t : OfStart(t) /\ Added(w, t)
      BY <2>2, StartedTask
    <3>2. /\ t.url = todo[1] /\ t.depth = 0
          /\ Len(todo') = Len(todo) - 1 /\ Len(todo) \in Nat
          /\ \A i \in 1..Len(todo') : todo'[i] = todo[i + 1]
      BY <2>2, <3>1, HeadIsFirst, CallsParts DEF Going, RunTypes, OfStart, Started
    <3>3. PICK i \in 1..Len(todo) : Key[todo[i]] = k
      BY <1>3
    <3>4. CASE i = 1
      <4>1. t \in Awaited(w)'
        BY <3>1, AddedLast DEF Awaited
      <4> QED
        BY <3>2, <3>3, <3>4, <4>1 DEF Reached
    <3>5. CASE i # 1
      <4>1. i - 1 \in 1..Len(todo') /\ (i - 1) + 1 = i
        BY <3>2, <3>5
      <4> QED
        BY <3>2, <3>3, <4>1
    <3> QED
      BY <3>4, <3>5
  <2> QED
    BY <2>1, <2>2, StillAtIt DEF Step, Dropped, Took, Rested
<1> QED
  BY <1>2, <1>3 DEF StartsReached

\* A link that the crawler may follow is on the page, whatever the spelling of its URL.
LEMMA LinkOnPage ==
  ASSUME SpellingsAlike, NEW u \in URLs, NEW l, <<Key[u], l>> \in Leads
  PROVE  \E i \in 1..Len(Links[u]) :
           /\ Key[Links[u][i]] = l
           /\ ~OnlySameDomain \/ <<Links[u][i], u>> \in SameOrigin
<1>1. PICK q \in URLs \X URLs :
        /\ \E i \in 1..Len(Links[q[1]]) : Links[q[1]][i] = q[2]
        /\ ~OnlySameDomain \/ <<q[2], q[1]>> \in SameOrigin
        /\ <<Key[u], l>> = <<Key[q[1]], Key[q[2]]>>
  BY DEF Leads
<1>2. q[1] \in URLs /\ q[2] \in URLs /\ Key[q[1]] = Key[u] /\ Key[q[2]] = l
  BY <1>1
<1>3. Links[q[1]] = Links[u] /\ (<<q[2], q[1]>> \in SameOrigin <=> <<q[2], u>> \in SameOrigin)
  BY <1>2 DEF SpellingsAlike
<1> QED
  BY <1>1, <1>2, <1>3

LEMMA FromAppended ==
  ASSUME NEW list \in Seq(Tokens), NEW token \in Tokens, NEW l
  PROVE  /\ FromList(list, l) => FromList(Append(list, token), l)
         /\ Key[token.link] = l /\ Followed(token) => FromList(Append(list, token), l)
<1>1. /\ Len(Append(list, token)) = Len(list) + 1 /\ Len(list) \in Nat
      /\ \A i \in 1..Len(list) : Append(list, token)[i] = list[i]
      /\ Append(list, token)[Len(list) + 1] = token
  OBVIOUS
<1> QED
  BY <1>1 DEF FromList

LEMMA FromBoth ==
  ASSUME NEW list \in Seq(Tokens), NEW deeper \in Seq(Tokens), NEW l,
         FromList(list, l) \/ FromList(deeper, l)
  PROVE  FromList(list \o deeper, l)
<1>1. /\ Len(list \o deeper) = Len(list) + Len(deeper) /\ Len(list) \in Nat /\ Len(deeper) \in Nat
      /\ \A i \in 1..Len(list) : (list \o deeper)[i] = list[i]
      /\ \A i \in 1..Len(deeper) : (list \o deeper)[Len(list) + i] = deeper[i]
  OBVIOUS
<1>2. CASE FromList(list, l)
  <2>1. PICK i \in 1..Len(list) : Key[list[i].link] = l /\ Followed(list[i])
    BY <1>2 DEF FromList
  <2>2. i \in 1..Len(list \o deeper) /\ (list \o deeper)[i] = list[i]
    BY <1>1
  <2> QED
    BY <2>1, <2>2 DEF FromList
<1>3. CASE FromList(deeper, l)
  <2>1. PICK i \in 1..Len(deeper) : Key[deeper[i].link] = l /\ Followed(deeper[i])
    BY <1>3 DEF FromList
  <2>2. Len(list) + i \in 1..Len(list \o deeper)
    BY <1>1
  <2> QED
    BY <1>1, <2>1, <2>2 DEF FromList
<1> QED
  BY <1>2, <1>3

\* The end of a list of links of which the first i have been seen to.
LEMMA FromRest ==
  ASSUME NEW list \in Seq(Tokens), NEW i \in 1..Len(list), NEW l, FromList(list, l), FollowedFirst(list, i)
  PROVE  FromList(SubSeq(list, i + 1, Len(list)), l) \/ Key[list[i].link] = l
<1>1. PICK j \in 1..Len(list) : Key[list[j].link] = l /\ Followed(list[j])
  BY DEF FromList
<1>2. ~(j \in 1..(i - 1))
  BY <1>1 DEF FollowedFirst
<1>3. CASE j = i
  BY <1>1, <1>3
<1>4. CASE j > i
  <2>1. j - i \in 1..Len(SubSeq(list, i + 1, Len(list))) /\ i + (j - i) = j
    BY <1>4
  <2>2. SubSeq(list, i + 1, Len(list))[j - i] = list[j]
    BY <2>1, RestOfSeq
  <2> QED
    BY <1>1, <2>1, <2>2 DEF FromList
<1> QED
  BY <1>2, <1>3, <1>4

\* A link that the worker has yet to do with is so after the step, or is reached.
ComesOn(w, l, n) == Reached(w, l, n) \/ Coming(w, l)

LEMMA FetchComing ==
  ASSUME NEW w, Going(w), SpellingsAlike, NEW l, <<KeyOf(w), l>> \in Leads,
         Goes(w, "fetch", "parse"), Top(w)'.hrefs = Links[Page(w)]
  PROVE  Coming(w, l)'
<1>1. Page(w) \in URLs /\ KeyOf(w) = Key[Page(w)]
  BY AtPage DEF Goes
<1>2. Top(w)'.task.url = Page(w) /\ PcOf(w)' = "parse"
  BY DEF Goes, Page
<1>3. PICK i \in 1..Len(Links[Page(w)]) :
        /\ Key[Links[Page(w)][i]] = l
        /\ ~OnlySameDomain \/ <<Links[Page(w)][i], Page(w)>> \in SameOrigin
  BY <1>1, LinkOnPage
<1>4. FromHrefs(Top(w)', l)
  BY <1>2, <1>3 DEF FromHrefs
<1> QED
  BY <1>2, <1>4 DEF Coming

LEMMA ParsedComing ==
  ASSUME NEW w, Going(w), NEW l \in Keys, Coming(w, l), Goes(w, "parse", "parse"), Parsed(w),
         UNCHANGED visited, NEW n \in Nat, n = Task(w).depth + 1
  PROVE  ComesOn(w, l, n)'
<1>1. /\ Top(w).links \in Seq(Tokens) /\ Top(w).deeper \in Seq(Tokens) /\ Top(w).hrefs \in Seq(URLs)
      /\ Page(w) = Top(w).task.url /\ Page(w) \in URLs /\ Task(w).depth \in Nat
  <2>1. PcOf(w) = "parse" /\ Page(w) = Top(w).task.url
    BY DEF Goes, Page
  <2> QED
    BY <2>1, AtWorkPassed
<1>2. Top(w)'.task.url = Top(w).task.url /\ PcOf(w)' = "parse" /\ PcOf(w) = "parse"
  BY DEF Goes, Page
<1>3. /\ Top(w).hrefs[1] = Head(Top(w).hrefs) /\ Head(Top(w).hrefs) \in URLs
      /\ Len(Top(w).hrefs) \in Nat /\ Len(Top(w)'.hrefs) = Len(Top(w).hrefs) - 1
      /\ \A i \in 1..Len(Top(w)'.hrefs) : Top(w)'.hrefs[i] = Top(w).hrefs[i + 1]
  BY <1>1, HeadIsFirst DEF Parsed
<1>4. Token(w) \in Tokens /\ Token(w).link = Head(Top(w).hrefs)
      /\ Token(w).same = (<<Head(Top(w).hrefs), Page(w)>> \in SameOrigin)
  BY <1>3 DEF Token, Tokens
<1>5. CASE FromList(Top(w).links, l) \/ FromList(Top(w).deeper, l)
  <2>1. FromList(Top(w)'.links, l) \/ FromList(Top(w)'.deeper, l)
    BY <1>1, <1>4, <1>5, FromAppended DEF Parsed
  <2> QED
    BY <1>2, <2>1 DEF ComesOn, Coming
<1>6. CASE FromHrefs(Top(w), l)
  <2>1. PICK i \in 1..Len(Top(w).hrefs) :
          /\ Key[Top(w).hrefs[i]] = l
          /\ ~OnlySameDomain \/ <<Top(w).hrefs[i], Top(w).task.url>> \in SameOrigin
    BY <1>6 DEF FromHrefs
  <2>2. CASE i # 1
    <3>1. i - 1 \in 1..Len(Top(w)'.hrefs) /\ (i - 1) + 1 = i
      BY <1>3, <2>2
    <3>2. Top(w)'.hrefs[i - 1] = Top(w).hrefs[i]
      BY <1>3, <3>1
    <3>3. FromHrefs(Top(w)', l)
      BY <1>2, <2>1, <3>1, <3>2 DEF FromHrefs
    <3> QED
      BY <1>2, <3>3 DEF ComesOn, Coming
  <2>3. CASE i = 1
    <3>1. Key[Token(w).link] = l /\ Followed(Token(w))
      BY <1>1, <1>3, <1>4, <2>1, <2>3 DEF Followed
    <3>2. CASE \/ Top(w)'.links = Append(Top(w).links, Token(w))
               \/ Top(w)'.deeper = Append(Top(w).deeper, Token(w))
      <4>1. /\ FromList(Append(Top(w).links, Token(w)), l)
            /\ FromList(Append(Top(w).deeper, Token(w)), l)
        BY <1>1, <1>4, <3>1, FromAppended
      <4> QED
        BY <1>2, <3>2, <4>1 DEF ComesOn, Coming
    <3>3. CASE visited[Key[Head(Top(w).hrefs)]] # None /\ visited[Key[Head(Top(w).hrefs)]] <= Task(w).depth
      <4>1. visited'[l] # None /\ visited'[l] <= Task(w).depth
        BY <1>3, <2>1, <2>3, <3>3
      <4>2. visited'[l] \in Nat
        BY <4>1, CallsParts DEF Going, MemoryTypes
      <4>3. visited'[l] <= n
        BY <1>1, <4>1, <4>2
      <4> QED
        BY <4>1, <4>3 DEF ComesOn, Reached
    <3> QED
      BY <3>2, <3>3 DEF Parsed
  <2> QED
    BY <2>2, <2>3
<1> QED
  BY <1>2, <1>5, <1>6 DEF Coming

LEMMA PostedComing ==
  ASSUME NEW w, Going(w), NEW l \in Keys, Coming(w, l), Posted(w), NEW n \in Nat, n = Task(w).depth + 1
  PROVE  ComesOn(w, l, n)'
<1>1. /\ PcOf(w) = "submit" /\ PcOf(w)' = "submit" /\ Top(w).links \in Seq(Tokens)
      /\ Task(w)' = Task(w) /\ Task(w).depth \in Nat
  <2>1. PcOf(w) = "submit" /\ PcOf(w)' = "submit" /\ Task(w)' = Task(w)
    BY DEF Posted, Goes
  <2> QED
    BY <2>1, AtWorkPassed
<1>2. PICK i \in 1..Len(Top(w).links) :
       /\ FollowedFirst(Top(w).links, i)
       /\ queue' = Append(queue, TaskFor(Top(w), Top(w).links[i]))
       /\ Top(w)'.links = SubSeq(Top(w).links, i + 1, Len(Top(w).links))
  BY DEF Posted
<1>3. FromList(Top(w)'.links, l) \/ Key[Top(w).links[i].link] = l
  BY <1>1, <1>2, FromRest DEF Coming
<1>4. CASE FromList(Top(w)'.links, l)
  BY <1>1, <1>4 DEF ComesOn, Coming
<1>5. CASE Key[Top(w).links[i].link] = l
  <2>1. PICK t : t = TaskFor(Top(w), Top(w).links[i])
    OBVIOUS
  <2>2. t.url = Top(w).links[i].link /\ t.depth = Task(w).depth + 1
    BY <2>1 DEF TaskFor, Deeper, Task
  <2>3. t \in Tasks
    <3>1. At(w, "submit")
      BY <1>1 DEF PcOf, At, Top
    <3>2. Top(w) \in OpenFrames /\ Top(w).pc = "submit"
      BY <3>1, AtWork
    <3> QED
      BY <1>2, <2>1, <3>2, AfterTypes
  <2>4. t \in Awaited(w)'
    BY <1>2, <2>1, <2>3, AddedLast DEF Added, Awaited
  <2>5. t.depth <= n
    BY <2>2
  <2> QED
    BY <1>5, <2>2, <2>4, <2>5 DEF ComesOn, Reached
<1> QED
  BY <1>3, <1>4, <1>5

LEMMA ComingStays ==
  ASSUME NEW w, Going(w), SpellingsAlike, Step(w), NEW l \in Keys, <<KeyOf(w), l>> \in Leads, Coming(w, l),
         NEW n \in Nat, n = Task(w).depth + 1
  PROVE  Reached(w, l, n)' \/ (Coming(w, l)' /\ KeyOf(w)' = KeyOf(w))
<1>1. PcOf(w) \in {"fetch", "parse", "index", "save", "submit"}
  BY DEF Coming
<1>2. CASE Dropped(w)
  BY <1>1, <1>2 DEF Dropped, Coming, FromList
<1>3. CASE Moved(w)
  <2>1. KeyOf(w)' = KeyOf(w) /\ UNCHANGED visited
    BY <1>3, StillAtIt DEF Moved
  <2>2. CASE Goes(w, "fetch", "parse") /\ Top(w)'.hrefs = Links[Page(w)]
    BY <2>1, <2>2, FetchComing
  <2>3. CASE Goes(w, "parse", "parse") /\ Parsed(w)
    BY <2>1, <2>3, ParsedComing DEF ComesOn
  <2>4. CASE /\ Goes(w, "parse", "index") /\ Top(w).hrefs = <<>>
             /\ Top(w)'.links = Top(w).links \o Top(w).deeper
    <3>1. Top(w).links \in Seq(Tokens) /\ Top(w).deeper \in Seq(Tokens)
      BY <2>4, AtWorkPassed DEF Goes
    <3>2. FromList(Top(w).links, l) \/ FromList(Top(w).deeper, l)
      BY <2>4 DEF Goes, Coming, FromHrefs
    <3>3. FromList(Top(w)'.links, l)
      BY <2>4, <3>1, <3>2, FromBoth
    <3> QED
      BY <2>1, <2>4, <3>3 DEF Goes, Coming
  <2>5. CASE (Goes(w, "index", "save") \/ Goes(w, "save", "submit")) /\ Top(w)'.links = Top(w).links
    BY <2>1, <2>5 DEF Goes, Coming
  <2> QED
    BY <1>1, <1>3, <2>2, <2>3, <2>4, <2>5 DEF Moved, Goes
<1>4. CASE Posted(w)
  BY <1>4, PostedComing, StillAtIt DEF ComesOn
<1>5. CASE Started(w) \/ Rested(w)
  <2>1. stack'[w] = stack[w]
    BY <1>5 DEF Started, Rested
  <2> QED
    BY <2>1, SameCall DEF Coming
<1> QED
  BY <1>1, <1>2, <1>3, <1>4, <1>5 DEF Step, Marked, Goes, Took

LEMMA NextReached ==
  ASSUME NEW w, Going(w), SpellingsAlike, WalksOnce(w), Step(w), LinksReached(w)
  PROVE  LinksReached(w)'
<1>1. ASSUME NEW k \in Keys, NEW l \in Keys, visited'[k] # None, <<k, l>> \in Leads,
             NEW n \in Nat, n = visited'[k] + 1
      PROVE  Reached(w, l, n)' \/ (KeyOf(w) = k /\ Coming(w, l))'
  <2>1. CASE visited[k] = None
    <3>1. Marked(w) /\ KeyOf(w) = k
      <4>1. Marked(w)
        BY <1>1, <2>1 DEF Step, Dropped, Moved, Posted, Took, Started, Rested
      <4>2. visited \in [Keys -> (0..(MaxDepth - 1)) \cup {None}]
        BY CallsParts DEF Going, MemoryTypes
      <4> QED
        BY <1>1, <2>1, <4>1, <4>2 DEF Marked
    <3> QED
      BY <3>1 DEF Marked, Goes, Coming
  <2>2. CASE visited[k] # None
    <3>1. visited'[k] = visited[k]
      BY <2>2, MarksStay
    <3>2. Reached(w, l, n) \/ (KeyOf(w) = k /\ Coming(w, l))
      BY <1>1, <2>2, <3>1 DEF LinksReached
    <3>3. CASE KeyOf(w) = k /\ Coming(w, l)
      <4>1. visited[k] = Task(w).depth
        BY <3>3 DEF Coming, WalksOnce
      <4> QED
        BY <1>1, <3>1, <3>3, <4>1, ComingStays
    <3> QED
      BY <3>2, <3>3, ReachedStays
  <2> QED
    BY <2>1, <2>2
<1> SUFFICES ASSUME NEW k \in Keys, NEW l \in Keys, visited'[k] # None, <<k, l>> \in Leads
             PROVE  Reached(w, l, visited[k] + 1)' \/ (KeyOf(w) = k /\ Coming(w, l))'
  BY DEF LinksReached
<1>2. visited'[k] \in Nat
  <2>1. visited \in [Keys -> (0..(MaxDepth - 1)) \cup {None}]
    BY CallsParts DEF Going, MemoryTypes
  <2>2. CASE Marked(w)
    <3>1. Task(w).depth \in Nat /\ KeyOf(w) \in Keys
      BY <2>2, AtWorkPassed DEF Marked, Goes
    <3> QED
      BY <2>1, <2>2, <3>1 DEF Marked
  <2>3. CASE visited' = visited
    BY <2>1, <2>3
  <2> QED
    BY <2>2, <2>3 DEF Step, Dropped, Moved, Posted, Took, Started, Rested
<1>3. PICK n \in Nat : n = visited'[k] + 1
  BY <1>2
<1>4. Reached(w, l, n)' \/ (KeyOf(w) = k /\ Coming(w, l))'
  BY <1>1, <1>3
<1> QED
  BY <1>3, <1>4

LEMMA NextMarksPassed ==
  ASSUME NEW w, Going(w), SpellingsAlike, WalksOnce(w), Step(w), MarksPassed
  PROVE  MarksPassed'
<1>1. visited \in [Keys -> (0..(MaxDepth - 1)) \cup {None}]
  BY CallsParts DEF Going, MemoryTypes
<1>2. ASSUME NEW k \in Keys, visited'[k] # None PROVE k \notin Skipped
  <2>1. CASE visited[k] # None
    BY <2>1 DEF MarksPassed
  <2>2. CASE visited[k] = None
    <3>1. Marked(w)
      BY <1>2, <2>2 DEF Step, Dropped, Moved, Posted, Took, Started, Rested
    <3>2. k = KeyOf(w)
      BY <1>1, <1>2, <2>2, <3>1 DEF Marked
    <3>3. PcOf(w) = "visit"
      BY <3>1 DEF Marked, Goes
    <3>4. Page(w) \in URLs /\ Page(w) \notin Sitemaps /\ KeyOf(w) = Key[Page(w)]
      BY <3>3, AtWorkPassed
    <3>5. Sitemaps \subseteq URLs
      BY CrawlAssumption
    <3> QED
      BY <3>2, <3>4, <3>5 DEF SpellingsAlike, Skipped
  <2> QED
    BY <2>1, <2>2
<1>3. ASSUME NEW k \in docs' PROVE visited'[k] # None
  <2>1. CASE k \in docs
    <3>1. k \in Keys /\ visited[k] # None
      BY <2>1, CallsParts DEF Going, DiskTypes, MarksPassed
    <3> QED
      BY <3>1, MarksStay
  <2>2. CASE k \notin docs
    <3>1. k = KeyOf(w) /\ PcOf(w) = "index"
      BY <1>3, <2>2 DEF Step, Dropped, Moved, Goes, Marked, Posted, Took, Started, Rested
    <3>2. k \in Keys /\ Task(w).depth \in Nat
      BY <3>1, AtWorkPassed
    <3>3. visited[k] # None
      BY <3>1, <3>2, CrawlAssumption DEF WalksOnce
    <3> QED
      BY <3>2, <3>3, MarksStay
  <2> QED
    BY <2>1, <2>2
<1> QED
  BY <1>2, <1>3 DEF MarksPassed

LEMMA NextCover ==
  ASSUME NEW w, Going(w), SpellingsAlike, WalksOnce(w), Step(w), CoverInv(w)
  PROVE  CoverInv(w)'
BY NextStarts, NextReached, NextMarksPassed DEF CoverInv

LEMMA InitCover ==
  ASSUME NEW w, Workers = {w}, NEW origin, StartsApart(origin), Init
  PROVE  Alone(w) /\ TurnsInv(w, origin) /\ CoverInv(w)
<1>1. /\ stack[w] = <<>> /\ stack[Main] = <<>> /\ queue = <<>> /\ mpc = "submit" /\ todo = StartURLs
      /\ \A k \in Keys : visited[k] = None
      /\ docs = {}
  BY DEF Init, Threads
<1>2. PcOf(w) = "none" /\ Pending(w) = {}
  BY <1>1 DEF PcOf, Pending, Queued
<1>3. Alone(w)
  BY <1>1, <1>2 DEF Alone
<1>4. TurnsInv(w, origin)
  <2>1. InOrder(w, origin) /\ MarksFirst(w, origin) /\ WalksOnce(w)
    BY <1>1, <1>2 DEF InOrder, MarksFirst, WalksOnce
  <2>2. TodoFresh(w, origin)
    BY <1>1, <1>2 DEF TodoFresh, Unknown, StartsApart
  <2> QED
    BY <2>1, <2>2 DEF TurnsInv
<1>5. CoverInv(w)
  BY <1>1 DEF CoverInv, StartsReached, LinksReached, MarksPassed, StartKeys
<1> QED
  BY <1>3, <1>4, <1>5

LEMMA LevelKeys ==
  ASSUME NEW d \in 0..MaxDepth
  PROVE  Level[d] \subseteq Keys
<1>1. StartKeys \subseteq Keys
  BY CrawlAssumption DEF StartKeys
<1>2. \A X : Followers(X) \subseteq Keys
  <2> SUFFICES ASSUME NEW p \in Leads PROVE p[2] \in Keys
    BY DEF Followers
  <2>1. \E a, b \in Keys : p = <<a, b>>
    BY CrawlAssumption DEF Leads
  <2> QED
    BY <2>1
<1>3. d = 0 \/ d \in 1..MaxDepth
  BY CrawlAssumption
<1> QED
  BY <1>1, <1>2, <1>3, LevelValues

\* The page whose links are followed is not a skipped one.
LEMMA LeadsNotSkipped ==
  ASSUME Faults = {}, SpellingsAlike, NEW k, NEW l, <<k, l>> \in Leads
  PROVE  k \in Keys /\ k \notin Skipped
<1>1. PICK q \in URLs \X URLs :
        q[1] \notin Sitemaps /\ <<k, l>> = <<Key[q[1]], Key[q[2]]>>
  BY DEF Leads
<1>2. q[1] \in URLs /\ k = Key[q[1]]
  BY <1>1
<1>3. Sitemaps \subseteq URLs /\ Key \in [URLs -> Keys]
  BY CrawlAssumption
<1> QED
  BY <1>1, <1>2, <1>3 DEF SpellingsAlike, Skipped

\* Nothing is under way, so that what is reached has been visited.
LEMMA EndReached ==
  ASSUME NEW w, Awaited(w) = {}, ~(MaxDepth <= 0), NEW k, k \notin Skipped, NEW n \in Nat, n < MaxDepth,
         Reached(w, k, n)
  PROVE  visited[k] # None /\ visited[k] <= n
BY CrawlAssumption DEF Reached

LEMMA EndLevels ==
  ASSUME NEW w, Sequential(w), SpellingsAlike, CallsInv, Alone(w), CoverInv(w), mpc # "submit",
         NEW d \in 0..(MaxDepth - 1), NEW k \in Level[d] \ Skipped
  PROVE  k \in Keys /\ visited[k] # None /\ visited[k] <= d
<1>1. queue = <<>> /\ stack[w] = <<>> /\ todo = <<>>
  BY CallsParts DEF Idle, Sequential, Threads, Alone
<1>2. Awaited(w) = {} /\ PcOf(w) = "none"
  BY <1>1 DEF Awaited, Queued, PcOf
<1>3. \A j \in Keys : visited[j] \in (0..(MaxDepth - 1)) \cup {None}
  BY CallsParts DEF MemoryTypes
<1> DEFINE P(n) == n < MaxDepth =>
             \A j \in Level[n] \ Skipped : visited[j] # None /\ visited[j] <= n
           T == {n \in Nat : P(n)}
<1>4. 0 \in T
  <2> SUFFICES ASSUME 0 < MaxDepth, NEW j \in StartKeys, j \notin Skipped
               PROVE  visited[j] # None /\ visited[j] <= 0
    BY LevelValues
  <2>1. Reached(w, j, 0)
    BY <1>1 DEF CoverInv, StartsReached
  <2>2. ~(MaxDepth <= 0) /\ 0 \in Nat
    BY CrawlAssumption
  <2> QED
    BY <1>2, <2>1, <2>2, EndReached
<1>5. ASSUME NEW n \in Nat, n \in T PROVE n + 1 \in T
  <2> SUFFICES ASSUME n + 1 < MaxDepth, NEW j \in Level[n + 1], j \notin Skipped
               PROVE  visited[j] # None /\ visited[j] <= n + 1
    OBVIOUS
  <2>1. n + 1 \in 1..MaxDepth /\ (n + 1) - 1 = n /\ n < MaxDepth /\ n \in 0..MaxDepth /\ n + 1 \in 0..MaxDepth
    BY CrawlAssumption
  <2>2. j \in Followers(Level[n])
    BY <2>1, LevelValues
  <2>3. PICK p \in Leads : p[1] \in Level[n] /\ j = p[2]
    BY <2>2 DEF Followers
  <2>4. PICK i \in Keys : i = p[1] /\ <<i, j>> \in Leads
    <3>1. \E a, b \in Keys : p = <<a, b>>
      BY CrawlAssumption DEF Leads
    <3> QED
      BY <2>3, <3>1
  <2>5. i \notin Skipped /\ j \in Keys
    BY <2>1, <2>4, LeadsNotSkipped, LevelKeys DEF Sequential
  <2>6. visited[i] # None /\ visited[i] <= n /\ visited[i] \in Nat
    BY <1>3, <1>5, <2>1, <2>3, <2>4, <2>5
  <2>7. PICK m \in Nat : m = visited[i] + 1
    BY <2>6
  <2>8. Reached(w, j, m)
    BY <1>2, <2>4, <2>5, <2>6, <2>7 DEF CoverInv, LinksReached, Coming
  <2>9. m < MaxDepth /\ m <= n + 1
    BY <2>6, <2>7, CrawlAssumption
  <2>10. visited[j] # None /\ visited[j] <= m
    <3>1. ~(MaxDepth <= 0)
      BY <2>7, <2>9, CrawlAssumption
    <3> QED
      BY <1>2, <2>7, <2>8, <2>9, <3>1, EndReached
  <2>11. visited[j] \in Nat
    BY <1>3, <2>5, <2>10
  <2> QED
    BY <2>7, <2>9, <2>10, <2>11
<1> HIDE DEF P
<1>6. \A n \in Nat : P(n)
  <2>1. Nat \subseteq T
    BY <1>4, <1>5, SetInduction
  <2> QED
    BY <2>1
<1>7. d \in Nat /\ d < MaxDepth /\ d \in 0..MaxDepth
  BY CrawlAssumption
<1>8. k \in Keys
  BY <1>7, LevelKeys
<1> QED
  BY <1>6, <1>7, <1>8 DEF P

LEMMA EndCovered ==
  ASSUME NEW w, Sequential(w), SpellingsAlike, CallsInv, LinksInv, VisitedIsIndexed,
         ~cancelled => Alone(w) /\ CoverInv(w)
  PROVE  BreadthFirstCoverage
<1> SUFFICES ASSUME mpc # "submit", ~cancelled
             PROVE  /\ docs = (UNION {Level[d] : d \in 0..(MaxDepth - 1)}) \ Skipped
                    /\ \A d \in 0..(MaxDepth - 1) : \A k \in Level[d] \ Skipped : visited[k] <= d
  BY DEF BreadthFirstCoverage, Undisturbed
<1> DEFINE levels == {Level[d] : d \in 0..(MaxDepth - 1)}
<1>0. /\ \A d \in 0..(MaxDepth - 1) : Level[d] \in levels
      /\ \A X \in levels : \E d \in 0..(MaxDepth - 1) : X = Level[d]
  OBVIOUS
<1> HIDE DEF levels
<1>1. \A d \in 0..(MaxDepth - 1) : \A k \in Level[d] \ Skipped :
        k \in Keys /\ visited[k] # None /\ visited[k] <= d
  BY EndLevels
<1>2. \A k \in Keys : visited[k] # None => k \in docs
  BY DEF VisitedIsIndexed, Undisturbed, Sequential
<1>3. ASSUME NEW k \in docs
      PROVE  k \in (UNION levels) \ Skipped
  <2>1. k \in Keys /\ visited[k] # None /\ k \notin Skipped
    BY CallsParts DEF DiskTypes, CoverInv, MarksPassed
  <2>2. visited[k] \in 0..(MaxDepth - 1)
    BY <2>1, CallsParts DEF MemoryTypes
  <2>3. k \in Level[visited[k]] /\ Level[visited[k]] \in levels
    BY <1>0, <2>1, <2>2 DEF LinksInv, MarksTraced, DepthSound
  <2>4. PICK X \in levels : k \in X
    BY <2>3
  <2>5. k \in UNION levels
    BY <2>4
  <2> QED
    BY <2>1, <2>5
<1>4. ASSUME NEW k \in (UNION levels) \ Skipped PROVE k \in docs
  <2>1. PICK X \in levels : k \in X
    OBVIOUS
  <2>2. PICK d \in 0..(MaxDepth - 1) : X = Level[d]
    BY <1>0
  <2>3. k \in Level[d] \ Skipped
    BY <2>1, <2>2
  <2>4. k \in Keys /\ visited[k] # None
    BY <1>1, <2>3
  <2> QED
    BY <1>2, <2>4
<1>5. docs = (UNION levels) \ Skipped
  BY <1>3, <1>4
<1> QED
  BY <1>1, <1>5 DEF levels

\* Only a restart ends an interruption.
LEMMA StaysInterrupted ==
  ASSUME CallsInv, Sessions = 1, cancelled, [Next]_vars
  PROVE  cancelled'
<1>1. ~Restart
  BY CallsParts DEF Restart, RunTypes
<1>2. CASE \E th \in Threads : ScrapeStep(th)
  BY <1>2, ScrapeEffect
<1>3. CASE \E w \in Workers : TakeTask(w)
  BY <1>3 DEF TakeTask
<1>4. CASE RunStep \/ DropTask \/ Cancel \/ Finished \/ UNCHANGED vars
  BY <1>4 DEF RunStep, SubmitStart, Wait, SaveVisited, DropTask, Cancel, Finished, vars
<1> QED
  BY <1>1, <1>2, <1>3, <1>4 DEF Next

\* The inductive invariant, until the crawl is interrupted.
LevelsInv(w, origin) == ~cancelled => Alone(w) /\ TurnsInv(w, origin) /\ CoverInv(w)

LEMMA NextLevels ==
  ASSUME NEW w, NEW origin, Sequential(w), SpellingsAlike, StartsApart(origin),
         CallsInv, LinksInv, LevelsInv(w, origin), HasRoom, [Next]_vars
  PROVE  LevelsInv(w, origin)'
<1> SUFFICES ASSUME ~cancelled' PROVE Alone(w)' /\ TurnsInv(w, origin)' /\ CoverInv(w)'
  BY DEF LevelsInv
<1>1. ~cancelled
  BY StaysInterrupted DEF Sequential
<1>2. Going(w) /\ TurnsInv(w, origin) /\ CoverInv(w)
  BY <1>1 DEF LevelsInv, Going
<1>3. Step(w)
  BY <1>2, StepView
<1>4. WalksOnce(w)
  BY <1>2 DEF TurnsInv
<1> QED
  BY <1>2, <1>3, <1>4, AloneStays, NextTurns, NextCover

\* One worker and a queue that never fills up crawl breadth-first (BreadthFirstCoverage):
\* ScrapeWithContext submits the links of a page behind those of all pages submitted
\* before, so that a page is marked at its least depth and none is left out.  The start
\* URLs are to lead to sites of their own, and a page is to look alike under its spellings.
THEOREM CrawledBreadthFirst ==
  ASSUME NEW w, Workers = {w}, Sessions = 1, SpellingsAlike, NEW origin, StartsApart(origin)
  PROVE  Spec /\ []HasRoom => []BreadthFirstCoverage
<1>1. CASE Faults = {}
  <2>1. Sequential(w)
    BY <1>1 DEF Sequential
  <2>2. Init => LevelsInv(w, origin)
    BY InitCover DEF LevelsInv
  <2>3. CallsInv /\ LinksInv /\ LevelsInv(w, origin) /\ HasRoom /\ [Next]_vars => LevelsInv(w, origin)'
    BY <2>1, NextLevels
  <2>4. CallsInv /\ LinksInv /\ VisitedIsIndexed /\ LevelsInv(w, origin) => BreadthFirstCoverage
    BY <2>1, EndCovered DEF LevelsInv
  <2>5. Spec => []VisitedIsIndexed
    BY VisitedPagesAreIndexed
  <2> QED
    BY <2>2, <2>3, <2>4, <2>5, CallsInvariant, LinksInvariant, PTL DEF Spec
<1>2. CASE Faults # {}
  <2>1. BreadthFirstCoverage
    BY <1>2 DEF BreadthFirstCoverage, Undisturbed
  <2> QED
    BY <2>1, PTL
<1> QED
  BY <1>1, <1>2
=============================================================================
