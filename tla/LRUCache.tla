------------------------------ MODULE LRUCache ------------------------------
(***************************************************************************)
(* src/internal/app/scraper/lruCache/lruCache.go: a map from keys to the   *)
(* nodes of a doubly linked list between two sentinels, most recent next   *)
(* to head.  Get and Put hold lru.mu from start to end, so each is one     *)
(* step.  Nodes are allocated by Put and left to the garbage collector,    *)
(* with their old pointers, when they are unlinked.                        *)
(*                                                                         *)
(* Definitions marked Variant are faulty forms of a definition below them, *)
(* which the properties tell apart; the specification does not use them.   *)
(***************************************************************************)
EXTENDS Naturals, Sequences, FiniteSets

CONSTANTS Keys,      \* the hashes used as keys
          Values,    \* the values stored, never nil
          Capacity,  \* cap of NewLRUCache
          Nodes,     \* addresses of nodes, the sentinels excluded
          HeadNode,      \* the sentinel head
          TailNode,     \* the sentinel tail
          Nil        \* nil, as a pointer and as a value

ASSUME LRUCacheAssumption ==
  /\ IsFiniteSet(Nodes) /\ Cardinality(Nodes) > Capacity
  /\ Capacity \in Nat \ {0}
  /\ {HeadNode, TailNode, Nil} \cap Nodes = {}
  /\ HeadNode # TailNode /\ Nil \notin {HeadNode, TailNode}
  /\ Nil \notin Values

VARIABLES mp,      \* mp[k]: the node of key k, or Nil
          next,    \* next[n], prev[n]: the links of node n
          prev,
          key,     \* key[n], value[n]: the contents of node n
          value,
          answer   \* what the last Get returned

vars == <<mp, next, prev, key, value, answer>>

Linked == {HeadNode, TailNode} \cup Nodes

TypeOK ==
  /\ mp \in [Keys -> Nodes \cup {Nil}]
  /\ next \in [Linked -> Linked \cup {Nil}] /\ prev \in [Linked -> Linked \cup {Nil}]
  /\ key \in [Nodes -> Keys \cup {Nil}] /\ value \in [Nodes -> Values \cup {Nil}]
  /\ answer \in Values \cup {Nil}

Init ==
  /\ mp = [k \in Keys |-> Nil]
  /\ next = [n \in Linked |-> IF n = HeadNode THEN TailNode ELSE Nil]
  /\ prev = [n \in Linked |-> IF n = TailNode THEN HeadNode ELSE Nil]
  /\ key = [n \in Nodes |-> Nil] /\ value = [n \in Nodes |-> Nil]
  /\ answer = Nil

\* The fields that remove and insert rewrite, in the order of their assignments.
Lru == [mp |-> mp, next |-> next, prev |-> prev]

\* Variant: the next node keeps its pointer to the node that is removed.
removeForward(lru, n) ==
  [mp   |-> [lru.mp EXCEPT ![key[n]] = Nil],
   next |-> [lru.next EXCEPT ![lru.prev[n]] = lru.next[n]],
   prev |-> lru.prev]

\* delete(lru.mp, node.key); node.prev.next = node.next; node.next.prev = node.prev
remove(lru, n) ==
  [mp   |-> [lru.mp EXCEPT ![key[n]] = Nil],
   next |-> [lru.next EXCEPT ![lru.prev[n]] = lru.next[n]],
   prev |-> [lru.prev EXCEPT ![lru.next[n]] = lru.prev[n]]]

\* Variant: the map gets the node that was first before.
insertNext(lru, n, k) ==
  LET first == lru.next[HeadNode]
  IN  [mp   |-> [lru.mp EXCEPT ![k] = first],
       next |-> [lru.next EXCEPT ![HeadNode] = n, ![n] = first],
       prev |-> [lru.prev EXCEPT ![n] = HeadNode, ![first] = n]]

\* The node becomes head.next and the map's node for its key.
insert(lru, n, k) ==
  LET first == lru.next[HeadNode]
  IN  [mp   |-> [lru.mp EXCEPT ![k] = n],
       next |-> [lru.next EXCEPT ![HeadNode] = n, ![n] = first],
       prev |-> [lru.prev EXCEPT ![n] = HeadNode, ![first] = n]]

Becomes(lru) == mp' = lru.mp /\ next' = lru.next /\ prev' = lru.prev

Size(lru) == Cardinality({k \in Keys : lru.mp[k] # Nil})

Get(k) ==
  /\ UNCHANGED <<key, value>>
  /\ \/ /\ mp[k] # Nil
        /\ Becomes(insert(remove(Lru, mp[k]), mp[k], k))
        /\ answer' = value[mp[k]]
     \/ /\ mp[k] = Nil
        /\ answer' = Nil
        /\ UNCHANGED <<mp, next, prev>>

\* Variant: the size is looked at before the old entry of the key is removed.
PutEvictingFirst(k, v) ==
  LET shrunk   == IF Size(Lru) = Capacity THEN remove(Lru, prev[TailNode]) ELSE Lru
      replaced == IF shrunk.mp[k] # Nil THEN remove(shrunk, shrunk.mp[k]) ELSE shrunk
  IN  \E n \in Nodes \ {mp[q] : q \in Keys} :
        /\ Becomes(insert(replaced, n, k))
        /\ key' = [key EXCEPT ![n] = k]
        /\ value' = [value EXCEPT ![n] = v]
        /\ UNCHANGED answer

Put(k, v) ==
  LET replaced == IF mp[k] # Nil THEN remove(Lru, mp[k]) ELSE Lru
      evicted  == IF Size(replaced) = Capacity
                  THEN remove(replaced, replaced.prev[TailNode]) ELSE replaced
  IN  \E n \in Nodes \ {mp[q] : q \in Keys} :
        /\ Becomes(insert(evicted, n, k))
        /\ key' = [key EXCEPT ![n] = k]
        /\ value' = [value EXCEPT ![n] = v]
        /\ UNCHANGED answer

Next == \E k \in Keys : Get(k) \/ \E v \in Values : Put(k, v)

Spec == Init /\ [][Next]_vars
-----------------------------------------------------------------------------
(* Properties *)

Lists == UNION {[1..n -> Nodes] : n \in 0..Cardinality(Nodes)}

\* Where a walk over s, from the head to the tail, is after i steps.
Stop(s, i) == IF i = 0 THEN HeadNode ELSE IF i = Len(s) + 1 THEN TailNode ELSE s[i]

LeadsOver(pointer, s) == \A i \in 0..Len(s) : pointer[Stop(s, i)] = Stop(s, i + 1)

\* The nodes between head and tail, by the next pointers.
NodesFrom == CHOOSE s \in Lists : LeadsOver(next, s)

Mapped == {mp[k] : k \in Keys} \ {Nil}

\* The list and the map hold the same nodes: reading the list backwards gives what
\* reading it forwards gives, and every node on it is the map's node of its key.
ListMatchesMap ==
  /\ TypeOK
  /\ \A n \in {HeadNode} \cup Mapped :
       next[n] \in Nodes \cup {TailNode} /\ prev[next[n]] = n
  /\ LET s == NodesFrom IN {s[i] : i \in 1..Len(s)} = Mapped
  /\ \A k \in Keys : mp[k] # Nil => key[mp[k]] = k

Contents ==
  LET s == NodesFrom IN [i \in 1..Len(s) |-> [key |-> key[s[i]], value |-> value[s[i]]]]

Abstract == INSTANCE LRUSpec WITH Absent <- Nil, cache <- Contents

\* The pointer surgery implements a cache that answers with the value last put
\* under the key and evicts the entry that was used longest ago, and only that, so that it never holds
\* more than its capacity.
Implements == Abstract!Spec
=============================================================================
