------------------------------ MODULE Recency ------------------------------
(***************************************************************************)
(* A bounded cache as its users see it: the sequence of its entries, most  *)
(* recently used first, with at most one entry per key.  LRUCache.tla      *)
(* shows that the linked list of lruCache.go behaves like this; Crawl.tla  *)
(* uses these operators for WebScraper.lru.                                *)
(***************************************************************************)
EXTENDS Naturals, Sequences

Entry(k, v) == [key |-> k, value |-> v]

Has(cache, k) == \E i \in 1..Len(cache) : cache[i].key = k

Place(cache, k) == CHOOSE i \in 1..Len(cache) : cache[i].key = k

Without(cache, k) ==
  IF Has(cache, k)
  THEN SubSeq(cache, 1, Place(cache, k) - 1) \o SubSeq(cache, Place(cache, k) + 1, Len(cache))
  ELSE cache

Lookup(cache, k) == cache[Place(cache, k)].value

\* Get: a hit becomes the most recent entry.
AfterGet(cache, k) ==
  IF Has(cache, k) THEN <<Entry(k, Lookup(cache, k))>> \o Without(cache, k) ELSE cache

\* Put: the key's old entry goes first, so that replacing it evicts nothing else.
AfterPut(cache, k, v, capacity) ==
  LET others == Without(cache, k)
      kept   == IF Len(others) = capacity THEN SubSeq(others, 1, capacity - 1) ELSE others
  IN  <<Entry(k, v)>> \o kept
=============================================================================
