------------------------------ MODULE LRUSpec ------------------------------
(* The least-recently-used cache: what Get and Put promise their callers. *)
EXTENDS Recency

CONSTANTS Keys, Values, Capacity, Absent

VARIABLES cache,   \* the entries, most recently used first
          answer   \* what the last Get returned

Init == cache = <<>> /\ answer = Absent

Get(k) ==
  /\ answer' = IF Has(cache, k) THEN Lookup(cache, k) ELSE Absent
  /\ cache' = AfterGet(cache, k)

Put(k, v) ==
  /\ cache' = AfterPut(cache, k, v, Capacity)
  /\ UNCHANGED answer

Next == \E k \in Keys : Get(k) \/ \E v \in Values : Put(k, v)

Spec == Init /\ [][Next]_<<cache, answer>>
=============================================================================
