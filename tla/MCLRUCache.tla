----------------------------- MODULE MCLRUCache -----------------------------
(* An instance of LRUCache for TLC: one key more than the cache has room for. *)
EXTENDS LRUCache
=============================================================================
