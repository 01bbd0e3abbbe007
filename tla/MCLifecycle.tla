---------------------------- MODULE MCLifecycle ----------------------------
(* One page in the crawl and one search. *)
EXTENDS Lifecycle

OnceEach == [c \in Clients |-> 1]
=============================================================================
