--------------------------- MODULE MCRateLimiter ---------------------------
(* Instances of RateLimiter for TLC; the .cfg files give the constants. *)
EXTENDS RateLimiter
=============================================================================
