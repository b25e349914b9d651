--------------------------- MODULE MCRateLimiter ---------------------------
(* Goroutines by name, for RateLimiter. *)
EXTENDS RateLimiter

CONSTANTS c1, c2, f1
=============================================================================
