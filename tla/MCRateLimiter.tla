--------------------------- MODULE MCRateLimiter ---------------------------
(* A small instance of RateLimiter: two identities, half-second ticks.     *)
EXTENDS RateLimiter
CONSTANTS k1, k2
=============================================================================
