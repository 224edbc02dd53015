--------------------------- MODULE MCRateLimiter ---------------------------
(***************************************************************************)
(* Small instances of the rate limiter.                                    *)
(***************************************************************************)
EXTENDS RateLimiter, TLC

Symmetry == Permutations(Threads)
=============================================================================
