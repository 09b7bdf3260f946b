---------------------------- MODULE MCRateLimiter ----------------------------
(* Values of the constants of RateLimiter for TLC. *)
EXTENDS RateLimiter

CONSTANTS t1, t2, t3

ThreeThreads == {t1, t2, t3}

=============================================================================
