---------------------------- MODULE MCRateLimiter ---------------------------
(* Small instances of RateLimiter.  Clients differ in nothing, so they are *)
(* interchangeable.                                                        *)
EXTENDS RateLimiter, TLC

Clients == Permutations(Client)
=============================================================================
