---------------------------- MODULE MCRateLimiter ----------------------------
(* RateLimiter with interchangeable requests and clients.                  *)
EXTENDS RateLimiter, TLC

Symmetry == Permutations(Requests) \cup Permutations(Keys)
=============================================================================
