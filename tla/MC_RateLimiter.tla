-------------------------- MODULE MC_RateLimiter --------------------------
(* Instances of RateLimiter: the requests, and the identities of the entries, are interchangeable. *)
EXTENDS RateLimiter, TLC

Symmetry == Permutations(Callers) \cup Permutations(Buckets)
=============================================================================
