--------------------------- MODULE MCRateLimiter ---------------------------
(* Symmetry for TLC's runs of RateLimiter. *)
EXTENDS RateLimiter, TLC

Symmetry == Permutations(Callers)
=============================================================================
