-------------------------- MODULE MCCitationStore --------------------------
(* TLC's instance of CitationStore: two tenants, two calls at a time. *)
EXTENDS CitationStore, TLC

Symmetry == Permutations(Calls) \cup Permutations(Schemas)
=============================================================================
