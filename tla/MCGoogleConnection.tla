------------------------ MODULE MCGoogleConnection ------------------------
(* Symmetry for TLC's runs of GoogleConnection. *)
EXTENDS GoogleConnection, TLC

Symmetry == Permutations(Flows) \union Permutations(Monitors) \union Permutations(Calls)
===========================================================================
