------------------------- MODULE MCWebsiteLimit -------------------------
(* Symmetry for TLC's runs of WebsiteLimit. *)
EXTENDS WebsiteLimit

Symmetry == Permutations(Requests) \union Permutations(Subscriptions)
=========================================================================
