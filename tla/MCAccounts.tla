------------------------------ MODULE MCAccounts ------------------------------
(* Symmetry for TLC's runs of Accounts. *)
EXTENDS Accounts, TLC

Symmetry == Permutations(Signups) \union Permutations(Logins) \union Permutations(Requests)
              \union Permutations(Emails) \union Permutations(Creations)
===============================================================================
