-------------------------- MODULE MCMigrationRunner --------------------------
(* TLC's runs of MigrationRunner. *)
EXTENDS MigrationRunner, TLC

Symmetry == Permutations(Runners)
==============================================================================
