------------------------- MODULE MCCheckpointedJobs -------------------------
(* Symmetry for TLC's runs of CheckpointedJobs. *)
EXTENDS CheckpointedJobs, TLC

Symmetry == Permutations(Runners)
=============================================================================
