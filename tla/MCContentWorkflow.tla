-------------------------- MODULE MCContentWorkflow --------------------------
(* Symmetry for TLC's runs of ContentWorkflow. *)
EXTENDS ContentWorkflow

Symmetry == Permutations(Requests)
==========================================================================
